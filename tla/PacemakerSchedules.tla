------------------------- MODULE PacemakerSchedules --------------------------
(***************************************************************************)
(* Single schedules of Pacemaker that are too long for TLC to look for.    *)
(* No message is lost in them, and only one replica of StraySchedule stops *)
(* and comes back.  Each step is a step of Pacemaker; the schedule only    *)
(* says which one is taken.                                                *)
(***************************************************************************)
EXTENDS Pacemaker

CONSTANT Schedule  \* one of the schedules below

VARIABLE at  \* how many steps of the schedule have been taken

\* An entry is a step <<replica, name>>, or the receipt <<to, type, from, round>>
\* of a message.  Replica r proposes in rounds r, r + N, ...

\* p proposes, the replicas in the sequence seats receive the block, the next
\* proposer q counts the votes of seats, and n timers of r expire.
Propose(p) == << <<p, "beat">>, <<p, "broadcast">> >>
Receipts(type, p, round, seats) ==
    [i \in DOMAIN seats |-> <<seats[i], type, p, round>>]
Votes(q, round, seats) == [i \in DOMAIN seats |-> <<q, "vote", seats[i], round>>]
Timeouts(r, n) == [i \in 1 .. 2 * n |-> <<r, IF i % 2 = 1 THEN "fires" ELSE "expired">>]
Import(r) == << <<r, "import">>, <<r, "committee">> >>

(***************************************************************************)
(* Three members, four round timers that fire while messages are still     *)
(* under way.                                                              *)
(*   b  = height 1, round 0, by replica 0     bb = height 2, round 1, by 1 *)
(*   c  = height 1, round 2, by replica 2     cc = height 2, round 3, by 0 *)
(***************************************************************************)
RivalCertificates ==
       Propose(0) \o Receipts("proposal", 0, 0, <<0, 1>>)       \* b
    \o Votes(1, 0, <<0, 1>>)                                    \* QC of b
    \o Propose(1)                                               \* bb on b
    \o Timeouts(0, 2) \o Timeouts(1, 2)
    \o << <<2, "timeout", 0, 2>>, <<2, "timeout", 1, 2>> >>     \* TC of round 2
    \o Propose(2)                                               \* c on genesis

ForkSchedule ==
    RivalCertificates
    \o Receipts("proposal", 2, 2, <<0, 1>>) \o Votes(0, 2, <<0, 1>>)  \* QC of c
    \o Propose(0)                                               \* cc on c
    \o << <<2, "proposal", 0, 0>> >>
    \o Receipts("proposal", 1, 1, <<2, 0, 1>>)
    \o Votes(2, 1, <<0, 1>>)                                    \* 2 commits b
    \o Receipts("proposal", 0, 3, <<0, 1>>)
    \o Votes(1, 3, <<0, 1>>)                                    \* 1 commits c

\* The same two blocks, but replica 1, which holds the QC of b, never sees c.
\* It learns of the QC of c from a timeout, and then handles bb.
NilNodeSchedule ==
    RivalCertificates
    \o Receipts("proposal", 2, 2, <<0, 2>>) \o Votes(0, 2, <<0, 2>>)  \* QC of c
    \o Timeouts(0, 2)
    \o << <<1, "timeout", 0, 4>>, <<1, "proposal", 1, 1>> >>

\* The same two blocks again.  Replica 2 commits b, restarts, and learns of the
\* QC of c from a timeout: it knows a block of that height, which is b.
StraySchedule ==
    RivalCertificates
    \o Receipts("proposal", 2, 2, <<0, 1>>) \o Votes(0, 2, <<0, 1>>)  \* QC of c
    \o << <<2, "proposal", 0, 0>> >>
    \o Receipts("proposal", 1, 1, <<2, 0, 1>>)
    \o Votes(2, 1, <<0, 1>>)                                    \* 2 commits b
    \o << <<2, "crash">>, <<2, "restart">> >>
    \o Timeouts(0, 3) \o Timeouts(1, 3)
    \o << <<2, "timeout", 0, 5>>, <<2, "timeout", 1, 5>> >>     \* TC of round 5
    \o Propose(2)                                               \* d on b
    \o << <<0, "proposal", 2, 5>> >>

(***************************************************************************)
(* Four members, one chain h1 .. h5, no timer fires.  Replica 1 misses h3, *)
(* imports h1 to h3, and handles h4, h5 and the votes on h5 before the     *)
(* Regulate that is waiting.                                               *)
(***************************************************************************)
ImportSchedule ==
       Propose(0) \o Receipts("proposal", 0, 0, <<0, 1, 2, 3>>) \o Votes(1, 0, <<0, 1, 2>>)
    \o Propose(1) \o Receipts("proposal", 1, 1, <<0, 1, 2, 3>>) \o Votes(2, 1, <<0, 2, 3>>)
    \o Propose(2) \o Receipts("proposal", 2, 2, <<0, 2, 3>>) \o Votes(3, 2, <<0, 2, 3>>)
    \o Propose(3) \o Receipts("proposal", 3, 3, <<0, 2, 3>>) \o Votes(0, 3, <<0, 2, 3>>)
    \o Propose(0) \o Receipts("proposal", 0, 4, <<0, 2, 3>>)
    \o Import(1) \o Import(1) \o Import(1)
    \o << <<1, "proposal", 3, 3>>, <<1, "proposal", 0, 4>> >> \o Votes(1, 4, <<0, 2, 3>>)

MessageRound(m) ==
    CASE m.type \in {"proposal", "vote"} -> Round(m.block)
      [] m.type = "timeout" -> m.wish
      [] m.type = "query" -> 0

Scheduled(e) ==
    \/ e[2] = "beat" /\ OnBeat(e[1])
    \/ e[2] = "broadcast" /\ OnBroadcastProposal(e[1])
    \/ e[2] = "fires" /\ TimerFires(e[1])
    \/ e[2] = "expired" /\ OnRoundTimeout(e[1])
    \/ e[2] = "import" /\ ImportBlock(e[1])
    \/ e[2] = "committee" /\ ReplaceCommittee(e[1])
    \/ e[2] = "crash" /\ Crash(e[1])
    \/ e[2] = "restart" /\ Restart(e[1])
    \/ \E m \in net : /\ Len(e) = 4 /\ m.type = e[2] /\ m.from = e[3]
                      /\ MessageRound(m) = e[4]
                      /\ Receive(e[1], m)

ScheduleInit == Init /\ at = 0

ScheduleNext ==
    /\ at < Len(Schedule)
    /\ Scheduled(Schedule[at + 1])
    /\ at' = at + 1

ScheduleSpec == ScheduleInit /\ [][ScheduleNext]_<<vars, at>>
=============================================================================
