------------------------------ MODULE Pacemaker ------------------------------
(***************************************************************************)
(* The chained-BFT pacemaker of consensus/pacemaker*.go, run by every      *)
(* member of a committee, with the draft space of chain/proposal_map.go,   *)
(* the vote managers, and the goroutine of node.processBlock that moves    *)
(* the best block and the epoch under it without a lock.                   *)
(*                                                                         *)
(* A block is the sequence of the headers on its path from genesis, so     *)
(* that block identifiers are collision free by construction and the       *)
(* parent of a block is its Front.  A quorum certificate is named by the   *)
(* block it certifies: QCHeight and QCRound are that block's.  A block     *)
(* carries the certificate of its parent, unless strays says otherwise.    *)
(***************************************************************************)
EXTENDS Integers, FiniteSets, Sequences, SequencesExt

CONSTANTS
    N,           \* committeeSize
    MinMBlocks,  \* p.minMBlocks
    NoBlock,     \* a nil *DraftBlock, or no message
    PowReady,    \* whether powpool.GetPowDecision may answer true
    Importers,   \* the replicas that may import committed blocks from peers
    MaxEarly,    \* bound: how many round timers fire before all traffic is over
    MaxCrash,    \* bound: how many replicas may stop
    MaxRestart,  \* bound: how many stopped replicas come back
    MaxLoss,     \* bound: how many messages the outgoing queues lose
    MaxRound,    \* bound: timers of rounds >= MaxRound do not fire
    MaxHeight    \* bound: no proposal above MaxHeight

ASSUME PacemakerAssumption ==
    /\ N \in Nat \ {0}
    /\ MinMBlocks \in Nat \ {0, 1}
    /\ MaxRound \in Nat /\ MaxHeight \in Nat
    /\ MaxEarly \in Nat /\ MaxCrash \in Nat /\ MaxRestart \in Nat /\ MaxLoss \in Nat
    /\ PowReady \in BOOLEAN
    /\ Importers \subseteq 0 .. N - 1

VARIABLES
    pm,       \* pm[r]: the Pacemaker, Reactor and Chain fields of replica r
    net,      \* the consensus messages in flight
    cast,     \* history: every vote <<r, b>> ever signed
    strays,   \* <<b, q>>: block b carries the QC of q, which is not its parent
    used      \* how much of each of the bounds on faults is used up

vars == <<pm, net, cast, strays, used>>

Replicas == 0 .. N - 1

(***************************************************************************)
(* Blocks                                                                  *)
(***************************************************************************)
Genesis == <<>>
Parent(b) == IF b = Genesis THEN Genesis ELSE Front(b)
Round(b) == IF b = Genesis THEN 0 ELSE Last(b).round
IsKBlock(b) == b # Genesis /\ Last(b).kind = "K"
IsSBlock(b) == b # Genesis /\ Last(b).kind = "S"
LastKBlockHeight(b) == IF b = Genesis THEN 0 ELSE Last(b).lastK

\* The block certified by the QC inside block b.
QCOf(b) ==
    IF \E x \in strays : x[1] = b
    THEN (CHOOSE x \in strays : x[1] = b)[2] ELSE Parent(b)

\* Block b is stored below the best block of replica state s.
InDB(s, b) == IsPrefix(b, s.best)

Longest(S) == CHOOSE b \in S : \A a \in S : Len(a) <= Len(b)

MajorityTwoThird(voterNum, committeeSize) ==
    committeeSize >= 1 /\ voterNum >= (2 * committeeSize + 2) \div 3

\* The epoch that KBlock k starts.
EpochAfter(k) == IF k = Genesis THEN 0 ELSE Last(k).epoch + 1

\* The committee, sorted by the nonce of the KBlock it was taken from.  It is
\* not always the one of the current epoch: see processBlock.
Committee(s) == EpochAfter(s.curK)
getRoundProposer(s, round) == (Committee(s) + round) % N

(***************************************************************************)
(* The draft space (chain/proposal_map.go).  s.drafts is the set of blocks *)
(* in it and s.flags relates them to what their DraftBlock records:        *)
(*   committed  Committed is set;                                          *)
(*   known      ProcessError is errKnownBlock;                             *)
(*   cut        Parent is a copy read from the database, whose own Parent  *)
(*              is nil, and not the draft other drafts point to;           *)
(*   loose      Parent and Justify.QCNode are different copies;            *)
(*   nilNode    Justify.QCNode is nil;                                     *)
(*   stored     the copy Regulate read from the database: Parent, Justify  *)
(*              and ReturnTxsToPool are nil.                               *)
(***************************************************************************)
Flags == {"committed", "known", "cut", "loose", "nilNode", "stored"}

HasDraft(s, b) == b \in s.drafts

AddDraft(s, b, fl) ==
    [s EXCEPT !.drafts = @ \cup {b}, !.flags = @ \cup ({b} \X fl)]

GetDraft(s, b) == IF HasDraft(s, b) \/ InDB(s, b) THEN b ELSE NoBlock

\* The fallback reads the best chain at the height of the QC.
GetDraftByEscortQC(s, q) ==
    CASE HasDraft(s, q) -> q
      [] ~HasDraft(s, q) /\ Len(q) <= Len(s.best) -> SubSeq(s.best, 1, Len(q))
      [] OTHER -> NoBlock

\* A draft that GetDraft loads from the database guesses its round from the
\* QC inside it.
DraftRound(s, b) == IF HasDraft(s, b) THEN Round(b) ELSE Round(QCOf(b)) + 1

IsCommitted(s, b) == HasDraft(s, b) => <<b, "committed">> \in s.flags

Panic(s) == [s EXCEPT !.status = "panic"]

StoredSibling(s, b) ==
    \E d \in s.drafts : d # b /\ Len(d) = Len(b) /\ <<d, "stored">> \in s.flags

\* The other drafts of the height of b return their transactions to the pool.
PruneDraftsUpTo(s, b) ==
    LET keep == {d \in s.drafts : Len(d) > Len(b) \/ d = b}
        committed == {d \in {b} : HasDraft(s, b)} \X {"committed"}
    IN  IF StoredSibling(s, b) THEN Panic(s)
        ELSE [s EXCEPT !.drafts = keep,
                       !.flags = {f \in @ : f[1] \in keep} \cup committed]

\* Up to four drafts, by their Parent pointers, which also reach pruned drafts.
\* A head read from the database is marked committed: nothing to send.
GetDraftsUpTo(s, committed, q) ==
    LET path == {d \in {SubSeq(q, 1, k) : k \in 0 .. Len(q)} : Len(d) > Len(q) - 4}
        ends(d) == \/ d = committed
                   \/ HasDraft(s, d) /\ IsCommitted(s, d)
                   \/ ~HasDraft(s, d) /\ InDB(s, d)
    IN  {d \in path :
            /\ HasDraft(s, q) /\ GetDraft(s, committed) # NoBlock
            /\ \A e \in path : Len(e) >= Len(d) =>
                   ~ends(e) /\ (e # d => <<e, "cut">> \notin s.flags)}

(***************************************************************************)
(* Pacemaker internals.  Each takes and returns the state of one replica.  *)
(***************************************************************************)
\* QCHigh is the pair qc, qcNode, and qcCopy says whether QCNode is a copy read
\* from the database.  The second comparison reads QCNode.Height and .Round:
\* the height and round of the QC, for a QCNode that is not nil.
UpdateQCHigh(s, q, node) ==
    CASE node # NoBlock /\ Len(q) > Len(s.qc) ->
            [s EXCEPT !.qc = q, !.qcNode = node, !.qcCopy = ~HasDraft(s, q)]
      [] ~(node # NoBlock /\ Len(q) > Len(s.qc)) /\ s.qcNode = NoBlock ->
            Panic(s)
      [] ~(node # NoBlock /\ Len(q) > Len(s.qc)) /\ s.qcNode # NoBlock ->
            IF Len(q) = Len(s.qc) /\ Round(q) > Round(s.qc)
            THEN [s EXCEPT !.qc = q, !.qcNode = node, !.qcCopy = ~HasDraft(s, q)] ELSE s

scheduleRegulate(s) == [s EXCEPT !.cmd = TRUE]

\* The blocks of a commit that OnCommit does not skip.
Committing(s, ready) ==
    {b \in ready : ~IsSBlock(b) /\ <<b, "known">> \notin s.flags}

\* commitBlock refuses a block that is not above the best block, and AddBlock
\* one whose parent is not stored.
commitBlock(s, tried) ==
    LET added == {b \in tried : IsStrictPrefix(s.best, b) /\
                    \A k \in Len(s.best) + 1 .. Len(b) : SubSeq(b, 1, k) \in tried}
    IN  IF added = {} THEN s.best ELSE Longest(added)


\* A newly committed KBlock that makes OnCommit schedule a Regulate.
EndsEpoch(s, b) ==
    Len(b) > Len(s.best) /\ IsKBlock(b) /\ Last(b).epoch >= s.epoch /\ b # s.curK

\* The loop of OnCommit over the blocks of one path, lowest first, as far as
\* PruneDraftsUpTo lets it get.
OnCommit(s, ready) ==
    LET all   == Committing(s, ready)
        tried == {b \in all : \A a \in all : Len(a) < Len(b) => ~StoredSibling(s, a)}
        done  == [s EXCEPT !.best = commitBlock(s, tried),
                           !.cmd = @ \/ \E b \in tried : EndsEpoch(s, b)]
    IN  IF tried = {} THEN s ELSE PruneDraftsUpTo(done, Longest(tried))

\* Mutant of CommitReady: b' itself is committed, without a certified child.
CommitReadyOneChain(s, bPrime) ==
    {SubSeq(bPrime, 1, k) : k \in Len(s.lastCommitted) + 1 .. Len(bPrime)}

\* The ancestors of b' above lastCommitted.
CommitReady(s, bPrime) ==
    {SubSeq(bPrime, 1, k) : k \in Len(s.lastCommitted) + 1 .. Len(bPrime) - 1}

\* Walking up from b' meets a copy without a Parent above lastCommitted.
BrokenPath(s, bPrime) ==
    \E d \in s.drafts :
        /\ IsPrefix(d, bPrime)
        /\ \/ <<d, "cut">> \in s.flags /\ Len(d) - 1 > Len(s.lastCommitted)
           \/ <<d, "stored">> \in s.flags /\ Len(d) > Len(s.lastCommitted)

\* A b' read from the database is marked committed.  Moving lastCommitted to the
\* copy a cut draft points to mends its path.
Update(s, q) ==
    LET bPrime == GetDraftByEscortQC(s, q)
        s1     == UpdateQCHigh(s, q, bPrime)
        s2     == OnCommit(s1, CommitReady(s1, bPrime))
    IN  CASE bPrime = NoBlock \/ IsCommitted(s, q) -> s
          [] OTHER ->
             IF <<bPrime, "nilNode">> \in s.flags THEN Panic(s)
             ELSE IF s1.status = "panic" \/ <<bPrime, "loose">> \in s.flags THEN s1
             ELSE IF BrokenPath(s1, bPrime) THEN Panic(s1)
             ELSE [s2 EXCEPT !.lastCommitted = Parent(bPrime),
                             !.flags = @ \ {<<bPrime, "cut">>}]

enterRound(s, round) ==
    IF round > 0 /\ round < s.round THEN s
    ELSE [s EXCEPT !.round = round,
                   !.timer = [epoch |-> s.epoch, round |-> round]]

scheduleOnBeat(s, round) ==
    [s EXCEPT !.beat = [epoch |-> s.epoch, round |-> round]]

NoTick == [epoch |-> 0, round |-> -1]

\* lastCommitted is reached from the fresh draft of b in fewer than 10 hops.
ExtendedFromLastCommitted(s, b) ==
    /\ IsStrictPrefix(s.lastCommitted, b)
    /\ Len(b) - Len(s.lastCommitted) < 10
    /\ HasDraft(s, Parent(b))
    /\ \A d \in s.drafts :
          IsStrictPrefix(d, b) /\ Len(d) > Len(s.lastCommitted)
             => <<d, "cut">> \notin s.flags /\ <<d, "stored">> \notin s.flags

(***************************************************************************)
(* Vote managers: votes for a key count up to the quorum that seals it.    *)
(***************************************************************************)
Voters(votes, key) == {v \in Replicas : <<key, v>> \in votes}

\* Mutant of Sealed: a certificate forms one vote early.
SealedEarly(votes, key) ==
    MajorityTwoThird(Cardinality(Voters(votes, key)) + 1, N)

Sealed(votes, key) == MajorityTwoThird(Cardinality(Voters(votes, key)), N)
AddVote(votes, key, v) ==
    IF Sealed(votes, key) THEN votes ELSE votes \cup {<<key, v>>}
CertFormed(votes, key, v) ==
    ~Sealed(votes, key) /\ Sealed(AddVote(votes, key, v), key)

(***************************************************************************)
(* Epochs and Regulate                                                     *)
(***************************************************************************)
\* GetAncestor fails above the best block.
BestKBlock(s) ==
    IF IsKBlock(s.best) THEN s.best
    ELSE IF LastKBlockHeight(s.best) > Len(s.best) THEN NoBlock
    ELSE SubSeq(s.best, 1, LastKBlockHeight(s.best))

\* The condition of UpdateCurEpoch.  An epoch is named by its KBlock, whose
\* nonce sorts the committee.
EntersEpoch(s, bestK) ==
    bestK # NoBlock /\ EpochAfter(bestK) >= s.epoch /\ s.curK # bestK

\* As called by Regulate: processBlock calls it step by step.
UpdateCurEpoch(s) ==
    LET bestK == BestKBlock(s)
    IN  IF EntersEpoch(s, bestK)
        THEN [s EXCEPT !.epoch = EpochAfter(bestK), !.curK = bestK,
                       !.lastK = Len(bestK)]
        ELSE s

Regulate(s0) ==
    LET s     == UpdateCurEpoch(s0)
        first == IsKBlock(s.best) \/ s.best = Genesis
        round == IF first THEN 0 ELSE Round(s.best) + 1
        s1    == [s EXCEPT
                    !.qcVotes = {v \in @ : Len(v[1]) >= Len(s.best)},
                    !.tcVotes = {v \in @ : v[1].epoch >= s.epoch},
                    !.lastOnBeatRound = round - 1,
                    !.lastCommitted = s.best,
                    !.lastVotingHeight = 0,
                    !.lastVote = NoBlock,
                    !.qc = s.best,
                    !.qcNode = s.best,
                    !.qcCopy = FALSE,
                    !.drafts = @ \cup {s.best},
                    !.flags = IF HasDraft(s, s.best) THEN @
                              ELSE @ \cup ({s.best} \X {"committed", "stored"}),
                    !.round = 0,
                    !.cmd = FALSE,
                    !.run = @ + 1]
    IN  scheduleOnBeat(enterRound(s1, round), round)

(***************************************************************************)
(* Types                                                                   *)
(***************************************************************************)
Tick == [epoch : Nat, round : Nat] \cup {NoTick}

Header ==
    [epoch : Nat, com : Nat, round : Nat, kind : {"M", "K", "S"}, lastK : Nat,
     tc : Tick, run : Nat]

Block == Seq(Header)

Importer ==
    [at : {"idle", "added", "committee", "entered"}, blk : Block \cup {NoBlock},
     bestK : Block \cup {NoBlock}]

State ==
    [status : {"up", "down", "panic"}, best : Block, epoch : Nat,
     curK : Block, lastK : Nat, imp : Importer, round : Nat, lastVotingHeight : Nat,
     lastVote : Block \cup {NoBlock}, qc : Block, qcNode : Block \cup {NoBlock},
     qcCopy : BOOLEAN, lastCommitted : Block, lastOnBeatRound : Nat \cup {-1},
     tcHigh : Tick, beat : Tick, timer : Tick, fired : Tick,
     cmd : BOOLEAN, curProposal : Block \cup {NoBlock}, broadcast : BOOLEAN,
     drafts : SUBSET Block, flags : SUBSET (Block \X Flags),
     qcVotes : SUBSET (Block \X Replicas), tcVotes : SUBSET (Tick \X Replicas),
     seen : SUBSET Block, run : Nat]

Message ==
    [type : {"proposal"}, from : Replicas, to : Replicas, epoch : Nat, com : Nat,
     block : Block, asked : BOOLEAN]
    \cup
    [type : {"vote"}, from : Replicas, to : Replicas, epoch : Nat, com : Nat,
     block : Block]
    \cup
    [type : {"timeout"}, from : Replicas, to : Replicas, epoch : Nat, com : Nat,
     wish : Nat, qc : Block, lastVote : Block \cup {NoBlock}]
    \cup
    [type : {"query"}, from : Replicas, to : Replicas, epoch : Nat, com : Nat,
     committed : Block]

(***************************************************************************)
(* Steps.  A handler of mainLoop yields the next state s of replica r and  *)
(* the messages it sends; the head of the loop then compares best with     *)
(* QCHigh.  Messages to a stopped replica, of an epoch its receiver has    *)
(* left, or signed with an index of another committee than the receiver's  *)
(* (com), are lost.                                                        *)
(***************************************************************************)
LoopHead(s) == IF Len(s.best) > Len(s.qc) THEN scheduleRegulate(s) ELSE s

Deliverable(m, r, s) ==
    LET to == IF m.to = r THEN s ELSE pm[m.to]
    IN  /\ to.status = "up" /\ m.epoch >= to.epoch
        /\ m.epoch = to.epoch => m.com = Committee(to) \/ to.imp.at = "committee"
        /\ m.type = "proposal" => m.block \notin to.seen

Become(r, s, gone, sent) ==
    /\ pm' = [pm EXCEPT ![r] = s]
    /\ net' = {m \in (net \ gone) \cup sent : Deliverable(m, r, s)}

Handled(r, s, gone, sent) ==
    \E t \in {s} :
        \/ t.status = "up" /\ Become(r, LoopHead(t), gone, sent)
        \/ t.status # "up" /\ Become(r, t, gone, {})

Up(r) == pm[r].status = "up"

Proposal(r, to, b) ==
    [type |-> "proposal", from |-> r, to |-> to, epoch |-> Last(b).epoch,
     com |-> Last(b).com, block |-> b, asked |-> FALSE]
Vote(s, r, b) ==
    [type |-> "vote", from |-> r, epoch |-> s.epoch, com |-> Committee(s),
     block |-> b, to |-> getRoundProposer(s, Round(b) + 1)]

\* Mutant of Timeout: the wished round is the one before.
TimeoutPrevious(s, r, ti) ==
    [type |-> "timeout", from |-> r, epoch |-> ti.epoch, wish |-> ti.round - 1,
     com |-> Committee(s), qc |-> s.qc, lastVote |-> s.lastVote,
     to |-> getRoundProposer(s, ti.round - 1)]

Timeout(s, r, ti) ==
    [type |-> "timeout", from |-> r, epoch |-> ti.epoch, wish |-> ti.round,
     com |-> Committee(s), qc |-> s.qc, lastVote |-> s.lastVote,
     to |-> getRoundProposer(s, ti.round)]

Query(s, r, to) ==
    [type |-> "query", from |-> r, to |-> to, epoch |-> s.epoch,
     com |-> Committee(s), committed |-> s.lastCommitted]

\* A proposal is sent through the relay tree, its sender included; the
\* receiver's queue remembers the proposals it has taken in.
Broadcast(r, b) ==
    {Proposal(r, to, b) : to \in {x \in Replicas : b \notin pm[x].seen}}

\* The message goes back to the incoming queue (DelayedAdd, AfterFunc).
Delayed(s, m) ==
    \/ m.epoch > s.epoch
    \/ /\ m.type = "proposal"
       /\ GetDraft(s, Parent(m.block)) = NoBlock
       /\ Len(m.block) > Len(s.qc)
    \/ /\ m.type = "vote"
       /\ GetDraft(s, m.block) = NoBlock
       /\ ~(Round(m.block) = s.round /\ s.round = 0)
             => s.round > 0 /\ Round(m.block) >= s.round - 1

\* The QC of q is a QC of p by committee com.  At heights 0 and 1 any QC of
\* that height will do.
VerifyQC(p, q, com) ==
    IF Len(p) <= 1 THEN Len(q) = Len(p) ELSE p = q /\ Last(p).com = com

\* The QC of q is verified with the last committee or the current one.
ValidateQC(s, p, q) ==
    \/ VerifyQC(p, q, Committee(s))
    \/ IsKBlock(p) /\ Len(p) <= Len(s.best) /\ VerifyQC(p, q, Committee(s) - 1)

\* ValidateQC may have validated this QC before, whatever the block: validQCs
\* keeps the last 256 it has.
QCValidatedBefore(s, q) == InDB(s, q) \/ \E a \in s.seen : QCOf(a) = q

\* The round checks with verifyTC.
RoundOK(s, b) ==
    LET p == Parent(b)
        jump == Round(b) > 0 /\ DraftRound(s, p) + 1 # Round(b)
    IN  /\ Round(b) = 0 => p = Genesis \/ IsKBlock(p)
        /\ jump => /\ Last(b).tc = [epoch |-> s.epoch, round |-> Round(b)]
                   /\ IsKBlock(p) \/ DraftRound(s, p) < Round(b)

\* The transactions of a KBlock have to be those the replica builds itself,
\* which are none before its own powpool has decided.
ValidateProposal(s, b, powDecision) ==
    /\ IsSBlock(b) => IsKBlock(Parent(b)) \/ IsSBlock(Parent(b))
    /\ InDB(s, b) \/ (Last(b).lastK = s.lastK /\ (IsKBlock(b) => powDecision))

OnReceiveProposal(r, m) ==
  /\ m.type = "proposal"
  /\ \E cached \in {FALSE, QCValidatedBefore(pm[r], QCOf(m.block))},
        powDecision \in {FALSE, PowReady} :
    LET s  == [pm[r] EXCEPT !.seen = @ \cup {m.block}]
        b  == m.block
        ok == /\ Len(b) >= Len(s.lastCommitted)
              /\ GetDraft(s, Parent(b)) # NoBlock
              /\ cached \/ ValidateQC(s, Parent(b), QCOf(b))
              /\ RoundOK(s, b)
              /\ ValidateProposal(s, b, powDecision)
        flags == {f \in {"known", "cut"} :
                     /\ f = "known" => InDB(s, b)
                     /\ f = "cut" => ~HasDraft(s, Parent(b))}
        s1 == IF HasDraft(s, b) THEN s ELSE AddDraft(s, b, flags)
        voting == Len(b) >= s1.lastVotingHeight /\ ExtendedFromLastCommitted(s1, b)
        vote(s2) == [s2 EXCEPT !.lastVote = b, !.lastVotingHeight = Len(b)]
    IN  \/ ~ok /\ Handled(r, s, {m}, {}) /\ UNCHANGED cast
        \/ ok /\ ~voting /\ Handled(r, s1, {m}, {}) /\ UNCHANGED cast
        \/ /\ ok /\ voting
           /\ \E s2 \in {Update(s1, QCOf(b))} :
                 \/ /\ s2.status = "panic"
                    /\ Handled(r, s2, {m}, {}) /\ UNCHANGED cast
                 \/ /\ s2.status = "up"
                    /\ Handled(r, enterRound(vote(s2), Round(b) + 1), {m},
                               {Vote(s2, r, b)})
                    /\ cast' = cast \cup {<<r, b>>}

\* A proposal whose parent is unknown makes the replica query its peers, again
\* and again until the parent arrives.  (The signer's address is kept as raw
\* bytes, so the query meant for the signer is not sent to it.)
QueryProposals(r) ==
    \E m \in net :
        /\ Up(r) /\ m.to = r /\ m.type = "proposal"
        /\ m.epoch = pm[r].epoch /\ Delayed(pm[r], m)
        /\ LET peers == {m.from, getRoundProposer(pm[r], Round(m.block) + 1)}
           IN  Handled(r, pm[r], {m}, {[m EXCEPT !.asked = TRUE]} \cup
                                      {Query(pm[r], r, q) : q \in peers \ {r}})
        /\ UNCHANGED <<cast, strays, used>>

OnReceiveQuery(r, m) ==
    LET drafts == GetDraftsUpTo(pm[r], m.committed, pm[r].qc)
    IN  /\ m.type = "query"
        /\ Handled(r, pm[r], {m}, UNION {Broadcast(r, b) : b \in drafts})
        /\ UNCHANGED cast

OnReceiveVote(r, m) ==
    LET s  == pm[r]
        b  == m.block
        rd == Round(b)
        outdated == /\ ~(rd = s.round /\ rd = 0)
                    /\ s.round = 0 \/ rd < s.round - 1
        counted == /\ ~outdated
                   /\ r = getRoundProposer(s, rd + 1)
                   /\ DraftRound(s, b) = rd
        s1 == [s EXCEPT !.qcVotes = AddVote(@, b, m.from)]
    IN  /\ m.type = "vote"
        /\ UNCHANGED cast
        /\ \/ ~counted /\ Handled(r, s, {m}, {})
           \/ /\ counted /\ ~CertFormed(s.qcVotes, b, m.from)
              /\ Handled(r, s1, {m}, {})
           \/ /\ counted /\ CertFormed(s.qcVotes, b, m.from)
              /\ \E s2 \in {UpdateQCHigh(s1, b, b)} :
                    IF s2.qc = s.qc \/ s2.status = "panic"
                    THEN Handled(r, s2, {m}, {})
                    ELSE Handled(r, enterRound(scheduleOnBeat(Update(s2, b), rd + 1),
                                               rd + 1), {m}, {})

\* The QC that the last vote of a timeout message completes, then its QCHigh.
TimeoutQCs(s, m) ==
    LET lv == m.lastVote
        s1 == IF lv = NoBlock THEN s
              ELSE [s EXCEPT !.qcVotes = AddVote(@, lv, m.from)]
        formed == lv # NoBlock /\ CertFormed(s.qcVotes, lv, m.from)
        s2 == IF formed THEN UpdateQCHigh(s1, lv, GetDraftByEscortQC(s1, lv)) ELSE s1
        s3 == IF formed /\ s2.status = "up" THEN Update(s2, lv) ELSE s2
    IN  IF s3.status = "up"
        THEN UpdateQCHigh(s3, m.qc, GetDraftByEscortQC(s3, m.qc)) ELSE s3

OnReceiveTimeout(r, m) ==
    LET key == [epoch |-> m.epoch, round |-> m.wish]
        mine == r = getRoundProposer(pm[r], m.wish)
    IN  /\ m.type = "timeout"
        /\ UNCHANGED cast
        /\ \/ ~mine /\ Handled(r, pm[r], {m}, {})
           \/ /\ mine
              /\ \E s \in {TimeoutQCs(pm[r], m)} :
                    LET s1 == [s EXCEPT !.tcVotes = AddVote(@, key, m.from)]
                        s2 == scheduleOnBeat([s1 EXCEPT !.tcHigh = key], m.wish)
                    IN  IF CertFormed(s.tcVotes, key, m.from)
                        THEN Handled(r, s2, {m}, {}) ELSE Handled(r, s1, {m}, {})

Receive(r, m) ==
    /\ Up(r) /\ m.to = r /\ ~Delayed(pm[r], m)
    /\ \/ OnReceiveProposal(r, m)
       \/ OnReceiveVote(r, m)
       \/ OnReceiveTimeout(r, m)
       \/ OnReceiveQuery(r, m)
    /\ UNCHANGED <<strays, used>>

(***************************************************************************)
(* Proposing.  A header records the proposer's epoch, the committee its    *)
(* proposal message is signed in, the round, the block type,               *)
(* LastKBlockHeight, the epoch and round of the TimeoutCert the message    *)
(* carries and which run of the pacemaker built it.                        *)
(***************************************************************************)
Extend(s, parent, round, kind) ==
    Append(parent, [epoch |-> s.epoch, com |-> Committee(s), round |-> round,
                    kind |-> kind, lastK |-> s.lastK, tc |-> s.tcHigh,
                    run |-> s.run])

\* Mutant of Stopped: SBlocks are proposed until the epoch changes.
StoppedNever(s, parent) == FALSE

\* The KBlock is three blocks below the SBlock to propose.
Stopped(s, parent) ==
    LET grandFather == GetDraftByEscortQC(s, QCOf(parent))
        grandGrandFather == GetDraftByEscortQC(s, QCOf(grandFather))
    IN  /\ grandFather # NoBlock
        /\ grandGrandFather # NoBlock
        /\ IsKBlock(grandGrandFather)

CreateLeaf(s, parent, round, powDecision) ==
    LET stop == /\ IsKBlock(parent) \/ IsSBlock(parent)
                /\ Last(parent).epoch = s.epoch
        kblock == /\ ~IsKBlock(parent)
                  /\ Len(parent) + 1 - LastKBlockHeight(parent) >= MinMBlocks
                  /\ s.tcHigh = NoTick
                  /\ powDecision
        badRound == /\ ~IsKBlock(parent) /\ s.epoch # 0 /\ round # 0
                    /\ round <= Round(s.qc)
    IN  CASE stop /\ Stopped(s, parent) -> NoBlock
          [] stop /\ ~Stopped(s, parent) -> Extend(s, parent, round, "S")
          [] ~stop /\ kblock -> Extend(s, parent, round, "K")
          [] ~stop /\ ~kblock /\ badRound -> NoBlock
          [] ~stop /\ ~kblock /\ ~badRound -> Extend(s, parent, round, "M")

\* Mutant of SkipBeat: a proposer answers every beat of its round.
SkipBeatNotLast(r, s, beat) ==
    \/ beat.epoch < s.epoch
    \/ getRoundProposer(s, beat.round) # r

\* An outdated or duplicate beat, or one for another proposer's round.
SkipBeat(r, s, beat) ==
    \/ beat.epoch < s.epoch
    \/ beat.epoch = s.epoch /\ beat.round <= s.lastOnBeatRound
    \/ getRoundProposer(s, beat.round) # r

\* The new block is built on parent with the QC of QCHigh, whatever the parent.
OnBeat(r) ==
    LET s    == [pm[r] EXCEPT !.beat = NoTick]
        beat == pm[r].beat
        skip == SkipBeat(r, s, beat)
        s1   == [s EXCEPT !.lastOnBeatRound = beat.round]
        parent == GetDraftByEscortQC(s, s.qc)
        drafted == HasDraft(s, s.qc)
        flags == {f \in {"cut", "loose", "nilNode"} :
                     /\ f = "cut" => ~drafted
                     /\ f = "loose" => ~drafted \/ s.qcCopy
                     /\ f = "nilNode" => s.qcNode = NoBlock}
    IN  /\ Up(r) /\ beat # NoTick
        /\ UNCHANGED <<cast, used>>
        /\ \/ skip /\ Handled(r, s, {}, {}) /\ UNCHANGED strays
           \/ ~skip /\ parent = NoBlock /\ Handled(r, s1, {}, {}) /\ UNCHANGED strays
           \/ /\ ~skip /\ parent # NoBlock
              /\ Len(parent) < MaxHeight
              /\ \E powDecision \in {FALSE, PowReady} :
                    LET bnew == CreateLeaf(s1, parent, beat.round, powDecision)
                        s2 == [AddDraft(s1, bnew, flags) EXCEPT
                                 !.tcHigh = NoTick, !.curProposal = bnew,
                                 !.broadcast = TRUE]
                    IN  \/ /\ bnew = NoBlock
                           /\ Handled(r, s1, {}, {}) /\ UNCHANGED strays
                        \/ /\ bnew # NoBlock
                           /\ Handled(r, s2, {}, {})
                           /\ strays' = strays \cup ({<<bnew, s.qc>>} \ {<<bnew, parent>>})

OnBroadcastProposal(r) ==
    LET s == [pm[r] EXCEPT !.broadcast = FALSE]
        b == s.curProposal
    IN  /\ Up(r) /\ pm[r].broadcast
        /\ Handled(r, s, {}, IF Last(b).epoch < s.epoch THEN {} ELSE Broadcast(r, b))
        /\ UNCHANGED <<cast, strays, used>>

(***************************************************************************)
(* Round timers.  A fired timer waits in roundTimeoutCh, where entering a  *)
(* later round does not take it back.  A timer fires when there is nothing *)
(* else to do, as the 16 seconds of RoundTimeoutInterval outlast all       *)
(* traffic; at most MaxEarly times it fires before that.                   *)
(***************************************************************************)
Quiescent ==
    /\ \A m \in net : /\ Delayed(pm[m.to], m)
                      /\ m.type = "proposal" /\ m.epoch = pm[m.to].epoch => m.asked
    /\ \A r \in Replicas : Up(r) => /\ pm[r].beat = NoTick
                                    /\ ~pm[r].broadcast /\ ~pm[r].cmd
                                    /\ pm[r].fired = NoTick
                                    /\ pm[r].imp.at = "idle"

TimerFires(r) ==
    /\ Up(r) /\ pm[r].timer # NoTick /\ pm[r].fired = NoTick
    /\ pm[r].timer.round < MaxRound
    /\ IF Quiescent THEN UNCHANGED used
       ELSE used.early < MaxEarly /\ used' = [used EXCEPT !.early = @ + 1]
    /\ Become(r, [pm[r] EXCEPT !.fired = pm[r].timer, !.timer = NoTick], {}, {})
    /\ UNCHANGED <<cast, strays>>

\* Mutant of OnRoundTimeout: the timeout is sent, the next round not entered.
OnRoundTimeoutStays(r) ==
    LET ti == pm[r].fired
        s  == [pm[r] EXCEPT !.fired = NoTick]
    IN  /\ Up(r) /\ ti # NoTick
        /\ IF ti.epoch < s.epoch THEN Handled(r, s, {}, {})
           ELSE Handled(r, s, {}, {Timeout(s, r, ti)})
        /\ UNCHANGED <<cast, strays, used>>

OnRoundTimeout(r) ==
    LET ti == pm[r].fired
        s  == [pm[r] EXCEPT !.fired = NoTick]
        s1 == enterRound(s, ti.round + 1)
    IN  /\ Up(r) /\ ti # NoTick
        /\ IF ti.epoch < s.epoch THEN Handled(r, s, {}, {})
           ELSE Handled(r, s1, {}, {Timeout(s1, r, ti)})
        /\ UNCHANGED <<cast, strays, used>>

(***************************************************************************)
(* Regulate, import of a block committed elsewhere, stops and restarts     *)
(***************************************************************************)
RegulateCmd(r) ==
    /\ Up(r) /\ pm[r].cmd
    /\ Handled(r, Regulate(pm[r]), {}, {})
    /\ UNCHANGED <<cast, strays, used>>

\* A new transaction: its loop iteration looks at best and QCHigh as well.
OnNewTx(r) ==
    /\ Up(r) /\ LoopHead(pm[r]) # pm[r]
    /\ Handled(r, pm[r], {}, {})
    /\ UNCHANGED <<cast, strays, used>>

(***************************************************************************)
(* node.processBlock runs in a goroutine of its own and shares the fields  *)
(* of the Reactor with mainLoop without a lock.  Each of its writes that   *)
(* mainLoop can see is a step: AddBlock moves the best block, then         *)
(* UpdateCurEpoch replaces the committee and its nonce, then               *)
(* lastKBlockHeight and curEpoch, and at last Regulate is requested.       *)
(***************************************************************************)
Importing(at, blk, bestK) == [at |-> at, blk |-> blk, bestK |-> bestK]
Idle == Importing("idle", NoBlock, NoBlock)

\* Mutant of ImportBlock: a block is imported without a QC, once a peer drafts it.
ImportBlockUncertified(r) ==
    \E q \in Replicas : \E b \in pm[q].drafts :
        LET s == pm[r]
        IN  /\ r \in Importers /\ Up(r) /\ s.imp.at = "idle" /\ Up(q)
            /\ b # Genesis /\ Parent(b) = s.best
            /\ Become(r, [s EXCEPT !.best = b,
                                   !.imp = Importing("added", b, NoBlock)], {}, {})
            /\ UNCHANGED <<cast, strays, used>>

ImportBlock(r) ==
    \E q \in Replicas :
        LET s == pm[r]
            b == SubSeq(pm[q].best, 1, Len(s.best) + 1)
        IN  /\ r \in Importers /\ Up(r) /\ s.imp.at = "idle" /\ Up(q)
            /\ IsStrictPrefix(s.best, pm[q].best)
            /\ Become(r, [s EXCEPT !.best = b,
                                   !.imp = Importing("added", b, NoBlock)], {}, {})
            /\ UNCHANGED <<cast, strays, used>>

ReplaceCommittee(r) ==
    LET s == pm[r]
        bestK == BestKBlock(s)
    IN  /\ Up(r) /\ s.imp.at = "added"
        /\ Become(r, IF EntersEpoch(s, bestK)
                     THEN [s EXCEPT !.curK = bestK,
                                    !.imp = Importing("committee", s.imp.blk, bestK)]
                     ELSE [s EXCEPT !.imp = Idle], {}, {})
        /\ UNCHANGED <<cast, strays, used>>

\* Mutant of EnterEpoch: UpdateCurEpoch returns before it writes the epoch.
EnterEpochNever(r) ==
    /\ Up(r) /\ pm[r].imp.at = "committee"
    /\ Become(r, [pm[r] EXCEPT !.imp = Idle], {}, {})
    /\ UNCHANGED <<cast, strays, used>>

EnterEpoch(r) ==
    LET s == pm[r]
    IN  /\ Up(r) /\ s.imp.at = "committee"
        /\ Become(r, [s EXCEPT !.lastK = Len(s.imp.bestK),
                               !.epoch = EpochAfter(s.imp.bestK),
                               !.imp = Importing("entered", s.imp.blk, NoBlock)], {}, {})
        /\ UNCHANGED <<cast, strays, used>>

RequestRegulate(r) ==
    LET s == [pm[r] EXCEPT !.imp = Idle]
    IN  /\ Up(r) /\ pm[r].imp.at = "entered"
        /\ Become(r, IF IsKBlock(pm[r].imp.blk) THEN scheduleRegulate(s) ELSE s, {}, {})
        /\ UNCHANGED <<cast, strays, used>>

processBlock(r) ==
    \/ ImportBlock(r)
    \/ ReplaceCommittee(r)
    \/ EnterEpoch(r)
    \/ RequestRegulate(r)

\* A fresh process: NewPacemaker with the stored best block.
Fresh(best) ==
    [status |-> "up", best |-> best, epoch |-> 0, curK |-> Genesis, lastK |-> 0,
     imp |-> Idle, round |-> 0, lastVotingHeight |-> 0, lastVote |-> NoBlock,
     qc |-> best, qcNode |-> best, qcCopy |-> FALSE, lastCommitted |-> best,
     lastOnBeatRound |-> -1, tcHigh |-> NoTick, beat |-> NoTick,
     timer |-> NoTick, fired |-> NoTick, cmd |-> FALSE,
     curProposal |-> NoBlock, broadcast |-> FALSE, drafts |-> {}, flags |-> {},
     qcVotes |-> {}, tcVotes |-> {}, seen |-> {}, run |-> 0]

Crash(r) ==
    /\ Up(r) /\ used.crashes < MaxCrash
    /\ used' = [used EXCEPT !.crashes = @ + 1]
    /\ pm' = [pm EXCEPT ![r].status = "down"]
    /\ \E lost \in SUBSET {m \in net : m.from = r} :
          net' = {m \in net \ lost : m.to # r}
    /\ UNCHANGED <<cast, strays>>

Restart(r) ==
    /\ ~Up(r) /\ used.restarts < MaxRestart
    /\ used' = [used EXCEPT !.restarts = @ + 1]
    /\ Become(r, LoopHead(Regulate([Fresh(pm[r].best) EXCEPT !.run = pm[r].run])),
              {}, {})
    /\ UNCHANGED <<cast, strays>>

\* The outgoing queue drops a message that has expired or could not be posted.
Lose(r) ==
    /\ used.losses < MaxLoss
    /\ used' = [used EXCEPT !.losses = @ + 1]
    /\ \E m \in net : m.from = r /\ m.to # r /\ net' = net \ {m}
    /\ UNCHANGED <<pm, cast, strays>>

Init ==
    /\ pm = [r \in Replicas |-> Regulate(Fresh(Genesis))]
    /\ net = {} /\ cast = {} /\ strays = {}
    /\ used = [early |-> 0, crashes |-> 0, restarts |-> 0, losses |-> 0]

MainLoop(r) ==
    \/ \E m \in net : Receive(r, m)
    \/ QueryProposals(r)
    \/ OnBeat(r)
    \/ OnBroadcastProposal(r)
    \/ TimerFires(r)
    \/ OnRoundTimeout(r)
    \/ RegulateCmd(r)
    \/ OnNewTx(r)

Next ==
    \E r \in Replicas :
        \/ MainLoop(r)
        \/ processBlock(r)
        \/ Crash(r)
        \/ Restart(r)
        \/ Lose(r)

Spec == Init /\ [][Next]_vars

\* The handlers return, the select of mainLoop picks a waiting command some day,
\* and the importing goroutine runs on.
FairSpec ==
    /\ Spec
    /\ \A r \in Replicas : WF_vars(RegulateCmd(r)) /\ WF_vars(processBlock(r))

(***************************************************************************)
(* Properties                                                              *)
(***************************************************************************)

\* Every field of every Pacemaker, and every message, keeps its type: rounds
\* and heights never go below zero, a QCHigh always names a block.
TypeOK ==
    /\ pm \in [Replicas -> State]
    /\ net \in SUBSET Message
    /\ cast \in SUBSET (Replicas \X Block)
    /\ strays \in SUBSET (Block \X Block)
    /\ used \in [early : Nat, crashes : Nat, restarts : Nat, losses : Nat]

\* Two thirds of the committee have signed b.
CertifiedBy(votes, b) ==
    \/ b = Genesis
    \/ MajorityTwoThird(Cardinality({r \in Replicas : <<r, b>> \in votes}), N)

Certified(b) == CertifiedBy(cast, b)

\* QCHigh (UpdateQCHigh) is always a certificate that two thirds of the
\* committee have really voted for, and a replica only votes for a block
\* (OnReceiveProposal) whose QC is such a certificate and all of whose ancestors
\* are certified, although OnBeat may build a block on another parent than the
\* one its QC certifies.
CertifiedAncestry ==
    /\ \A r \in Replicas : Certified(pm[r].qc)
    /\ \A v \in cast :
          /\ Certified(QCOf(v[2]))
          /\ \A k \in 1 .. Len(v[2]) - 1 : Certified(SubSeq(v[2], 1, k))

\* A replica votes only for a block whose QC is the one of its parent: with any
\* other QC the proposal is invalid (OnReceiveProposal, ValidateQC).
VotesFollowQC == \A v \in cast : QCOf(v[2]) = Parent(v[2])

\* The two-chain rule of Update: the best block of every replica, however it
\* got there (OnCommit, processBlock, Restart), has a certified child.
TwoChainCommit ==
    \A r \in Replicas : pm[r].best # Genesis =>
        \E v \in cast : v[2] # Genesis /\ Parent(v[2]) = pm[r].best /\ Certified(v[2])

\* The blocks committed by any two replicas lie on one chain: commitBlock does
\* not handle forks.
Agreement ==
    \A r, q \in Replicas :
        IsPrefix(pm[r].best, pm[q].best) \/ IsPrefix(pm[q].best, pm[r].best)

\* No replica signs two blocks of one height.
OneVotePerHeight ==
    \A v, w \in cast : v[1] = w[1] /\ Len(v[2]) = Len(w[2]) => v = w

\* Replicas that commit conflicting blocks (Update, OnCommit, processBlock) do so
\* because somebody signed two blocks of one height, which OnReceiveProposal
\* allows in a later round; nothing else forks the chain.
ForkNeedsDoubleVote == OneVotePerHeight => Agreement

\* No handler dereferences a nil DraftBlock (QCHigh.QCNode, Justify.QCNode, or
\* a Parent on the way down to lastCommitted).
NoPanic == \A r \in Replicas : pm[r].status # "panic"

\* A replica signs at most one block per round of an epoch, although
\* OnReceiveProposal compares heights only: the proposer's lastOnBeatRound is
\* what keeps a round from having two blocks.
OneVotePerRound ==
    \A v, w \in cast :
        /\ v[1] = w[1] /\ Round(v[2]) = Round(w[2])
        /\ Last(v[2]).epoch = Last(w[2]).epoch
        => v = w


\* The replica is still in an epoch that its best chain has ended.
Behind(r) ==
    /\ Up(r) /\ BestKBlock(pm[r]) # NoBlock
    /\ pm[r].epoch < EpochAfter(BestKBlock(pm[r]))

\* A replica whose best chain ends the epoch enters the next one, although
\* mainLoop's Regulate and the importing goroutine (UpdateCurEpoch) both skip
\* the update when they find the other's nonce.
EpochCatchesUp == \A r \in Replicas : Behind(r) ~> ~Behind(r)

\* A replica that does nothing else has a round timer of its epoch running, or
\* fired and not yet handled (enterRound, OnRoundTimeout): a timer that fires
\* late, for a round already left, does not cost it its clock.
RoundTimerRuns ==
    \A r \in Replicas : Up(r) /\ ~pm[r].cmd /\ pm[r].imp.at = "idle" =>
        \E ti \in {pm[r].timer, pm[r].fired} :
            ti # NoTick /\ ti.epoch = pm[r].epoch

\* A committee that is stopping proposes at most two SBlocks in a row
\* ("possible 2 rounds of stop" messages, CreateLeaf and ValidateProposal).
AtMostTwoSBlocks ==
    \A v \in cast :
        ~(IsSBlock(v[2]) /\ IsSBlock(Parent(v[2])) /\ IsSBlock(Parent(Parent(v[2]))))

\* OnReceiveVote drops a vote as outdated only when its round is below the
\* round before currentRound.
OnlyOutdatedVotesDropped ==
    [][\A m \in net \ net' :
          LET s == pm[m.to]
          IN  /\ m.type = "vote" /\ Up(m.to)
              /\ s.epoch = m.epoch /\ pm'[m.to].epoch = m.epoch
              /\ HasDraft(s, m.block) \/ ~InDB(s, m.block)
              /\ ~Sealed(s.qcVotes, m.block) /\ <<m.block, m.from>> \notin s.qcVotes
              /\ pm'[m.to].qcVotes = s.qcVotes /\ pm'[m.to].status = "up"
              => Round(m.block) < s.round - 1]_vars
=============================================================================
