--------------------------- MODULE PacemakerProofs ---------------------------
(***************************************************************************)
(* Proofs about the pacemaker, for every committee size and every value of *)
(* the bounds: it keeps its types, its certificates are backed by votes    *)
(* that were really cast, what it commits has a certified child, and only  *)
(* double votes can fork it.                                               *)
(*                                                                         *)
(* The last three are not inductive.  The inductive invariant IInv adds    *)
(* what every place a block can come from owes to the votes: the draft     *)
(* space, the vote managers, the proposal waiting to be broadcast, the     *)
(* last vote, the messages in flight and the QCs of blocks built on other  *)
(* parents.  One lemma per action shows that it is kept; each of them      *)
(* follows from HandledStep or BecomeStep.                                 *)
(***************************************************************************)
EXTENDS PacemakerLemmas

\* The inductive invariant.
IInv ==
    /\ TypeOK
    /\ AncestorsCertified(cast)
    /\ \A r \in Replicas : SafeReplica(cast, r, pm[r])
    /\ \A m \in net : SafeMessage(cast, m)
    /\ \A x \in strays : CertifiedBy(cast, x[2])

\* The part of it about the QCs of blocks built on other parents.
SafeStrays(votes, st) ==
    st \in SUBSET (Block \X Block) /\ \A x \in st : CertifiedBy(votes, x[2])

\* The type of used.
Counters == [early : Nat, crashes : Nat, restarts : Nat, losses : Nat]

-----------------------------------------------------------------------------
(* Steps *)

\* The invariant, in the form the steps use.
LEMMA IInvFacts ==
    ASSUME IInv
    PROVE  /\ cast \in Votes
           /\ \A r \in Replicas : Good(cast, r, pm[r])
           /\ \A m \in net : m \in Message /\ SafeMessage(cast, m)
           /\ SafeStrays(cast, strays) /\ used \in Counters
  BY DEF IInv, TypeOK, Votes, Good, SafeStrays, Counters

\* A step of one replica keeps the invariant when its new state is good for
\* the votes cast by then, and what it sends is safe.
LEMMA BecomeStep ==
    ASSUME IInv, NEW r \in Replicas, NEW s, NEW gone, NEW sent,
           Become(r, s, gone, sent),
           cast \subseteq cast', cast' \in Votes, Good(cast', r, s),
           \A m \in sent : m \in Message /\ SafeMessage(cast', m),
           SafeStrays(cast, strays'), used' \in Counters
    PROVE  IInv'
  <1>1. pm' = [pm EXCEPT ![r] = s] /\ pm \in [Replicas -> State]
        BY DEF Become, IInv, TypeOK
  <1>2. pm' \in [Replicas -> State] BY <1>1 DEF Good
  <1>3. \A m \in net' : m \in net \/ m \in sent BY DEF Become
  <1>4. \A q \in Replicas : SafeReplica(cast', q, pm'[q])
    <2> SUFFICES ASSUME NEW q \in Replicas PROVE SafeReplica(cast', q, pm'[q])
        OBVIOUS
    <2>1. CASE q = r BY <1>1, <2>1 DEF Good
    <2>2. CASE q # r
      <3>1. pm'[q] = pm[q] BY <1>1, <2>2
      <3>2. SafeReplica(cast, q, pm[q]) BY DEF IInv
      <3> QED BY <3>1, <3>2, SafeMonotone
    <2> QED BY <2>1, <2>2
  <1>5. \A m \in net' : m \in Message /\ SafeMessage(cast', m)
    <2> SUFFICES ASSUME NEW m \in net'
                 PROVE  m \in Message /\ SafeMessage(cast', m)
        OBVIOUS
    <2>1. CASE m \in sent BY <2>1
    <2>2. CASE m \in net
      <3>1. m \in Message /\ SafeMessage(cast, m) BY <2>2, IInvFacts
      <3> QED BY <3>1, SafeMonotone
    <2> QED BY <1>3, <2>1, <2>2
  <1>6. TypeOK' BY <1>2, <1>5 DEF TypeOK, Votes, SafeStrays, Counters
  <1>7. AncestorsCertified(cast') BY DEF Votes
  <1>8. \A x \in strays' : CertifiedBy(cast', x[2])
        BY CertifiedMonotone DEF SafeStrays
  <1> QED BY <1>4, <1>5, <1>6, <1>7, <1>8 DEF IInv

\* The same for a handler followed by the head of mainLoop.
LEMMA HandledStep ==
    ASSUME IInv, NEW r \in Replicas, NEW s, NEW gone, NEW sent,
           Handled(r, s, gone, sent),
           cast \subseteq cast', cast' \in Votes, Good(cast', r, s),
           \A m \in sent : m \in Message /\ SafeMessage(cast', m),
           SafeStrays(cast, strays'), used' \in Counters
    PROVE  IInv'
  <1>1. \/ Become(r, LoopHead(s), gone, sent)
        \/ Become(r, s, gone, {})
        BY DEF Handled
  <1>2. Good(cast', r, LoopHead(s)) BY LoopHeadGood
  <1>3. CASE Become(r, LoopHead(s), gone, sent) BY <1>2, <1>3, BecomeStep
  <1>4. CASE Become(r, s, gone, {}) BY <1>4, BecomeStep
  <1> QED BY <1>1, <1>3, <1>4

\* The same for a step that signs nothing.
LEMMA QuietStep ==
    ASSUME IInv, NEW r \in Replicas, NEW s, NEW gone, NEW sent,
           Handled(r, s, gone, sent), Good(cast, r, s),
           \A m \in sent : m \in Message /\ SafeMessage(cast, m),
           UNCHANGED <<cast, strays, used>>
    PROVE  IInv'
  <1>1. cast' = cast /\ strays' = strays /\ used' = used OBVIOUS
  <1> QED BY <1>1, IInvFacts, HandledStep

\* The same for a step of the importing goroutine.
LEMMA ImporterStep ==
    ASSUME IInv, NEW r \in Replicas, NEW s, Become(r, s, {}, {}), Good(cast, r, s),
           UNCHANGED <<cast, strays, used>>
    PROVE  IInv'
  <1>1. cast' = cast /\ strays' = strays /\ used' = used OBVIOUS
  <1> QED BY <1>1, IInvFacts, BecomeStep

\* The QC inside a block on a certified parent is certified.
LEMMA QCOfCertified ==
    ASSUME IInv, NEW b \in Block, CertifiedBy(cast, Parent(b))
    PROVE  QCOf(b) \in Block /\ CertifiedBy(cast, QCOf(b))
  <1>1. CASE \E x \in strays : x[1] = b
    <2> DEFINE y == CHOOSE x \in strays : x[1] = b
    <2>1. y \in strays BY <1>1
    <2> HIDE DEF y
    <2>2. y[2] \in Block /\ CertifiedBy(cast, y[2])
          BY <2>1, IInvFacts DEF SafeStrays
    <2> QED BY <1>1, <2>2 DEF QCOf, y
  <1>2. CASE ~\E x \in strays : x[1] = b BY <1>2, ParentType DEF QCOf
  <1> QED BY <1>1, <1>2

\* Remembering a proposal in the incoming queue keeps a replica good.
LEMMA SeenGood ==
    ASSUME NEW C, NEW r, NEW s, Good(C, r, s), NEW b \in Block
    PROVE  Good(C, r, [s EXCEPT !.seen = @ \cup {b}])
  <1> DEFINE seen == s.seen \cup {b}
             t == [s EXCEPT !.seen = seen]
  <1>1. seen \in SUBSET Block BY DEF Good, State
  <1> HIDE DEF seen
  <1>2. t \in State BY <1>1 DEF Good, State
  <1>3. SafeReplica(C, r, t) BY DEF Good, State, SafeReplica
  <1> QED BY <1>2, <1>3 DEF Good, seen

\* Recording the vote just cast keeps a replica good.
LEMMA VotedGood ==
    ASSUME NEW C, NEW r, NEW s, Good(C, r, s), NEW b \in Block, <<r, b>> \in C
    PROVE  Good(C, r, [s EXCEPT !.lastVote = b, !.lastVotingHeight = Len(b)])
  <1> DEFINE h == Len(b)
             t == [s EXCEPT !.lastVote = b, !.lastVotingHeight = h]
  <1>1. h \in Nat BY BlockLen
  <1> HIDE DEF h
  <1>2. t \in State BY ZenonT(40), <1>1 DEF Good, State
  <1>3. SafeReplica(C, r, t) BY DEF Good, State, SafeReplica
  <1> QED BY <1>2, <1>3 DEF Good, h

\* The vote message for a vote that was cast is safe.
LEMMA VoteSafe ==
    ASSUME NEW C, NEW r \in Replicas, NEW s \in State, NEW b \in Block,
           <<r, b>> \in C
    PROVE  Vote(s, r, b) \in Message /\ SafeMessage(C, Vote(s, r, b))
  <1>1. s.epoch \in Nat /\ Round(b) + 1 \in Nat BY RoundType DEF State
  <1>2. Committee(s) \in Nat /\ getRoundProposer(s, Round(b) + 1) \in Replicas
        BY <1>1, ProposerType
  <1>3. Vote(s, r, b) \in Message BY <1>1, <1>2 DEF Vote, Message
  <1>4. SafeMessage(C, Vote(s, r, b)) BY DEF Vote, SafeMessage
  <1> QED BY <1>3, <1>4

\* OnReceiveProposal: the only step that casts a vote.  The proposal's parent
\* is certified, so the new vote keeps all ancestors certified.
LEMMA OnReceiveProposalStep ==
    ASSUME IInv, NEW r \in Replicas, NEW m \in net, OnReceiveProposal(r, m),
           UNCHANGED <<strays, used>>
    PROVE  IInv'
  <1> DEFINE b == m.block
             s == [pm[r] EXCEPT !.seen = @ \cup {b}]
             flags == {f \in {"known", "cut"} :
                         /\ f = "known" => InDB(s, b)
                         /\ f = "cut" => ~HasDraft(s, Parent(b))}
             s1 == IF HasDraft(s, b) THEN s ELSE AddDraft(s, b, flags)
             s2 == Update(s1, QCOf(b))
             s3 == [s2 EXCEPT !.lastVote = b, !.lastVotingHeight = Len(b)]
             s4 == enterRound(s3, Round(b) + 1)
             D  == cast \cup {<<r, b>>}
  <1>1. /\ cast \in Votes /\ Good(cast, r, pm[r])
        /\ SafeStrays(cast, strays') /\ used' \in Counters
        BY IInvFacts
  <1>2. m \in Message /\ SafeMessage(cast, m) /\ m.type = "proposal"
        BY IInvFacts DEF OnReceiveProposal
  <1>3. b \in Block /\ b # Genesis /\ CertifiedBy(cast, Parent(b))
        BY <1>2, MessageFields DEF SafeMessage
  <1>4. QCOf(b) \in Block /\ CertifiedBy(cast, QCOf(b)) BY SMTT(30), <1>3, QCOfCertified
  <1>5. \/ Handled(r, s, {m}, {}) /\ UNCHANGED cast
        \/ Handled(r, s1, {m}, {}) /\ UNCHANGED cast
        \/ Handled(r, s2, {m}, {}) /\ UNCHANGED cast
        \/ Handled(r, s4, {m}, {Vote(s2, r, b)}) /\ cast' = D
        BY DEF OnReceiveProposal
  <1> HIDE DEF b
  <1>6. Good(cast, r, s) BY <1>1, <1>3, SeenGood
  <1> HIDE DEF s
  <1>7. Good(cast, r, s1)
    <2>1. flags \in SUBSET Flags BY DEF Flags
    <2> HIDE DEF flags
    <2> QED BY <1>3, <1>6, <2>1, AddDraftGood
  <1> HIDE DEF s1
  <1>8. Good(cast, r, s2) BY <1>1, <1>3, <1>4, <1>7, UpdateGood
  <1> HIDE DEF s2
  <1>9. cast \subseteq D /\ D \in Votes /\ <<r, b>> \in D
        BY <1>1, <1>3, VoteExtends
  <1> HIDE DEF D
  <1>10. Good(D, r, s2) BY <1>8, <1>9, SafeMonotone DEF Good
  <1>11. Good(D, r, s3) BY Zenon, <1>3, <1>9, <1>10, VotedGood
  <1> HIDE DEF s3
  <1>12. Good(D, r, s4) BY <1>3, <1>11, RoundType, enterRoundGood
  <1> HIDE DEF s4
  <1>13. Vote(s2, r, b) \in Message /\ SafeMessage(D, Vote(s2, r, b))
         BY <1>3, <1>9, <1>10, VoteSafe DEF Good
  <1>14. CASE Handled(r, s4, {m}, {Vote(s2, r, b)}) /\ cast' = D
         BY <1>1, <1>9, <1>12, <1>13, <1>14, HandledStep
  <1>15. CASE Handled(r, s, {m}, {}) /\ UNCHANGED cast BY <1>6, <1>15, QuietStep
  <1>16. CASE Handled(r, s1, {m}, {}) /\ UNCHANGED cast BY <1>7, <1>16, QuietStep
  <1>17. CASE Handled(r, s2, {m}, {}) /\ UNCHANGED cast BY <1>8, <1>17, QuietStep
  <1> QED BY <1>5, <1>14, <1>15, <1>16, <1>17

\* OnReceiveVote: a QC it forms is certified, so QCHigh and the commit are.
LEMMA OnReceiveVoteStep ==
    ASSUME IInv, NEW r \in Replicas, NEW m \in net, OnReceiveVote(r, m),
           UNCHANGED <<strays, used>>
    PROVE  IInv'
  <1> DEFINE s == pm[r]
             b == m.block
             rd == Round(b)
             s1 == [s EXCEPT !.qcVotes = AddVote(@, b, m.from)]
             s2 == UpdateQCHigh(s1, b, b)
             s3 == Update(s2, b)
             s4 == enterRound(scheduleOnBeat(s3, rd + 1), rd + 1)
  <1>1. cast \in Votes /\ Good(cast, r, s) BY IInvFacts
  <1>2. m \in Message /\ SafeMessage(cast, m) /\ m.type = "vote"
        BY IInvFacts DEF OnReceiveVote
  <1>3. b \in Block /\ m.from \in Replicas /\ <<m.from, b>> \in cast
        BY <1>2, MessageFields DEF SafeMessage
  <1>4. rd + 1 \in Nat BY <1>3, RoundType
  <1>5. UNCHANGED <<cast, strays, used>> BY DEF OnReceiveVote
  <1>6. \/ Handled(r, s, {m}, {})
        \/ Handled(r, s1, {m}, {})
        \/ /\ CertFormed(s.qcVotes, b, m.from)
           /\ Handled(r, s2, {m}, {}) \/ Handled(r, s4, {m}, {})
        BY DEF OnReceiveVote
  <1> HIDE DEF b, rd, s
  <1>7. Good(cast, r, s1) BY <1>1, <1>3, AddVoteGood
  <1> HIDE DEF s1
  <1>8. CASE Handled(r, s, {m}, {}) BY <1>1, <1>5, <1>8, QuietStep
  <1>9. CASE Handled(r, s1, {m}, {}) BY <1>5, <1>7, <1>9, QuietStep
  <1>10. CASE /\ CertFormed(s.qcVotes, b, m.from)
              /\ Handled(r, s2, {m}, {}) \/ Handled(r, s4, {m}, {})
    <2>1. CertifiedBy(cast, b) BY <1>1, <1>3, <1>10, CertFormedCertified
    <2>2. Good(cast, r, s2) BY <1>3, <1>7, <2>1, UpdateQCHighGood
    <2> HIDE DEF s2
    <2>3. Good(cast, r, s3) BY <1>1, <1>3, <2>1, <2>2, UpdateGood
    <2> HIDE DEF s3
    <2>4. Good(cast, r, scheduleOnBeat(s3, rd + 1))
          BY <1>4, <2>3, scheduleOnBeatGood
    <2>5. Good(cast, r, s4) BY <1>4, <2>4, enterRoundGood
    <2> HIDE DEF s4
    <2>6. CASE Handled(r, s2, {m}, {}) BY <1>5, <2>2, <2>6, QuietStep
    <2>7. CASE Handled(r, s4, {m}, {}) BY <1>5, <2>5, <2>7, QuietStep
    <2> QED BY <1>10, <2>6, <2>7
  <1> QED BY <1>6, <1>8, <1>9, <1>10

\* The last vote and the QCHigh of a timeout message are real.
LEMMA TimeoutQCsGood ==
    ASSUME NEW C \in Votes, NEW r, NEW s, Good(C, r, s), NEW m \in Message,
           m.type = "timeout", SafeMessage(C, m)
    PROVE  Good(C, r, TimeoutQCs(s, m))
  <1> DEFINE lv == m.lastVote
             s1 == IF lv = NoBlock THEN s
                   ELSE [s EXCEPT !.qcVotes = AddVote(@, lv, m.from)]
             formed == lv # NoBlock /\ CertFormed(s.qcVotes, lv, m.from)
             node == GetDraftByEscortQC(s1, lv)
             s2 == IF formed THEN UpdateQCHigh(s1, lv, node) ELSE s1
             s3 == IF formed /\ s2.status = "up" THEN Update(s2, lv) ELSE s2
             s4 == UpdateQCHigh(s3, m.qc, GetDraftByEscortQC(s3, m.qc))
  <1>1. TimeoutQCs(s, m) \in {s3, s4} BY DEF TimeoutQCs
  <1>2. m.from \in Replicas /\ m.qc \in Block /\ CertifiedBy(C, m.qc)
        BY MessageFields DEF SafeMessage
  <1>3. lv # NoBlock => lv \in Block /\ <<m.from, lv>> \in C
        BY MessageFields DEF SafeMessage
  <1>4. formed => CertifiedBy(C, lv) BY <1>2, <1>3, CertFormedCertified
  <1>5. formed => lv # NoBlock OBVIOUS
  <1> HIDE DEF lv
  <1>6. Good(C, r, s1) BY <1>2, <1>3, AddVoteGood
  <1> HIDE DEF s1, formed
  <1>7. formed => node \in Block \cup {NoBlock}
        BY <1>3, <1>4, <1>5, <1>6, EscortQCGood
  <1> HIDE DEF node
  <1>8. Good(C, r, s2) BY <1>3, <1>4, <1>5, <1>6, <1>7, UpdateQCHighGood
  <1> HIDE DEF s2
  <1>9. Good(C, r, s3) BY <1>3, <1>4, <1>5, <1>8, UpdateGood
  <1> HIDE DEF s3
  <1>10. GetDraftByEscortQC(s3, m.qc) \in Block \cup {NoBlock}
         BY <1>2, <1>9, EscortQCGood
  <1>11. Good(C, r, s4) BY <1>2, <1>9, <1>10, UpdateQCHighGood
  <1> HIDE DEF s4
  <1> QED BY <1>1, <1>9, <1>11

\* Counting a wish and raising TCHigh keeps a replica good.
LEMMA TimeoutCountedGood ==
    ASSUME NEW C, NEW r, NEW s, Good(C, r, s), NEW key \in Tick,
           NEW v \in Replicas
    PROVE  LET s1 == [s EXCEPT !.tcVotes = AddVote(@, key, v)]
           IN  Good(C, r, s1) /\ Good(C, r, [s1 EXCEPT !.tcHigh = key])
  <1> DEFINE votes == AddVote(s.tcVotes, key, v)
             t == [s EXCEPT !.tcVotes = votes]
             u == [t EXCEPT !.tcHigh = key]
  <1>1. votes \in SUBSET (Tick \X Replicas) BY DEF Good, State, AddVote
  <1> HIDE DEF votes
  <1>2. t \in State BY <1>1 DEF Good, State
  <1>3. SafeReplica(C, r, t) BY DEF Good, State, SafeReplica
  <1> HIDE DEF t
  <1>4. u \in State BY <1>2 DEF State
  <1>5. SafeReplica(C, r, u) BY <1>2, <1>3 DEF State, SafeReplica
  <1> QED BY <1>2, <1>3, <1>4, <1>5 DEF Good, t, votes

\* OnReceiveTimeout keeps the invariant.
LEMMA OnReceiveTimeoutStep ==
    ASSUME IInv, NEW r \in Replicas, NEW m \in net, OnReceiveTimeout(r, m),
           UNCHANGED <<strays, used>>
    PROVE  IInv'
  <1> DEFINE key == [epoch |-> m.epoch, round |-> m.wish]
             s == TimeoutQCs(pm[r], m)
             s1 == [s EXCEPT !.tcVotes = AddVote(@, key, m.from)]
             s2 == [s1 EXCEPT !.tcHigh = key]
             s3 == scheduleOnBeat(s2, m.wish)
  <1>1. cast \in Votes /\ Good(cast, r, pm[r]) BY IInvFacts
  <1>2. m \in Message /\ SafeMessage(cast, m) /\ m.type = "timeout"
        BY IInvFacts DEF OnReceiveTimeout
  <1>3. m.from \in Replicas /\ m.wish \in Nat /\ m.epoch \in Nat
        BY <1>2, MessageFields
  <1>4. key \in Tick BY <1>3 DEF Tick
  <1>5. UNCHANGED <<cast, strays, used>> BY DEF OnReceiveTimeout
  <1>6. \/ Handled(r, pm[r], {m}, {})
        \/ Handled(r, s1, {m}, {})
        \/ Handled(r, s3, {m}, {})
        BY DEF OnReceiveTimeout
  <1> HIDE DEF key
  <1>7. Good(cast, r, s) BY <1>1, <1>2, TimeoutQCsGood
  <1> HIDE DEF s
  <1>8. Good(cast, r, s1) /\ Good(cast, r, s2)
        BY Zenon, <1>3, <1>4, <1>7, TimeoutCountedGood
  <1> HIDE DEF s1, s2
  <1>9. Good(cast, r, s3) BY <1>3, <1>8, scheduleOnBeatGood
  <1> HIDE DEF s3
  <1>10. CASE Handled(r, pm[r], {m}, {}) BY <1>1, <1>5, <1>10, QuietStep
  <1>11. CASE Handled(r, s1, {m}, {}) BY <1>5, <1>8, <1>11, QuietStep
  <1>12. CASE Handled(r, s3, {m}, {}) BY <1>5, <1>9, <1>12, QuietStep
  <1> QED BY <1>6, <1>10, <1>11, <1>12

\* OnReceiveQuery: what is sent are ancestors of a certified draft, and genesis,
\* which is stored everywhere, is not among them.
LEMMA OnReceiveQueryStep ==
    ASSUME IInv, NEW r \in Replicas, NEW m \in net, OnReceiveQuery(r, m),
           UNCHANGED <<strays, used>>
    PROVE  IInv'
  <1> DEFINE s == pm[r]
             drafts == GetDraftsUpTo(s, m.committed, s.qc)
             sent == UNION {Broadcast(r, b) : b \in drafts}
  <1>1. Good(cast, r, s) BY IInvFacts
  <1>2. UNCHANGED <<cast, strays, used>> /\ Handled(r, s, {m}, sent)
        BY DEF OnReceiveQuery
  <1>3. \A x \in sent : x \in Message /\ SafeMessage(cast, x)
    <2> SUFFICES ASSUME NEW b \in drafts, NEW x \in Broadcast(r, b)
                 PROVE  x \in Message /\ SafeMessage(cast, x)
        OBVIOUS
    <2>1. PICK k \in 0 .. Len(s.qc) : b = SubSeq(s.qc, 1, k)
          BY DEF GetDraftsUpTo
    <2>2. /\ s.qc \in Block /\ s.best \in Block /\ CertifiedBy(cast, s.qc)
          /\ cast \in Votes
      <3>1. cast \in Votes BY IInvFacts
      <3> HIDE DEF s
      <3> QED BY <1>1, <3>1 DEF Good, State, SafeReplica
    <2>3. b \in Block /\ Len(b) = k BY <2>1, <2>2, PrefixType
    <2>4. b # Genesis
      <3>1. Len(b) >= Len(b) BY <2>3
      <3>2. /\ HasDraft(s, b) => <<b, "committed">> \notin s.flags
            /\ ~HasDraft(s, b) => ~InDB(s, b)
            BY ZenonT(40), <3>1 DEF GetDraftsUpTo, IsCommitted
      <3>3. InDB(s, Genesis)
            BY <2>2, EmptyPrefix, GenesisType, BlockLen DEF InDB, IsPrefix
      <3> QED BY <1>1, <3>2, <3>3 DEF Good, SafeReplica, HasDraft
    <2>5. CertifiedBy(cast, Parent(b))
      <3>1. Parent(b) = SubSeq(b, 1, k - 1) /\ k - 1 \in 0 .. k
            BY <2>3, <2>4, ParentType
      <3>2. Parent(b) = SubSeq(s.qc, 1, k - 1)
            BY <2>1, <2>2, <3>1, PrefixOfPrefix
      <3>3. k - 1 \in 0 .. Len(s.qc) BY <2>2, <3>1, BlockLen
      <3> QED BY <2>2, <3>2, <3>3, CertifiedPrefix
    <2> QED BY <2>3, <2>4, <2>5, BroadcastSafe
  <1> HIDE DEF sent, s
  <1> QED BY <1>1, <1>2, <1>3, QuietStep

\* The queries for a missing parent keep the invariant.
LEMMA QueryProposalsStep ==
    ASSUME IInv, NEW r \in Replicas, QueryProposals(r)
    PROVE  IInv'
  <1>1. PICK m \in net :
          /\ m.type = "proposal"
          /\ Handled(r, pm[r], {m}, {[m EXCEPT !.asked = TRUE]} \cup
                {Query(pm[r], r, q) : q \in
                   {m.from, getRoundProposer(pm[r], Round(m.block) + 1)} \ {r}})
          /\ UNCHANGED <<cast, strays, used>>
        BY Zenon DEF QueryProposals
  <1> DEFINE asked == [m EXCEPT !.asked = TRUE]
             next == getRoundProposer(pm[r], Round(m.block) + 1)
             sent == {asked} \cup {Query(pm[r], r, q) : q \in {m.from, next} \ {r}}
  <1>2. Good(cast, r, pm[r]) /\ m \in Message /\ SafeMessage(cast, m)
        BY IInvFacts
  <1>3. m.from \in Replicas /\ next \in Replicas /\ Committee(pm[r]) \in Nat
    <2>1. pm[r] \in State /\ Round(m.block) + 1 \in Nat
          BY <1>1, <1>2, MessageFields, RoundType DEF Good
    <2> QED BY <1>2, <2>1, MessageFields, ProposerType
  <1>4. asked \in Message /\ SafeMessage(cast, asked)
    <2>1. m \in [type : {"proposal"}, from : Replicas, to : Replicas, epoch : Nat,
                 com : Nat, block : Block, asked : BOOLEAN]
          BY <1>1, <1>2 DEF Message
    <2>2. /\ asked \in [type : {"proposal"}, from : Replicas, to : Replicas,
                        epoch : Nat, com : Nat, block : Block, asked : BOOLEAN]
          /\ asked.type = "proposal" /\ asked.block = m.block
          BY Zenon, <2>1
    <2> QED BY <1>1, <1>2, <2>2 DEF Message, SafeMessage
  <1>5. \A q \in Replicas : /\ Query(pm[r], r, q) \in Message
                            /\ SafeMessage(cast, Query(pm[r], r, q))
        BY <1>2, <1>3 DEF Query, Message, Good, State, SafeMessage
  <1>6. \A x \in sent : x \in Message /\ SafeMessage(cast, x)
        BY Zenon, <1>3, <1>4, <1>5
  <1>7. Handled(r, pm[r], {m}, sent) BY <1>1
  <1> HIDE DEF sent
  <1> QED BY <1>1, <1>2, <1>6, <1>7, QuietStep

\* CreateLeaf builds a block whose parent is the block it extends.
LEMMA ExtendType ==
    ASSUME NEW s \in State, NEW parent \in Block, NEW round \in Nat,
           NEW kind \in {"M", "K", "S"}
    PROVE  /\ Extend(s, parent, round, kind) \in Block
           /\ Extend(s, parent, round, kind) # Genesis
           /\ Parent(Extend(s, parent, round, kind)) = parent
  <1> DEFINE h == [epoch |-> s.epoch, com |-> Committee(s), round |-> round,
                   kind |-> kind, lastK |-> s.lastK, tc |-> s.tcHigh,
                   run |-> s.run]
             b == Append(parent, h)
  <1>1. h \in Header BY ProposerType DEF State, Header
  <1>2. Extend(s, parent, round, kind) = b BY DEF Extend
  <1> HIDE DEF h
  <1>3. b \in Block /\ Len(b) = Len(parent) + 1
        BY <1>1, AppendProperties DEF Block
  <1>4. b # Genesis BY <1>1, AppendProperties DEF Block, Genesis
  <1>5. Parent(b) = parent
    <2>1. \A i \in 1 .. Len(parent) : b[i] = parent[i]
          BY <1>1, AppendProperties DEF Block
    <2>2. Len(parent) \in 0 .. Len(b) BY <1>3, BlockLen
    <2> HIDE DEF b
    <2>3. Parent(b) = SubSeq(b, 1, Len(parent))
      <3>1. Len(b) - 1 = Len(parent) BY <1>3, BlockLen
      <3>2. Parent(b) = SubSeq(b, 1, Len(b) - 1) BY <1>3, <1>4, ParentType
      <3> QED BY <3>1, <3>2
    <2>4. /\ SubSeq(b, 1, Len(parent)) \in Seq(Header)
          /\ Len(SubSeq(b, 1, Len(parent))) = Len(parent)
          BY <1>3, <2>2, PrefixType DEF Block
    <2>5. \A i \in 1 .. Len(parent) : SubSeq(b, 1, Len(parent))[i] = b[i]
          BY <1>3, <2>2, SubSeqProperties, ElementOfSeq, LenProperties DEF Block
    <2> QED BY <2>1, <2>3, <2>4, <2>5, SeqEqual DEF Block
  <1> QED BY <1>2, <1>3, <1>4, <1>5

\* A new proposal on a certified parent keeps a replica good.
LEMMA ProposedGood ==
    ASSUME NEW C, NEW r, NEW s, Good(C, r, s), NEW b \in Block, b # Genesis,
           CertifiedBy(C, Parent(b))
    PROVE  Good(C, r, [s EXCEPT !.tcHigh = NoTick, !.curProposal = b,
                                !.broadcast = TRUE])
  <1> DEFINE t == [s EXCEPT !.tcHigh = NoTick, !.curProposal = b, !.broadcast = TRUE]
  <1>0. NoTick \in Tick BY DEF Tick
  <1>1. t \in State BY ZenonT(40), <1>0 DEF Good, State
  <1>2. SafeReplica(C, r, t) BY DEF Good, State, SafeReplica
  <1> QED BY <1>1, <1>2 DEF Good

\* Taking a beat from its channel keeps a replica good.
LEMMA BeatGood ==
    ASSUME NEW C, NEW r, NEW s, Good(C, r, s)
    PROVE  /\ Good(C, r, [s EXCEPT !.beat = NoTick])
           /\ \A round \in Nat :
                 Good(C, r, [[s EXCEPT !.beat = NoTick] EXCEPT
                               !.lastOnBeatRound = round])
  <1> DEFINE t == [s EXCEPT !.beat = NoTick]
  <1>1. NoTick \in Tick BY DEF Tick
  <1>2. t \in State BY <1>1 DEF Good, State
  <1>3. SafeReplica(C, r, t) BY DEF Good, State, SafeReplica
  <1> HIDE DEF t
  <1>4. ASSUME NEW round \in Nat
        PROVE  Good(C, r, [t EXCEPT !.lastOnBeatRound = round])
    <2>1. [t EXCEPT !.lastOnBeatRound = round] \in State BY <1>2 DEF State
    <2>2. SafeReplica(C, r, [t EXCEPT !.lastOnBeatRound = round])
          BY <1>2, <1>3 DEF State, SafeReplica
    <2> QED BY <2>1, <2>2 DEF Good
  <1> QED BY Zenon, <1>2, <1>3, <1>4 DEF Good, t

\* OnBeat: the block it builds has the certified block of QCHigh, or the one
\* stored at its height, as its parent.
LEMMA OnBeatStep ==
    ASSUME IInv, NEW r \in Replicas, OnBeat(r)
    PROVE  IInv'
  <1> DEFINE s == [pm[r] EXCEPT !.beat = NoTick]
             beat == pm[r].beat
             s1 == [s EXCEPT !.lastOnBeatRound = beat.round]
             parent == GetDraftByEscortQC(s, s.qc)
             bnew(pow) == CreateLeaf(s1, parent, beat.round, pow)
             drafted == HasDraft(s, s.qc)
             fl == {f \in {"cut", "loose", "nilNode"} :
                      /\ f = "cut" => ~drafted
                      /\ f = "loose" => ~drafted \/ s.qcCopy
                      /\ f = "nilNode" => s.qcNode = NoBlock}
             s2(b) == [AddDraft(s1, b, fl) EXCEPT !.tcHigh = NoTick, !.curProposal = b,
                                                  !.broadcast = TRUE]
  <1>1. cast \in Votes /\ Good(cast, r, pm[r]) BY IInvFacts
  <1>2. UNCHANGED <<cast, used>> BY DEF OnBeat
  <1>3. beat \in Tick /\ beat # NoTick BY <1>1 DEF OnBeat, Good, State
  <1>4. beat.round \in Nat BY <1>3 DEF Tick
  <1>5. \/ Handled(r, s, {}, {}) /\ UNCHANGED strays
        \/ Handled(r, s1, {}, {}) /\ UNCHANGED strays
        \/ /\ parent # NoBlock
           /\ \E pow \in BOOLEAN :
                 /\ bnew(pow) # NoBlock
                 /\ Handled(r, s2(bnew(pow)), {}, {})
                 /\ strays' = strays \cup
                       ({<<bnew(pow), s.qc>>} \ {<<bnew(pow), parent>>})
    <2>1. PowReady \in BOOLEAN BY PacemakerAssumption
    <2> QED BY Zenon, <2>1 DEF OnBeat
  <1>6. Good(cast, r, s) /\ Good(cast, r, s1) BY Zenon, <1>1, <1>4, BeatGood
  <1> HIDE DEF s, s1
  <1>7. CASE Handled(r, s, {}, {}) /\ UNCHANGED strays
        BY <1>2, <1>6, <1>7, QuietStep
  <1>8. CASE Handled(r, s1, {}, {}) /\ UNCHANGED strays
        BY <1>2, <1>6, <1>8, QuietStep
  <1>9. ASSUME parent # NoBlock, NEW pow \in BOOLEAN, bnew(pow) # NoBlock,
               Handled(r, s2(bnew(pow)), {}, {}),
               strays' = strays \cup
                  ({<<bnew(pow), s.qc>>} \ {<<bnew(pow), parent>>})
        PROVE  IInv'
    <2> DEFINE b == bnew(pow)
    <2>1. s.qc \in Block /\ CertifiedBy(cast, s.qc)
          BY <1>6 DEF Good, State, SafeReplica
    <2>2. parent \in Block /\ CertifiedBy(cast, parent)
          BY <1>1, <1>6, <1>9, <2>1, EscortQCGood
    <2>3. s1 \in State BY SMTT(30), <1>6 DEF Good
    <2> HIDE DEF parent, beat
    <2>4. \E kind \in {"M", "K", "S"} : b = Extend(s1, parent, beat.round, kind)
          BY ZenonT(40), <1>9 DEF CreateLeaf
    <2>5. b \in Block /\ b # Genesis /\ Parent(b) = parent
          BY <1>4, <2>2, <2>3, <2>4, ExtendType
    <2>6. fl \in SUBSET Flags BY DEF Flags
    <2>7. Handled(r, s2(b), {}, {}) /\ strays' \subseteq strays \cup {<<b, s.qc>>}
          BY <1>9
    <2> HIDE DEF b, bnew, fl
    <2>8. Good(cast, r, AddDraft(s1, b, fl))
          BY <1>6, <2>2, <2>5, <2>6, AddDraftGood
    <2>9. Good(cast, r, s2(b)) BY Zenon, <2>2, <2>5, <2>8, ProposedGood
    <2> HIDE DEF s2
    <2>10. SafeStrays(cast, strays')
           BY <2>1, <2>5, <2>7, IInvFacts DEF SafeStrays
    <2>11. cast' = cast /\ used' \in Counters BY <1>2, IInvFacts
    <2> QED BY <1>1, <2>7, <2>9, <2>10, <2>11, HandledStep
  <1> QED BY Zenon, <1>5, <1>7, <1>8, <1>9

\* OnBroadcastProposal keeps the invariant.
LEMMA OnBroadcastProposalStep ==
    ASSUME IInv, NEW r \in Replicas, OnBroadcastProposal(r)
    PROVE  IInv'
  <1> DEFINE s == [pm[r] EXCEPT !.broadcast = FALSE]
             b == s.curProposal
             sent == IF Last(b).epoch < s.epoch THEN {} ELSE Broadcast(r, b)
  <1>1. Good(cast, r, pm[r]) /\ pm[r].broadcast BY IInvFacts DEF OnBroadcastProposal
  <1>2. s \in State /\ b = pm[r].curProposal BY ZenonT(40), <1>1 DEF Good, State
  <1>3. SafeReplica(cast, r, s) BY <1>1 DEF Good, State, SafeReplica
  <1>4. b \in Block /\ b # Genesis /\ CertifiedBy(cast, Parent(b))
        BY <1>1, <1>2 DEF Good, SafeReplica
  <1>5. /\ Handled(r, s, {}, sent)
        /\ UNCHANGED <<cast, strays, used>>
        BY DEF OnBroadcastProposal
  <1> HIDE DEF b, s
  <1>6. \A m \in sent : m \in Message /\ SafeMessage(cast, m)
        BY <1>4, BroadcastSafe
  <1> HIDE DEF sent
  <1> QED BY <1>2, <1>3, <1>5, <1>6, QuietStep DEF Good

\* A round timer that fires, or whose event is taken, keeps a replica good.
LEMMA TimerGood ==
    ASSUME NEW C, NEW r, NEW s, Good(C, r, s)
    PROVE  /\ Good(C, r, [s EXCEPT !.fired = NoTick])
           /\ Good(C, r, [s EXCEPT !.fired = s.timer, !.timer = NoTick])
  <1>1. NoTick \in Tick BY DEF Tick
  <1> DEFINE t == [s EXCEPT !.fired = NoTick]
             u == [s EXCEPT !.fired = s.timer, !.timer = NoTick]
  <1>2. t \in State BY <1>1 DEF Good, State
  <1>3. SafeReplica(C, r, t) BY DEF Good, State, SafeReplica
  <1>4. u \in State BY ZenonT(40), <1>1 DEF Good, State
  <1>5. SafeReplica(C, r, u) BY DEF Good, State, SafeReplica
  <1> QED BY <1>2, <1>3, <1>4, <1>5 DEF Good

\* The round timer keeps the invariant.
LEMMA TimerFiresStep ==
    ASSUME IInv, NEW r \in Replicas, TimerFires(r)
    PROVE  IInv'
  <1> DEFINE s == [pm[r] EXCEPT !.fired = pm[r].timer, !.timer = NoTick]
  <1>1. /\ cast \in Votes /\ Good(cast, r, pm[r])
        /\ SafeStrays(cast, strays) /\ used \in Counters
        BY IInvFacts
  <1>2. used' \in Counters
        BY <1>1 DEF TimerFires, Counters
  <1>3. cast' = cast /\ strays' = strays /\ Become(r, s, {}, {}) BY DEF TimerFires
  <1>4. Good(cast, r, s) BY Zenon, <1>1, TimerGood
  <1> HIDE DEF s
  <1> QED BY <1>1, <1>2, <1>3, <1>4, BecomeStep

\* OnRoundTimeout: the timeout message carries a certified QCHigh and a vote
\* that was cast.
LEMMA OnRoundTimeoutStep ==
    ASSUME IInv, NEW r \in Replicas, OnRoundTimeout(r)
    PROVE  IInv'
  <1> DEFINE ti == pm[r].fired
             s  == [pm[r] EXCEPT !.fired = NoTick]
             s1 == enterRound(s, ti.round + 1)
  <1>1. Good(cast, r, pm[r]) BY IInvFacts
  <1>2. ti \in Tick /\ ti # NoTick BY <1>1 DEF OnRoundTimeout, Good, State
  <1>3. ti.round \in Nat /\ ti.epoch \in Nat BY <1>2 DEF Tick
  <1>4. UNCHANGED <<cast, strays, used>> BY DEF OnRoundTimeout
  <1>5. \/ Handled(r, s, {}, {})
        \/ Handled(r, s1, {}, {Timeout(s1, r, ti)})
        BY DEF OnRoundTimeout
  <1> HIDE DEF ti
  <1>6. Good(cast, r, s) BY Zenon, <1>1, TimerGood
  <1> HIDE DEF s
  <1>7. Good(cast, r, s1) BY <1>3, <1>6, enterRoundGood
  <1> HIDE DEF s1
  <1>8. Committee(s1) \in Nat /\ getRoundProposer(s1, ti.round) \in Replicas
        BY <1>3, <1>7, ProposerType DEF Good
  <1>9. /\ s1.qc \in Block /\ s1.lastVote \in Block \cup {NoBlock}
        /\ CertifiedBy(cast, s1.qc)
        /\ s1.lastVote # NoBlock => <<r, s1.lastVote>> \in cast
        BY <1>7 DEF Good, State, SafeReplica
  <1>10. Timeout(s1, r, ti) \in Message
         BY SMTT(30), <1>3, <1>8, <1>9 DEF Timeout, Message
  <1>11. SafeMessage(cast, Timeout(s1, r, ti))
         BY <1>9 DEF Timeout, SafeMessage
  <1>12. CASE Handled(r, s, {}, {}) BY <1>4, <1>6, <1>12, QuietStep
  <1>13. CASE Handled(r, s1, {}, {Timeout(s1, r, ti)})
         BY <1>4, <1>7, <1>10, <1>11, <1>13, QuietStep
  <1> QED BY <1>5, <1>12, <1>13

\* Regulate, taken from its command channel, keeps the invariant.
LEMMA RegulateCmdStep ==
    ASSUME IInv, NEW r \in Replicas, RegulateCmd(r)
    PROVE  IInv'
  <1>1. Good(cast, r, Regulate(pm[r])) BY IInvFacts, RegulateGood
  <1>2. /\ Handled(r, Regulate(pm[r]), {}, {})
        /\ UNCHANGED <<cast, strays, used>>
        BY DEF RegulateCmd
  <1> QED BY <1>1, <1>2, QuietStep

\* OnNewTx only takes a look at best and QCHigh.
LEMMA OnNewTxStep ==
    ASSUME IInv, NEW r \in Replicas, OnNewTx(r)
    PROVE  IInv'
  BY IInvFacts, QuietStep DEF OnNewTx

\* A stored block with a certified child may become the best block.
LEMMA ImportedGood ==
    ASSUME NEW C, NEW r, NEW s, Good(C, r, s), NEW b \in Block, CertifiedBy(C, b),
           HasCertifiedChild(C, b), NEW imp \in Importer, imp.at # "committee"
    PROVE  Good(C, r, [s EXCEPT !.best = b, !.imp = imp])
  <1> DEFINE t == [s EXCEPT !.best = b, !.imp = imp]
  <1>1. t \in State BY ZenonT(40) DEF Good, State
  <1>2. SafeReplica(C, r, t) BY DEF Good, State, SafeReplica
  <1> QED BY <1>1, <1>2 DEF Good

\* ImportBlock imports a block that a peer has committed.
LEMMA ImportBlockStep ==
    ASSUME IInv, NEW r \in Replicas, ImportBlock(r)
    PROVE  IInv'
  <1> DEFINE s == pm[r]
             b(q) == SubSeq(pm[q].best, 1, Len(s.best) + 1)
             imp(q) == Importing("added", b(q), NoBlock)
  <1>1. PICK q \in Replicas :
          /\ IsStrictPrefix(s.best, pm[q].best)
          /\ Become(r, [s EXCEPT !.best = b(q), !.imp = imp(q)], {}, {})
          /\ UNCHANGED <<cast, strays, used>>
        BY ZenonT(40) DEF ImportBlock
  <1> DEFINE top == pm[q].best
             k == Len(s.best) + 1
  <1>2. cast \in Votes /\ Good(cast, r, s) /\ Good(cast, q, pm[q]) BY IInvFacts
  <1>3. /\ s.best \in Block /\ top \in Block
        /\ CertifiedBy(cast, top) /\ HasCertifiedChild(cast, top)
        BY <1>2 DEF Good, State, SafeReplica
  <1>4. k \in 0 .. Len(top)
        BY <1>1, <1>3, StrictPrefix, BlockLen DEF IsStrictPrefix
  <1> HIDE DEF top, k
  <1>5. b(q) = SubSeq(top, 1, k) BY DEF top, k
  <1> HIDE DEF b
  <1>6. b(q) \in Block /\ CertifiedBy(cast, b(q))
        BY <1>2, <1>3, <1>4, <1>5, PrefixType, CertifiedPrefix
  <1>7. HasCertifiedChild(cast, b(q))
    <2>1. CASE k = Len(top) BY Zenon, <1>3, <1>5, <2>1, FullPrefix
    <2>2. CASE k # Len(top)
      <3>1. k \in 0 .. Len(top) - 1 BY <1>3, <1>4, <2>2, BlockLen
      <3> QED BY <1>2, <1>3, <1>5, <3>1, PrefixHasChild
    <2> QED BY <2>1, <2>2
  <1>8. imp(q) \in Importer /\ imp(q).at # "committee"
        BY <1>6 DEF Importer, Importing
  <1> HIDE DEF s, imp
  <1>9. Good(cast, r, [s EXCEPT !.best = b(q), !.imp = imp(q)])
        BY Zenon, <1>2, <1>6, <1>7, <1>8, ImportedGood
  <1> QED BY <1>1, <1>9, ImporterStep

\* The importing goroutine may replace the committee and the epoch.
LEMMA ImporterGood ==
    ASSUME NEW C, NEW r, NEW s, Good(C, r, s), NEW imp \in Importer,
           imp.at = "committee" => imp.bestK \in Block
    PROVE  /\ Good(C, r, [s EXCEPT !.imp = imp])
           /\ \A k \in Block : Good(C, r, [s EXCEPT !.curK = k, !.imp = imp])
           /\ \A lastK, epoch \in Nat :
                 Good(C, r, [s EXCEPT !.lastK = lastK, !.epoch = epoch, !.imp = imp])
  <1> DEFINE t == [s EXCEPT !.imp = imp]
  <1>1. t \in State BY ZenonT(40) DEF Good, State
  <1>2. SafeReplica(C, r, t) BY DEF Good, State, SafeReplica
  <1>3. ASSUME NEW k \in Block PROVE Good(C, r, [s EXCEPT !.curK = k, !.imp = imp])
    <2> DEFINE u == [s EXCEPT !.curK = k, !.imp = imp]
    <2>1. u \in State BY ZenonT(40) DEF Good, State
    <2>2. SafeReplica(C, r, u) BY DEF Good, State, SafeReplica
    <2> QED BY <2>1, <2>2 DEF Good
  <1>4. ASSUME NEW lastK \in Nat, NEW epoch \in Nat
        PROVE  Good(C, r, [s EXCEPT !.lastK = lastK, !.epoch = epoch, !.imp = imp])
    <2> DEFINE u == [s EXCEPT !.lastK = lastK, !.epoch = epoch, !.imp = imp]
    <2>1. u \in State BY ZenonT(40) DEF Good, State
    <2>2. SafeReplica(C, r, u) BY DEF Good, State, SafeReplica
    <2> QED BY <2>1, <2>2 DEF Good
  <1> QED BY ZenonT(40), <1>1, <1>2, <1>3, <1>4 DEF Good

\* A goroutine that has nothing to do owes nothing.
LEMMA IdleType == Idle \in Importer /\ Idle.at # "committee"
  BY DEF Idle, Importing, Importer

\* ReplaceCommittee remembers the KBlock of the new committee.
LEMMA ReplaceCommitteeStep ==
    ASSUME IInv, NEW r \in Replicas, ReplaceCommittee(r)
    PROVE  IInv'
  <1> DEFINE s == pm[r]
             bestK == BestKBlock(s)
             imp == Importing("committee", s.imp.blk, bestK)
             t == [s EXCEPT !.curK = bestK, !.imp = imp]
             u == [s EXCEPT !.imp = Idle]
  <1>1. Good(cast, r, s) BY IInvFacts
  <1>2. \/ EntersEpoch(s, bestK) /\ Become(r, t, {}, {})
        \/ Become(r, u, {}, {})
        BY DEF ReplaceCommittee
  <1>3. UNCHANGED <<cast, strays, used>> BY DEF ReplaceCommittee
  <1> HIDE DEF s
  <1>4. Good(cast, r, u) BY Zenon, <1>1, IdleType, ImporterGood
  <1> HIDE DEF u
  <1>5. CASE Become(r, u, {}, {}) BY <1>3, <1>4, <1>5, ImporterStep
  <1>6. CASE EntersEpoch(s, bestK) /\ Become(r, t, {}, {})
    <2>1. bestK # NoBlock BY <1>6 DEF EntersEpoch
    <2>2. bestK \in Block BY <1>1, <2>1, BestKBlockType DEF Good, State
    <2> HIDE DEF bestK
    <2>3. imp \in Importer /\ imp.bestK \in Block
          BY <1>1, <2>2 DEF Good, State, Importer, Importing
    <2> HIDE DEF imp
    <2>4. Good(cast, r, t) BY ZenonT(40), <1>1, <2>2, <2>3, ImporterGood
    <2> HIDE DEF t
    <2> QED BY <1>3, <1>6, <2>4, ImporterStep
  <1> QED BY <1>2, <1>5, <1>6

\* EnterEpoch takes the epoch from the KBlock that ReplaceCommittee remembered.
LEMMA EnterEpochStep ==
    ASSUME IInv, NEW r \in Replicas, EnterEpoch(r)
    PROVE  IInv'
  <1> DEFINE s == pm[r]
             lastK == Len(s.imp.bestK)
             epoch == EpochAfter(s.imp.bestK)
             imp == Importing("entered", s.imp.blk, NoBlock)
             t == [s EXCEPT !.lastK = lastK, !.epoch = epoch, !.imp = imp]
  <1>1. Good(cast, r, s) BY IInvFacts
  <1>2. /\ s.imp.at = "committee" /\ Become(r, t, {}, {})
        /\ UNCHANGED <<cast, strays, used>>
        BY DEF EnterEpoch
  <1> HIDE DEF s
  <1>3. s.imp.bestK \in Block BY <1>1, <1>2 DEF Good, SafeReplica
  <1>4. lastK \in Nat /\ epoch \in Nat BY <1>3, BlockLen, EpochType
  <1>5. imp \in Importer /\ imp.at # "committee"
        BY <1>1 DEF Good, State, Importer, Importing
  <1> HIDE DEF lastK, epoch, imp
  <1>6. Good(cast, r, t) BY ZenonT(40), <1>1, <1>4, <1>5, ImporterGood
  <1> HIDE DEF t
  <1> QED BY <1>2, <1>6, ImporterStep

\* RequestRegulate ends the import.
LEMMA RequestRegulateStep ==
    ASSUME IInv, NEW r \in Replicas, RequestRegulate(r)
    PROVE  IInv'
  <1> DEFINE s == [pm[r] EXCEPT !.imp = Idle]
  <1>1. Good(cast, r, pm[r]) BY IInvFacts
  <1>2. /\ Become(r, scheduleRegulate(s), {}, {}) \/ Become(r, s, {}, {})
        /\ UNCHANGED <<cast, strays, used>>
        BY DEF RequestRegulate
  <1>3. Good(cast, r, s) BY Zenon, <1>1, IdleType, ImporterGood
  <1> HIDE DEF s
  <1>4. Good(cast, r, scheduleRegulate(s)) BY <1>3, LoopHeadGood
  <1> QED BY <1>2, <1>3, <1>4, ImporterStep

\* A process may stop.
LEMMA CrashStep ==
    ASSUME IInv, NEW r \in Replicas, Crash(r)
    PROVE  IInv'
  <1> DEFINE s == [pm[r] EXCEPT !.status = "down"]
  <1>1. /\ pm' = [pm EXCEPT ![r] = s] /\ cast' = cast /\ net' \subseteq net
        /\ strays' = strays
        BY DEF Crash
  <1>2. used' \in Counters BY IInvFacts DEF Crash, Counters
  <1>3. Good(cast, r, pm[r]) BY IInvFacts
  <1>4. s \in State BY <1>3 DEF Good, State
  <1>5. SafeReplica(cast, r, s) BY <1>3 DEF Good, State, SafeReplica
  <1> HIDE DEF s
  <1>6. TypeOK' BY <1>1, <1>2, <1>4 DEF IInv, TypeOK, Counters
  <1>7. \A q \in Replicas : SafeReplica(cast, q, pm'[q])
        BY <1>1, <1>5 DEF IInv, TypeOK
  <1> QED BY <1>1, <1>6, <1>7 DEF IInv

\* A process may start again from the block it has stored.
LEMMA RestartStep ==
    ASSUME IInv, NEW r \in Replicas, Restart(r)
    PROVE  IInv'
  <1> DEFINE best == pm[r].best
             run == pm[r].run
             s == [Fresh(best) EXCEPT !.run = run]
             s1 == LoopHead(Regulate(s))
  <1>1. /\ cast \in Votes /\ Good(cast, r, pm[r])
        /\ SafeStrays(cast, strays) /\ used \in Counters
        BY IInvFacts
  <1>2. Become(r, s1, {}, {}) /\ cast' = cast /\ strays' = strays BY DEF Restart
  <1>0. used' \in Counters BY <1>1 DEF Restart, Counters
  <1>3. /\ best \in Block /\ run \in Nat
        /\ CertifiedBy(cast, best) /\ HasCertifiedChild(cast, best)
        BY <1>1 DEF Good, State, SafeReplica
  <1> HIDE DEF best, run
  <1>4. Good(cast, r, Fresh(best)) BY <1>3, FreshGood
  <1>5. s \in State BY <1>3, <1>4 DEF Good, State
  <1>6. SafeReplica(cast, r, s) BY <1>4 DEF Good, State, SafeReplica
  <1> HIDE DEF s
  <1>7. Good(cast, r, s1) BY <1>1, <1>5, <1>6, RegulateGood, LoopHeadGood DEF Good
  <1> HIDE DEF s1
  <1> QED BY <1>0, <1>1, <1>2, <1>7, BecomeStep

\* A message may be lost on its way.
LEMMA LoseStep ==
    ASSUME IInv, NEW r \in Replicas, Lose(r)
    PROVE  IInv'
  <1>1. /\ net' \subseteq net /\ pm' = pm /\ cast' = cast /\ strays' = strays
        BY DEF Lose
  <1>2. used' \in Counters BY IInvFacts DEF Lose, Counters
  <1>3. TypeOK' BY <1>1, <1>2 DEF IInv, TypeOK, Counters
  <1> QED BY <1>1, <1>3 DEF IInv

-----------------------------------------------------------------------------
(* The theorems *)

\* The invariant holds when all pacemakers start from genesis.
LEMMA InitIInv == Init => IInv
  <1> SUFFICES ASSUME Init PROVE IInv OBVIOUS
  <1>1. cast = {} /\ net = {} /\ strays = {} /\ used \in Counters
        BY DEF Init, Counters
  <1>2. cast \in Votes BY <1>1 DEF Votes, AncestorsCertified
  <1>3. CertifiedBy(cast, Genesis) /\ HasCertifiedChild(cast, Genesis)
        BY DEF CertifiedBy, HasCertifiedChild
  <1>4. \A r \in Replicas : Good(cast, r, Regulate(Fresh(Genesis)))
        BY SMTT(30), <1>2, <1>3, GenesisType, FreshGood, RegulateGood
  <1>5. pm = [r \in Replicas |-> Regulate(Fresh(Genesis))] BY DEF Init
  <1> QED BY <1>1, <1>2, <1>4, <1>5 DEF IInv, TypeOK, Good, Votes, Counters

\* Every step keeps the invariant.
LEMMA NextIInv == IInv /\ [Next]_vars => IInv'
  <1> SUFFICES ASSUME IInv, [Next]_vars PROVE IInv' OBVIOUS
  <1>1. CASE UNCHANGED vars
        BY <1>1 DEF vars, IInv, TypeOK
  <1>2. ASSUME NEW r \in Replicas, NEW m \in net, Receive(r, m) PROVE IInv'
    <2>1. UNCHANGED <<strays, used>> BY <1>2 DEF Receive
    <2>2. CASE OnReceiveProposal(r, m) BY <2>1, <2>2, OnReceiveProposalStep
    <2>3. CASE OnReceiveVote(r, m) BY <2>1, <2>3, OnReceiveVoteStep
    <2>4. CASE OnReceiveTimeout(r, m) BY <2>1, <2>4, OnReceiveTimeoutStep
    <2>5. CASE OnReceiveQuery(r, m) BY <2>1, <2>5, OnReceiveQueryStep
    <2> QED BY <1>2, <2>2, <2>3, <2>4, <2>5 DEF Receive
  <1>3. ASSUME NEW r \in Replicas, MainLoop(r) PROVE IInv'
        BY <1>2, <1>3, OnBeatStep, OnBroadcastProposalStep, TimerFiresStep,
           OnRoundTimeoutStep, RegulateCmdStep, QueryProposalsStep,
           OnNewTxStep DEF MainLoop
  <1>4. ASSUME NEW r \in Replicas, processBlock(r) PROVE IInv'
        BY <1>4, ImportBlockStep, ReplaceCommitteeStep, EnterEpochStep,
           RequestRegulateStep DEF processBlock
  <1>5. CASE Next
        BY <1>3, <1>4, <1>5, CrashStep, RestartStep, LoseStep DEF Next
  <1> QED BY <1>1, <1>5

\* IInv is an invariant of the pacemaker, for every committee size and bound.
THEOREM Invariance == Spec => []IInv
  BY InitIInv, NextIInv, PTL DEF Spec

\* Every Pacemaker field and every message keeps its type (TypeOK).
THEOREM TypeCorrectness == Spec => []TypeOK
  <1>1. IInv => TypeOK BY DEF IInv
  <1> QED BY <1>1, Invariance, PTL

\* QCHigh is always a certificate that two thirds of the committee voted for,
\* and votes (OnReceiveProposal) go only to blocks whose QC and whose ancestors
\* are certified, also where OnBeat built them on another parent.
THEOREM CertifiedAncestryHolds == Spec => []CertifiedAncestry
  <1>1. ASSUME IInv, NEW v \in cast PROVE Certified(QCOf(v[2]))
    <2>1. v[2] \in Block /\ cast \in Votes BY <1>1, IInvFacts DEF Votes
    <2>2. CertifiedBy(cast, Parent(v[2]))
      <3>1. CASE v[2] = Genesis \/ Parent(v[2]) = Genesis
            BY <3>1 DEF CertifiedBy, Parent
      <3>2. CASE v[2] # Genesis /\ Parent(v[2]) # Genesis
        <4>1. /\ Parent(v[2]) = SubSeq(v[2], 1, Len(v[2]) - 1)
              /\ Parent(v[2]) \in Block /\ Len(Parent(v[2])) = Len(v[2]) - 1
              BY <2>1, <3>2, ParentType
        <4>2. Len(Parent(v[2])) \in Nat \ {0} BY <3>2, <4>1, ParentType
        <4>3. Len(v[2]) - 1 \in 1 .. Len(v[2]) - 1 BY <2>1, <4>1, <4>2, BlockLen
        <4> QED BY <2>1, <4>1, <4>3 DEF Votes, AncestorsCertified
      <3> QED BY <3>1, <3>2
    <2> QED BY <1>1, <2>1, <2>2, QCOfCertified DEF Certified
  <1>2. IInv => CertifiedAncestry
        BY Zenon, <1>1
           DEF IInv, SafeReplica, AncestorsCertified, CertifiedAncestry, Certified
  <1> QED BY <1>2, Invariance, PTL

\* The two-chain rule of Update: a replica's best block, however it got there
\* (OnCommit, processBlock, Restart), has a certified child.
THEOREM TwoChainCommitHolds == Spec => []TwoChainCommit
  <1>1. IInv => TwoChainCommit
        BY Zenon DEF IInv, SafeReplica, HasCertifiedChild, TwoChainCommit, Certified
  <1> QED BY <1>1, Invariance, PTL

-----------------------------------------------------------------------------
(* Forks *)

\* Any two sets of voters that MajorityTwoThird accepts share a voter.
LEMMA QuorumsIntersect ==
    ASSUME NEW S \in SUBSET Replicas, NEW T \in SUBSET Replicas,
           MajorityTwoThird(Cardinality(S), N), MajorityTwoThird(Cardinality(T), N)
    PROVE  S \cap T # {}
  <1>1. IsFiniteSet(S) /\ IsFiniteSet(T) BY ReplicasFinite, FS_Subset
  <1>2. Cardinality(S) \in Nat /\ Cardinality(T) \in Nat BY <1>1, FS_CardinalityType
  <1>3. Cardinality(S) + Cardinality(T) > N
        BY <1>2, PacemakerAssumption DEF MajorityTwoThird
  <1> QED BY <1>3, ReplicasFinite, FS_MajoritiesIntersect

\* While nobody signs two blocks of one height, a height has one certificate.
LEMMA OneCertificatePerHeight ==
    ASSUME OneVotePerHeight, NEW b \in Block, NEW c \in Block, Len(b) = Len(c),
           CertifiedBy(cast, b), CertifiedBy(cast, c)
    PROVE  b = c
  <1> DEFINE S == {r \in Replicas : <<r, b>> \in cast}
             T == {r \in Replicas : <<r, c>> \in cast}
  <1>1. CASE Len(b) = 0 BY <1>1, EmptySeq DEF Block
  <1>2. CASE Len(b) # 0
    <2>1. b # Genesis /\ c # Genesis BY <1>2, GenesisType
    <2>2. /\ MajorityTwoThird(Cardinality(S), N)
          /\ MajorityTwoThird(Cardinality(T), N)
          BY <2>1 DEF CertifiedBy
    <2>3. S \in SUBSET Replicas /\ T \in SUBSET Replicas OBVIOUS
    <2>4. S \cap T # {}
      <3> HIDE DEF S, T
      <3> QED BY <2>2, <2>3, QuorumsIntersect
    <2>5. PICK r \in Replicas : <<r, b>> \in cast /\ <<r, c>> \in cast BY <2>4
    <2>6. <<r, b>> = <<r, c>> BY <2>5 DEF OneVotePerHeight
    <2> QED BY <2>6
  <1> QED BY <1>1, <1>2

\* Of two committed chains the shorter is then a prefix of the longer.
LEMMA CommittedPrefix ==
    ASSUME IInv, OneVotePerHeight, NEW a \in Block, NEW b \in Block,
           CertifiedBy(cast, a), CertifiedBy(cast, b), Len(a) <= Len(b)
    PROVE  IsPrefix(a, b)
  <1>1. cast \in Votes BY IInvFacts
  <1>2. Len(a) \in 0 .. Len(b) BY BlockLen
  <1>3. /\ SubSeq(b, 1, Len(a)) \in Block /\ Len(SubSeq(b, 1, Len(a))) = Len(a)
        /\ CertifiedBy(cast, SubSeq(b, 1, Len(a)))
        BY <1>1, <1>2, PrefixType, CertifiedPrefix
  <1>4. a = SubSeq(b, 1, Len(a)) BY <1>3, OneCertificatePerHeight
  <1>5. SubSeq(a, 1, Len(a)) = SubSeq(b, 1, Len(a)) BY Zenon, <1>4, FullPrefix
  <1> QED BY <1>5 DEF IsPrefix

\* Replicas commit conflicting blocks (Update, OnCommit, processBlock) only after
\* somebody has signed two blocks of one height: whatever else goes wrong, from
\* stops and restarts to early timers, lost messages and imports racing
\* mainLoop, does not fork the chain.
THEOREM ForkNeedsDoubleVoteHolds == Spec => []ForkNeedsDoubleVote
  <1>1. ASSUME IInv, OneVotePerHeight PROVE Agreement
    <2> SUFFICES ASSUME NEW r \in Replicas, NEW q \in Replicas
                 PROVE  \/ IsPrefix(pm[r].best, pm[q].best)
                        \/ IsPrefix(pm[q].best, pm[r].best)
        BY DEF Agreement
    <2>1. /\ pm[r].best \in Block /\ CertifiedBy(cast, pm[r].best)
          /\ pm[q].best \in Block /\ CertifiedBy(cast, pm[q].best)
      <3>1. Good(cast, r, pm[r]) /\ Good(cast, q, pm[q]) BY <1>1, IInvFacts
      <3> QED BY <3>1 DEF Good, State, SafeReplica
    <2>2. Len(pm[r].best) <= Len(pm[q].best) \/ Len(pm[q].best) <= Len(pm[r].best)
          BY <2>1, BlockLen
    <2> QED BY <1>1, <2>1, <2>2, CommittedPrefix
  <1>2. IInv => ForkNeedsDoubleVote BY <1>1 DEF ForkNeedsDoubleVote
  <1> QED BY <1>2, Invariance, PTL
=============================================================================
