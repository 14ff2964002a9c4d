--------------------------- MODULE PacemakerLemmas ---------------------------
(***************************************************************************)
(* Lemmas about the operators of Pacemaker: blocks and their paths,        *)
(* certificates, and the sub-functions of the pacemaker.  The lemmas about *)
(* the latter have one form, "the result is Good when the argument is",    *)
(* for a fixed set C of the votes signed so far.                           *)
(***************************************************************************)
EXTENDS Pacemaker, FiniteSetTheorems, SequenceTheorems, WellFoundedInduction,
        TLAPS

\* Every proper prefix of a block in votes is certified by votes.
AncestorsCertified(votes) ==
    \A v \in votes : \A k \in 1 .. Len(v[2]) - 1 :
        CertifiedBy(votes, SubSeq(v[2], 1, k))

\* The sets of votes in which that holds.
Votes == {v \in SUBSET (Replicas \X Block) : AncestorsCertified(v)}

\* A certified block has been built on b.
HasCertifiedChild(votes, b) ==
    b # Genesis => \E v \in votes :
        v[2] # Genesis /\ Parent(v[2]) = b /\ CertifiedBy(votes, v[2])

\* What the state s of replica r owes to the votes signed so far.
SafeReplica(votes, r, s) ==
    /\ CertifiedBy(votes, s.qc) /\ CertifiedBy(votes, s.best)
    /\ HasCertifiedChild(votes, s.best)
    /\ s.lastVote # NoBlock => <<r, s.lastVote>> \in votes
    /\ \A v \in s.qcVotes : <<v[2], v[1]>> \in votes
    /\ \A d \in s.drafts : CertifiedBy(votes, Parent(d))
    /\ Genesis \in s.drafts => <<Genesis, "committed">> \in s.flags
    /\ s.broadcast => /\ s.curProposal \in Block /\ s.curProposal # Genesis
                      /\ CertifiedBy(votes, Parent(s.curProposal))
    /\ s.imp.at = "committee" => s.imp.bestK \in Block

\* What a message owes to them.
SafeMessage(votes, m) ==
    /\ m.type = "proposal" =>
          m.block # Genesis /\ CertifiedBy(votes, Parent(m.block))
    /\ m.type = "vote" => <<m.from, m.block>> \in votes
    /\ m.type = "timeout" =>
          /\ CertifiedBy(votes, m.qc)
          /\ m.lastVote # NoBlock => <<m.from, m.lastVote>> \in votes

-----------------------------------------------------------------------------
\* The committee is a finite set of N members.
LEMMA ReplicasFinite == IsFiniteSet(Replicas) /\ Cardinality(Replicas) = N
  BY FS_Interval, PacemakerAssumption DEF Replicas

\* MajorityTwoThird is monotone: more voters keep a majority.
LEMMA VotersMonotone ==
    ASSUME NEW S \in SUBSET Replicas, NEW T \in SUBSET S,
           MajorityTwoThird(Cardinality(T), N)
    PROVE  MajorityTwoThird(Cardinality(S), N)
  <1>1. IsFiniteSet(S) BY ReplicasFinite, FS_Subset
  <1>2. Cardinality(T) <= Cardinality(S) /\ Cardinality(T) \in Nat
        BY <1>1, FS_Subset, FS_CardinalityType
  <1>3. Cardinality(S) \in Nat BY <1>1, FS_CardinalityType
  <1> QED BY <1>2, <1>3, PacemakerAssumption DEF MajorityTwoThird

-----------------------------------------------------------------------------
(* Blocks *)

\* Cutting a block's path short gives the path of an ancestor.
LEMMA PrefixType ==
    ASSUME NEW b \in Block, NEW k \in 0 .. Len(b)
    PROVE  SubSeq(b, 1, k) \in Block /\ Len(SubSeq(b, 1, k)) = k
  BY SubSeqProperties, ElementOfSeq, LenProperties DEF Block

\* A block is the longest prefix of its own path.
LEMMA FullPrefix == \A b \in Block : SubSeq(b, 1, Len(b)) = b
  BY SubSeqFull DEF Block

\* Every path starts at genesis.
LEMMA EmptyPrefix == \A b \in Block : SubSeq(b, 1, 0) = Genesis
  BY SubSeqEmpty DEF Block, Genesis

\* An ancestor of an ancestor is an ancestor.
LEMMA PrefixOfPrefix ==
    ASSUME NEW b \in Block, NEW k \in 0 .. Len(b), NEW j \in 0 .. k
    PROVE  SubSeq(SubSeq(b, 1, k), 1, j) = SubSeq(b, 1, j)
  <1>1. SubSeq(b, 1, k) \in Block /\ Len(SubSeq(b, 1, k)) = k BY PrefixType
  <1>2. CASE j = 0 BY <1>1, <1>2, EmptyPrefix
  <1>3. CASE j # 0
        BY <1>1, <1>3, LenProperties, SubSeqOfSubSeq DEF Block
  <1> QED BY <1>2, <1>3

\* The parent of a block is a block one lower, its header is a Header.
LEMMA ParentType ==
    ASSUME NEW b \in Block
    PROVE  /\ Parent(b) \in Block
           /\ b # Genesis => /\ Len(b) \in Nat \ {0}
                            /\ Parent(b) = SubSeq(b, 1, Len(b) - 1)
                            /\ Len(Parent(b)) = Len(b) - 1
                            /\ Last(b) \in Header
  <1>1. CASE b = Genesis BY <1>1 DEF Parent
  <1>2. CASE b # Genesis
    <2>1. Len(b) \in Nat \ {0} BY <1>2, EmptySeq DEF Block, Genesis
    <2>2. Last(b) \in Header BY <2>1, ElementOfSeq DEF Block, Last
    <2>3. Len(b) - 1 \in 0 .. Len(b) BY <2>1
    <2>4. Parent(b) = SubSeq(b, 1, Len(b) - 1) BY <1>2 DEF Parent, Front
    <2>5. Parent(b) \in Block /\ Len(Parent(b)) = Len(b) - 1
          BY Zenon, <2>3, <2>4, PrefixType
    <2> QED BY <2>1, <2>2, <2>4, <2>5
  <1> QED BY <1>1, <1>2

\* Genesis is a block of height 0.
LEMMA GenesisType == Genesis \in Block /\ Len(Genesis) = 0
  BY EmptySeq DEF Genesis, Block

\* The epoch after a KBlock, and the one the committee is sorted for, are natural
\* numbers, and getRoundProposer always names a member of the committee.
LEMMA EpochType == \A k \in Block : EpochAfter(k) \in Nat
  BY ParentType DEF EpochAfter, Header

LEMMA ProposerType ==
    ASSUME NEW s \in State, NEW round \in Nat
    PROVE  Committee(s) \in Nat /\ getRoundProposer(s, round) \in Replicas
  <1>1. s.curK \in Block BY DEF State
  <1>2. Committee(s) \in Nat BY <1>1, EpochType DEF Committee
  <1> HIDE DEF Committee
  <1> QED BY <1>2, PacemakerAssumption DEF getRoundProposer, Replicas

\* A block's round is a natural number.
LEMMA RoundType == \A b \in Block : Round(b) \in Nat
  BY ParentType DEF Round, Header

\* A block's height is a natural number.
LEMMA BlockLen == \A b \in Block : Len(b) \in Nat
  BY LenProperties DEF Block

\* An ancestor of b is found on b's path, below b unless it is b.
LEMMA StrictPrefix ==
    ASSUME NEW a \in Block, NEW b \in Block, IsPrefix(a, b)
    PROVE  /\ Len(a) \in 0 .. Len(b)
           /\ a = SubSeq(b, 1, Len(a))
           /\ a # b => Len(a) < Len(b)
  <1>1. Len(a) <= Len(b) /\ SubSeq(a, 1, Len(a)) = SubSeq(b, 1, Len(a))
        BY DEF IsPrefix
  <1> QED BY <1>1, FullPrefix, BlockLen

\* A nonempty set of blocks of bounded length has a longest block.
LEMMA LongestExists ==
    ASSUME NEW S \in SUBSET Block, S # {}, NEW n \in Nat,
           \A a \in S : Len(a) <= n
    PROVE  Longest(S) \in S
  <1> DEFINE T == {n - Len(a) : a \in S}
  <1>1. T \subseteq Nat /\ T # {} BY BlockLen
  <1>2. PICK x \in T : \A y \in T : ~(<<y, x>> \in OpToRel(<, Nat))
        BY Zenon, <1>1, WFMin, NatLessThanWellFounded
  <1>3. PICK b \in S : x = n - Len(b) BY Zenon, <1>2
  <1>4. \A a \in S : Len(a) <= Len(b)
    <2> SUFFICES ASSUME NEW a \in S PROVE Len(a) <= Len(b) OBVIOUS
    <2>1. n - Len(a) \in T OBVIOUS
    <2>2. ~(n - Len(a) < n - Len(b))
          BY Zenon, <1>1, <1>2, <1>3, <2>1 DEF OpToRel
    <2> QED BY <2>2, BlockLen
  <1> QED BY <1>4 DEF Longest

-----------------------------------------------------------------------------
(* Certificates *)

\* A certificate has at least one voter behind it.
LEMMA CertifiedVoter ==
    ASSUME NEW C, NEW b, CertifiedBy(C, b), b # Genesis
    PROVE  \E r \in Replicas : <<r, b>> \in C
  <1> DEFINE S == {r \in Replicas : <<r, b>> \in C}
  <1>1. MajorityTwoThird(Cardinality(S), N) BY DEF CertifiedBy
  <1>2. CASE S = {}
    <2>1. Cardinality(S) = 0 BY Zenon, <1>2, FS_EmptySet
    <2> QED BY <1>1, <2>1, PacemakerAssumption DEF MajorityTwoThird
  <1> QED BY <1>2

\* The ancestors of a certified block are certified: somebody voted for it.
LEMMA CertifiedPrefix ==
    ASSUME NEW C \in Votes, NEW b \in Block, CertifiedBy(C, b),
           NEW k \in 0 .. Len(b)
    PROVE  CertifiedBy(C, SubSeq(b, 1, k))
  <1>1. CASE k = 0 BY <1>1, EmptyPrefix DEF CertifiedBy
  <1>2. CASE k = Len(b) BY Zenon, <1>2, FullPrefix
  <1>3. CASE k # 0 /\ k # Len(b)
    <2>1. b # Genesis BY <1>3, GenesisType
    <2>2. PICK r \in Replicas : <<r, b>> \in C BY Zenon, <2>1, CertifiedVoter
    <2>3. k \in 1 .. Len(<<r, b>>[2]) - 1 BY <1>3, BlockLen
    <2> QED BY <2>2, <2>3 DEF Votes, AncestorsCertified
  <1> QED BY <1>1, <1>2, <1>3

\* Further votes never take a certificate away.
LEMMA CertifiedMonotone ==
    ASSUME NEW C, NEW D, C \subseteq D, NEW b, CertifiedBy(C, b)
    PROVE  CertifiedBy(D, b)
  <1> DEFINE S == {r \in Replicas : <<r, b>> \in C}
             T == {r \in Replicas : <<r, b>> \in D}
  <1>1. CASE b = Genesis BY <1>1 DEF CertifiedBy
  <1>2. CASE b # Genesis
    <2>1. MajorityTwoThird(Cardinality(S), N) BY <1>2 DEF CertifiedBy
    <2>2. S \in SUBSET T /\ T \in SUBSET Replicas OBVIOUS
    <2>3. MajorityTwoThird(Cardinality(T), N) BY Zenon, <2>1, <2>2, VotersMonotone
    <2> QED BY <2>3 DEF CertifiedBy
  <1> QED BY <1>1, <1>2

-----------------------------------------------------------------------------
(* The internals of the pacemaker *)

\* A well-typed state of replica r that owes nothing to the votes C.
Good(C, r, s) == s \in State /\ SafeReplica(C, r, s)

\* A panic leaves the rest of the state alone.
LEMMA PanicGood ==
    ASSUME NEW C, NEW r, NEW s, Good(C, r, s)
    PROVE  Good(C, r, Panic(s))
  <1>1. Panic(s) \in State BY DEF Good, State, Panic
  <1>2. SafeReplica(C, r, Panic(s)) BY DEF Good, State, SafeReplica, Panic
  <1> QED BY <1>1, <1>2 DEF Good

\* UpdateQCHigh keeps a replica good when the new QC is certified.
LEMMA UpdateQCHighGood ==
    ASSUME NEW C, NEW r, NEW s, Good(C, r, s), NEW q \in Block, CertifiedBy(C, q),
           NEW node \in Block \cup {NoBlock}
    PROVE  Good(C, r, UpdateQCHigh(s, q, node))
  <1> DEFINE copy == ~HasDraft(s, q)
             t == [s EXCEPT !.qc = q, !.qcNode = node, !.qcCopy = copy]
  <1>0. UpdateQCHigh(s, q, node) \in {s, t, Panic(s)} BY DEF UpdateQCHigh
  <1>1. copy \in BOOLEAN OBVIOUS
  <1> HIDE DEF copy
  <1>2. t \in State
    <2>1. CASE copy = TRUE BY ZenonT(40), <2>1 DEF Good, State
    <2>2. CASE copy = FALSE BY ZenonT(40), <2>2 DEF Good, State
    <2> QED BY ZenonT(40), <1>1, <2>1, <2>2
  <1>3. SafeReplica(C, r, t) BY DEF Good, State, SafeReplica
  <1> QED BY <1>0, <1>2, <1>3, PanicGood DEF Good

\* GetDraftByEscortQC answers with a certified block or nil: its fallback
\* reads the best chain, which is certified too.
LEMMA EscortQCGood ==
    ASSUME NEW C \in Votes, NEW r, NEW s, Good(C, r, s), NEW q \in Block,
           CertifiedBy(C, q)
    PROVE  /\ GetDraftByEscortQC(s, q) \in Block \cup {NoBlock}
           /\ GetDraftByEscortQC(s, q) # NoBlock =>
                 /\ GetDraftByEscortQC(s, q) \in Block
                 /\ CertifiedBy(C, GetDraftByEscortQC(s, q))
  <1>1. s.best \in Block /\ CertifiedBy(C, s.best)
        BY DEF Good, State, SafeReplica
  <1>2. CASE HasDraft(s, q) BY <1>2 DEF GetDraftByEscortQC
  <1>3. CASE ~HasDraft(s, q) /\ Len(q) <= Len(s.best)
    <2>1. Len(q) \in 0 .. Len(s.best) BY <1>1, <1>3, BlockLen
    <2>2. SubSeq(s.best, 1, Len(q)) \in Block BY <1>1, <2>1, PrefixType
    <2>3. CertifiedBy(C, SubSeq(s.best, 1, Len(q))) BY <1>1, <2>1, CertifiedPrefix
    <2> QED BY <1>3, <2>2, <2>3 DEF GetDraftByEscortQC
  <1>4. CASE ~HasDraft(s, q) /\ ~(Len(q) <= Len(s.best))
        BY <1>4 DEF GetDraftByEscortQC
  <1> QED BY <1>2, <1>3, <1>4

\* commitBlock stops on the path up to b', below b'.
LEMMA commitBlockOnPath ==
    ASSUME NEW s \in State, NEW bPrime \in Block,
           NEW tried \in SUBSET CommitReady(s, bPrime)
    PROVE  \/ commitBlock(s, tried) = s.best
           \/ \E k \in 1 .. Len(bPrime) - 1 :
                  commitBlock(s, tried) = SubSeq(bPrime, 1, k)
  <1> DEFINE added == {b \in tried : IsStrictPrefix(s.best, b) /\
                \A k \in Len(s.best) + 1 .. Len(b) : SubSeq(b, 1, k) \in tried}
  <1>1. Len(bPrime) \in Nat /\ Len(s.lastCommitted) \in Nat
        BY BlockLen DEF State
  <1>2. \A b \in tried : \E k \in 1 .. Len(bPrime) - 1 : b = SubSeq(bPrime, 1, k)
        BY <1>1 DEF CommitReady
  <1>3. \A b \in tried : b \in Block /\ Len(b) <= Len(bPrime)
    <2> SUFFICES ASSUME NEW b \in tried
                 PROVE  b \in Block /\ Len(b) <= Len(bPrime)
          OBVIOUS
    <2>1. PICK k \in 1 .. Len(bPrime) - 1 : b = SubSeq(bPrime, 1, k) BY <1>2
    <2>2. k \in 0 .. Len(bPrime) BY <1>1, <2>1
    <2> QED BY <1>1, <2>1, <2>2, PrefixType
  <1>4. CASE added = {} BY <1>4 DEF commitBlock
  <1>5. CASE added # {}
    <2>1. added \in SUBSET Block /\ \A b \in added : Len(b) <= Len(bPrime)
          BY <1>3
    <2>2. Longest(added) \in added BY Zenon, <1>1, <1>5, <2>1, LongestExists
    <2>3. commitBlock(s, tried) = Longest(added) BY <1>5 DEF commitBlock
    <2> QED BY Zenon, <1>2, <2>2, <2>3
  <1> QED BY <1>4, <1>5

\* Replacing the draft space keeps the state's type.
LEMMA DraftsState ==
    ASSUME NEW s \in State, NEW drafts \in SUBSET Block,
           NEW flags \in SUBSET (Block \X Flags)
    PROVE  [s EXCEPT !.drafts = drafts, !.flags = flags] \in State
  BY ZenonT(40) DEF State

\* PruneDraftsUpTo only removes drafts, and keeps the flag of genesis.
LEMMA PruneGood ==
    ASSUME NEW C, NEW r, NEW s, Good(C, r, s), NEW b
    PROVE  Good(C, r, PruneDraftsUpTo(s, b))
  <1> DEFINE keep == {d \in s.drafts : Len(d) > Len(b) \/ d = b}
             committed == {d \in {b} : HasDraft(s, b)} \X {"committed"}
             flags == {f \in s.flags : f[1] \in keep} \cup committed
             t == [s EXCEPT !.drafts = keep, !.flags = flags]
  <1>1. keep \in SUBSET Block BY DEF Good, State
  <1>2. flags \in SUBSET (Block \X Flags) BY DEF Good, State, Flags, HasDraft
  <1>3. Genesis \in keep => <<Genesis, "committed">> \in flags
        BY DEF Good, SafeReplica
  <1>4. keep \subseteq s.drafts OBVIOUS
  <1> HIDE DEF keep, flags
  <1>5. t \in State BY Zenon, <1>1, <1>2, DraftsState DEF Good
  <1>6. t.drafts = keep /\ t.flags = flags BY DEF Good, State
  <1>7. SafeReplica(C, r, t) BY <1>3, <1>4, <1>6 DEF Good, State, SafeReplica
  <1>8. PruneDraftsUpTo(s, b) \in {t, Panic(s)}
        BY DEF PruneDraftsUpTo, Good, State, keep, flags
  <1> QED BY <1>5, <1>7, <1>8, PanicGood DEF Good

\* A proper ancestor of a certified block has a certified child.
LEMMA PrefixHasChild ==
    ASSUME NEW C \in Votes, NEW b \in Block, CertifiedBy(C, b),
           NEW k \in 0 .. Len(b) - 1
    PROVE  HasCertifiedChild(C, SubSeq(b, 1, k))
  <1> DEFINE child == SubSeq(b, 1, k + 1)
  <1>1. k + 1 \in 0 .. Len(b) /\ k \in 0 .. k + 1 /\ k \in 0 .. Len(b)
        BY BlockLen
  <1>2. child \in Block /\ Len(child) = k + 1 BY <1>1, PrefixType
  <1>3. child # Genesis BY <1>2, GenesisType
  <1>4. CertifiedBy(C, child) BY <1>1, CertifiedPrefix
  <1>5. Parent(child) = SubSeq(b, 1, k)
    <2> HIDE DEF child
    <2>1. Parent(child) = SubSeq(child, 1, Len(child) - 1)
          BY <1>2, <1>3, ParentType
    <2>2. Len(child) - 1 = k BY <1>2
    <2> QED BY <1>1, <2>1, <2>2, PrefixOfPrefix DEF child
  <1>6. PICK v \in Replicas : <<v, child>> \in C BY Zenon, <1>3, <1>4, CertifiedVoter
  <1> HIDE DEF child
  <1> QED BY <1>3, <1>4, <1>5, <1>6 DEF HasCertifiedChild

\* Moving best and scheduling a Regulate keeps the state's type.
LEMMA CommitState ==
    ASSUME NEW s \in State, NEW best \in Block, NEW cmd \in BOOLEAN
    PROVE  [s EXCEPT !.best = best, !.cmd = cmd] \in State
  <1>1. [s EXCEPT !.best = best, !.cmd = TRUE] \in State BY ZenonT(40) DEF State
  <1>2. [s EXCEPT !.best = best, !.cmd = FALSE] \in State BY ZenonT(40) DEF State
  <1> QED BY Zenon, <1>1, <1>2

\* OnCommit moves best to a block below b', which has a certified child.
LEMMA OnCommitGood ==
    ASSUME NEW C \in Votes, NEW r, NEW s, Good(C, r, s), NEW bPrime \in Block,
           CertifiedBy(C, bPrime)
    PROVE  Good(C, r, OnCommit(s, CommitReady(s, bPrime)))
  <1> DEFINE all   == Committing(s, CommitReady(s, bPrime))
             tried == {b \in all : \A a \in all : Len(a) < Len(b) => ~StoredSibling(s, a)}
             best  == commitBlock(s, tried)
             cmd   == s.cmd \/ \E b \in tried : EndsEpoch(s, b)
             done  == [s EXCEPT !.best = best, !.cmd = cmd]
  <1>1. s \in State /\ s.best \in Block BY DEF Good, State
  <1>2. tried \in SUBSET CommitReady(s, bPrime) BY DEF Committing
  <1>3. best \in Block /\ CertifiedBy(C, best) /\ HasCertifiedChild(C, best)
    <2>1. CASE best = s.best BY <1>1, <2>1 DEF Good, SafeReplica
    <2>2. CASE best # s.best
      <3> PICK k \in 1 .. Len(bPrime) - 1 : best = SubSeq(bPrime, 1, k)
          BY ZenonT(40), <1>1, <1>2, <2>2, commitBlockOnPath
      <3>1. k \in 0 .. Len(bPrime) /\ k \in 0 .. Len(bPrime) - 1 BY BlockLen
      <3> HIDE DEF best
      <3> QED BY <3>1, PrefixType, CertifiedPrefix, PrefixHasChild
    <2> QED BY <2>1, <2>2
  <1>4. cmd \in BOOLEAN OBVIOUS
  <1> HIDE DEF best, cmd
  <1>5. done \in State BY Zenon, <1>1, <1>3, <1>4, CommitState
  <1>6. SafeReplica(C, r, done) BY <1>3 DEF Good, State, SafeReplica
  <1>7. Good(C, r, PruneDraftsUpTo(done, Longest(tried)))
        BY <1>5, <1>6, PruneGood DEF Good
  <1>8. OnCommit(s, CommitReady(s, bPrime)) \in
            {s, PruneDraftsUpTo(done, Longest(tried))}
        BY DEF OnCommit, best, cmd
  <1> QED BY <1>7, <1>8

\* Moving lastCommitted keeps the state's type.
LEMMA LastCommittedState ==
    ASSUME NEW s \in State, NEW b \in Block, NEW flags \in SUBSET (Block \X Flags)
    PROVE  [s EXCEPT !.lastCommitted = b, !.flags = flags] \in State
  BY ZenonT(40) DEF State

\* Update with a certified QC keeps a replica good.
LEMMA UpdateGood ==
    ASSUME NEW C \in Votes, NEW r, NEW s, Good(C, r, s), NEW q \in Block,
           CertifiedBy(C, q)
    PROVE  Good(C, r, Update(s, q))
  <1> DEFINE bPrime == GetDraftByEscortQC(s, q)
             s1 == UpdateQCHigh(s, q, bPrime)
             s2 == OnCommit(s1, CommitReady(s1, bPrime))
             flags == s2.flags \ {<<bPrime, "cut">>}
             s3 == [s2 EXCEPT !.lastCommitted = Parent(bPrime), !.flags = flags]
  <1>1. CASE bPrime = NoBlock BY <1>1 DEF Update
  <1>2. CASE bPrime # NoBlock
    <2>1. bPrime \in Block /\ CertifiedBy(C, bPrime) BY <1>2, EscortQCGood
    <2> HIDE DEF bPrime
    <2>2. Good(C, r, s1) BY <2>1, UpdateQCHighGood
    <2> HIDE DEF s1
    <2>3. Good(C, r, s2) BY <2>1, <2>2, OnCommitGood
    <2> HIDE DEF s2
    <2>4. Parent(bPrime) \in Block BY <2>1, ParentType
    <2>5. flags \in SUBSET (Block \X Flags) /\ flags \subseteq s2.flags
          BY <2>3 DEF Good, State
    <2>6. Genesis \in s2.drafts => <<Genesis, "committed">> \in flags
          BY <2>3 DEF Good, SafeReplica
    <2>7. Update(s, q) \in {s, Panic(s), s1, Panic(s1), s3}
          BY DEF Update, bPrime, s1, s2
    <2> HIDE DEF flags
    <2>8. s3 \in State /\ SafeReplica(C, r, s3)
      <3>1. s3 \in State BY Zenon, <2>3, <2>4, <2>5, LastCommittedState DEF Good
      <3>2. SafeReplica(C, r, s3) BY <2>3, <2>6 DEF Good, State, SafeReplica
      <3> QED BY <3>1, <3>2
    <2> HIDE DEF s3
    <2> QED BY <2>2, <2>7, <2>8, PanicGood DEF Good
  <1> QED BY <1>1, <1>2

\* enterRound keeps a replica good.
LEMMA enterRoundGood ==
    ASSUME NEW C, NEW r, NEW s, Good(C, r, s), NEW round \in Nat
    PROVE  Good(C, r, enterRound(s, round))
  <1> DEFINE t == [s EXCEPT !.round = round,
                            !.timer = [epoch |-> s.epoch, round |-> round]]
  <1>1. [epoch |-> s.epoch, round |-> round] \in Tick BY DEF Good, State, Tick
  <1>2. t \in State BY Zenon, <1>1 DEF Good, State
  <1>3. SafeReplica(C, r, t) BY DEF Good, State, SafeReplica
  <1>4. enterRound(s, round) \in {s, t} BY DEF enterRound
  <1> QED BY <1>2, <1>3, <1>4 DEF Good

\* scheduleOnBeat keeps a replica good.
LEMMA scheduleOnBeatGood ==
    ASSUME NEW C, NEW r, NEW s, Good(C, r, s), NEW round \in Nat
    PROVE  Good(C, r, scheduleOnBeat(s, round))
  <1> DEFINE t == scheduleOnBeat(s, round)
  <1>1. [epoch |-> s.epoch, round |-> round] \in Tick BY DEF Good, State, Tick
  <1>2. t \in State BY <1>1 DEF Good, State, scheduleOnBeat
  <1>3. SafeReplica(C, r, t) BY DEF Good, State, SafeReplica, scheduleOnBeat
  <1> QED BY <1>2, <1>3 DEF Good

\* scheduleRegulate, at the head of mainLoop or elsewhere, keeps it good.
LEMMA LoopHeadGood ==
    ASSUME NEW C, NEW r, NEW s, Good(C, r, s)
    PROVE  Good(C, r, scheduleRegulate(s)) /\ Good(C, r, LoopHead(s))
  <1>1. scheduleRegulate(s) \in State BY Zenon DEF Good, State, scheduleRegulate
  <1>2. SafeReplica(C, r, scheduleRegulate(s))
        BY DEF Good, State, SafeReplica, scheduleRegulate
  <1> QED BY <1>1, <1>2 DEF Good, LoopHead

\* Adding a draft with a certified parent keeps a replica good.
LEMMA AddDraftGood ==
    ASSUME NEW C, NEW r, NEW s, Good(C, r, s), NEW b \in Block, b # Genesis,
           CertifiedBy(C, Parent(b)), NEW fl \in SUBSET Flags
    PROVE  Good(C, r, AddDraft(s, b, fl))
  <1> DEFINE drafts == s.drafts \cup {b}
             flags == s.flags \cup ({b} \X fl)
             t == [s EXCEPT !.drafts = drafts, !.flags = flags]
  <1>1. drafts \in SUBSET Block BY DEF Good, State
  <1>2. flags \in SUBSET (Block \X Flags) BY DEF Good, State
  <1>3. \A d \in drafts : CertifiedBy(C, Parent(d)) BY DEF Good, SafeReplica
  <1>4. Genesis \in drafts => <<Genesis, "committed">> \in flags
        BY DEF Good, SafeReplica
  <1>5. AddDraft(s, b, fl) = t BY DEF AddDraft
  <1> HIDE DEF drafts, flags
  <1>6. t \in State BY Zenon, <1>1, <1>2, DraftsState DEF Good
  <1>7. t.drafts = drafts /\ t.flags = flags BY DEF Good, State
  <1>8. SafeReplica(C, r, t)
        BY <1>3, <1>4, <1>7 DEF Good, State, SafeReplica
  <1> QED BY <1>5, <1>6, <1>8 DEF Good

\* BestKBlock finds a block, or none.
LEMMA BestKBlockType ==
    ASSUME NEW s, s.best \in Block, BestKBlock(s) # NoBlock
    PROVE  BestKBlock(s) \in Block
  <1>1. LastKBlockHeight(s.best) \in Nat
        BY ParentType DEF LastKBlockHeight, Header
  <1> QED BY <1>1, PrefixType, BlockLen DEF BestKBlock

\* UpdateCurEpoch keeps a replica good and leaves best alone.
LEMMA UpdateCurEpochGood ==
    ASSUME NEW C, NEW r, NEW s, Good(C, r, s)
    PROVE  /\ Good(C, r, UpdateCurEpoch(s))
           /\ UpdateCurEpoch(s).best = s.best
  <1> DEFINE bestK == BestKBlock(s)
             epoch == EpochAfter(bestK)
             lastK == Len(bestK)
             t == [s EXCEPT !.epoch = epoch, !.curK = bestK, !.lastK = lastK]
  <1>1. s.best \in Block BY DEF Good, State
  <1>2. CASE bestK = NoBlock BY <1>2 DEF UpdateCurEpoch, EntersEpoch
  <1>3. CASE bestK # NoBlock
    <2>2. bestK \in Block BY <1>1, <1>3, BestKBlockType
    <2> HIDE DEF bestK
    <2>3. epoch \in Nat /\ lastK \in Nat BY <2>2, EpochType, BlockLen
    <2> HIDE DEF epoch, lastK
    <2>4. t \in State BY Zenon, <2>2, <2>3 DEF Good, State
    <2>5. SafeReplica(C, r, t) /\ t.best = s.best BY DEF Good, State, SafeReplica
    <2>6. UpdateCurEpoch(s) \in {s, t} BY DEF UpdateCurEpoch, bestK, epoch, lastK
    <2> HIDE DEF t
    <2> QED BY <2>4, <2>5, <2>6 DEF Good
  <1> QED BY <1>2, <1>3

\* The assignments of Regulate keep the state's type.
LEMMA RegulatedState ==
    ASSUME NEW s \in State, NEW b \in Block, NEW last \in Nat \cup {-1},
           NEW qcVotes \in SUBSET (Block \X Replicas),
           NEW tcVotes \in SUBSET (Tick \X Replicas),
           NEW drafts \in SUBSET Block, NEW flags \in SUBSET (Block \X Flags)
    PROVE  [s EXCEPT !.qcVotes = qcVotes, !.tcVotes = tcVotes,
                     !.lastOnBeatRound = last, !.lastCommitted = b,
                     !.lastVotingHeight = 0, !.lastVote = NoBlock, !.qc = b,
                     !.qcNode = b, !.qcCopy = FALSE, !.drafts = drafts,
                     !.flags = flags, !.round = 0, !.cmd = FALSE, !.run = s.run + 1] \in State
  <1> DEFINE run == s.run + 1
             u == [s EXCEPT !.qcVotes = qcVotes, !.tcVotes = tcVotes,
                            !.lastOnBeatRound = last, !.lastCommitted = b,
                            !.lastVotingHeight = 0, !.lastVote = NoBlock]
             v == [u EXCEPT !.qc = b, !.qcNode = b, !.qcCopy = FALSE]
             w == [v EXCEPT !.drafts = drafts, !.flags = flags]
  <1>1. run \in Nat BY DEF State
  <1> HIDE DEF run
  <1>2. u \in State BY ZenonT(40) DEF State
  <1> HIDE DEF u
  <1>3. v \in State BY ZenonT(40), <1>2 DEF State
  <1> HIDE DEF v
  <1>4. w \in State BY Zenon, <1>3, DraftsState
  <1> HIDE DEF w
  <1>5. [w EXCEPT !.round = 0, !.cmd = FALSE, !.run = run] \in State
        BY ZenonT(40), <1>1, <1>4 DEF State
  <1> QED BY <1>5 DEF u, v, w, run

\* Regulate keeps a replica good: it restarts from the certified best block.
LEMMA RegulateGood ==
    ASSUME NEW C \in Votes, NEW r, NEW s0, Good(C, r, s0)
    PROVE  Good(C, r, Regulate(s0))
  <1> DEFINE s == UpdateCurEpoch(s0)
             first == IsKBlock(s.best) \/ s.best = Genesis
             round == IF first THEN 0 ELSE Round(s.best) + 1
             qcVotes == {v \in s.qcVotes : Len(v[1]) >= Len(s.best)}
             tcVotes == {v \in s.tcVotes : v[1].epoch >= s.epoch}
             drafts == s.drafts \cup {s.best}
             flags == IF HasDraft(s, s.best) THEN s.flags
                      ELSE s.flags \cup ({s.best} \X {"committed", "stored"})
             t == [s EXCEPT !.qcVotes = qcVotes, !.tcVotes = tcVotes,
                            !.lastOnBeatRound = round - 1,
                            !.lastCommitted = s.best, !.lastVotingHeight = 0,
                            !.lastVote = NoBlock, !.qc = s.best,
                            !.qcNode = s.best, !.qcCopy = FALSE,
                            !.drafts = drafts, !.flags = flags, !.round = 0,
                            !.cmd = FALSE, !.run = s.run + 1]
  <1>1. Good(C, r, s) BY UpdateCurEpochGood
  <1>2. Regulate(s0) = scheduleOnBeat(enterRound(t, round), round)
        BY DEF Regulate
  <1> HIDE DEF s
  <1>3. s \in State /\ s.best \in Block /\ SafeReplica(C, r, s)
        BY <1>1 DEF Good, State
  <1>4. round \in Nat BY <1>3, RoundType
  <1>5. round - 1 \in Nat \cup {-1} BY <1>4
  <1>6. qcVotes \in SUBSET (Block \X Replicas) /\ qcVotes \subseteq s.qcVotes
        BY <1>3 DEF State
  <1>7. tcVotes \in SUBSET (Tick \X Replicas) BY <1>3 DEF State
  <1>8. drafts \in SUBSET Block BY <1>3 DEF State
  <1>9. flags \in SUBSET (Block \X Flags) BY <1>3 DEF State, Flags
  <1>10. CertifiedBy(C, Parent(s.best))
    <2>1. CASE s.best = Genesis BY <2>1 DEF Parent, CertifiedBy
    <2>2. CASE s.best # Genesis
      <3>1. Len(s.best) - 1 \in 0 .. Len(s.best) BY <1>3, <2>2, ParentType
      <3>2. CertifiedBy(C, s.best) BY <1>3 DEF SafeReplica
      <3>3. Parent(s.best) = SubSeq(s.best, 1, Len(s.best) - 1)
            BY <1>3, <2>2, ParentType
      <3> QED BY <1>3, <3>1, <3>2, <3>3, CertifiedPrefix
    <2> QED BY <2>1, <2>2
  <1>11. \A d \in drafts : CertifiedBy(C, Parent(d))
         BY <1>3, <1>10 DEF SafeReplica
  <1>12. Genesis \in drafts => <<Genesis, "committed">> \in flags
         BY <1>3 DEF SafeReplica, HasDraft
  <1> HIDE DEF round, qcVotes, tcVotes, drafts, flags
  <1>13. t \in State
         BY Zenon, <1>3, <1>5, <1>6, <1>7, <1>8, <1>9, RegulatedState
  <1>14. SafeReplica(C, r, t)
         BY <1>3, <1>6, <1>11, <1>12 DEF State, SafeReplica
  <1> HIDE DEF t
  <1>15. Good(C, r, enterRound(t, round))
         BY <1>4, <1>13, <1>14, enterRoundGood DEF Good
  <1> QED BY <1>2, <1>4, <1>15, scheduleOnBeatGood

\* A new process that finds a two-chain committed block stored is good.
LEMMA FreshGood ==
    ASSUME NEW C, NEW r, NEW best \in Block, CertifiedBy(C, best),
           HasCertifiedChild(C, best)
    PROVE  Good(C, r, Fresh(best))
  <1>1. Fresh(best) \in State BY GenesisType DEF State, Fresh, Tick, Importer, Idle, Importing
  <1>2. SafeReplica(C, r, Fresh(best)) BY DEF SafeReplica, Fresh, Idle, Importing
  <1> QED BY <1>1, <1>2 DEF Good

-----------------------------------------------------------------------------
(* Votes and messages *)

\* The QC vote manager only counts votes that were cast.
LEMMA AddVoteCast ==
    ASSUME NEW C, NEW r, NEW s, Good(C, r, s), NEW b, NEW v, <<v, b>> \in C
    PROVE  \A w \in AddVote(s.qcVotes, b, v) : <<w[2], w[1]>> \in C
  <1> SUFFICES ASSUME NEW w \in AddVote(s.qcVotes, b, v)
               PROVE  <<w[2], w[1]>> \in C
      BY Zenon
  <1>1. w \in s.qcVotes \/ w = <<b, v>> BY DEF AddVote
  <1>2. CASE w \in s.qcVotes BY <1>2 DEF Good, SafeReplica
  <1>3. CASE w = <<b, v>> BY <1>3
  <1> QED BY <1>1, <1>2, <1>3

\* Counting a vote that was cast keeps a replica good.
LEMMA AddVoteGood ==
    ASSUME NEW C, NEW r, NEW s, Good(C, r, s), NEW b \in Block,
           NEW v \in Replicas, <<v, b>> \in C
    PROVE  Good(C, r, [s EXCEPT !.qcVotes = AddVote(@, b, v)])
  <1> DEFINE votes == AddVote(s.qcVotes, b, v)
             t == [s EXCEPT !.qcVotes = votes]
  <1>1. votes \in SUBSET (Block \X Replicas) BY DEF Good, State, AddVote
  <1>2. \A w \in votes : <<w[2], w[1]>> \in C BY Zenon, AddVoteCast
  <1> HIDE DEF votes
  <1>3. t \in State BY <1>1 DEF Good, State
  <1>4. SafeReplica(C, r, t) BY <1>2 DEF Good, State, SafeReplica
  <1> QED BY <1>3, <1>4 DEF Good, votes

\* A QC the vote manager seals is backed by two thirds of the committee.
LEMMA CertFormedCertified ==
    ASSUME NEW C, NEW r, NEW s, Good(C, r, s), NEW b \in Block,
           NEW v \in Replicas, <<v, b>> \in C, CertFormed(s.qcVotes, b, v)
    PROVE  CertifiedBy(C, b)
  <1> DEFINE votes == AddVote(s.qcVotes, b, v)
             S == {x \in Replicas : <<x, b>> \in C}
  <1>1. \A w \in votes : <<w[2], w[1]>> \in C BY Zenon, AddVoteCast
  <1>2. MajorityTwoThird(Cardinality(Voters(votes, b)), N)
        BY DEF CertFormed, Sealed
  <1>3. \A x \in Voters(votes, b) : x \in Replicas /\ <<b, x>> \in votes
        BY DEF Voters
  <1> HIDE DEF votes
  <1>4. Voters(votes, b) \in SUBSET S BY Zenon, <1>1, <1>3
  <1>5. MajorityTwoThird(Cardinality(S), N) BY Zenon, <1>2, <1>4, VotersMonotone
  <1> QED BY <1>5 DEF CertifiedBy

\* What states and messages owe to the votes stays paid when votes are added.
LEMMA SafeMonotone ==
    ASSUME NEW C, NEW D, C \subseteq D
    PROVE  /\ \A r, s : SafeReplica(C, r, s) => SafeReplica(D, r, s)
           /\ \A m : SafeMessage(C, m) => SafeMessage(D, m)
  <1>1. \A b : CertifiedBy(C, b) => CertifiedBy(D, b) BY CertifiedMonotone
  <1>2. \A b : HasCertifiedChild(C, b) => HasCertifiedChild(D, b)
        BY <1>1 DEF HasCertifiedChild
  <1>3. ASSUME NEW r, NEW s, SafeReplica(C, r, s) PROVE SafeReplica(D, r, s)
        BY <1>1, <1>2, <1>3 DEF SafeReplica
  <1>4. ASSUME NEW m, SafeMessage(C, m) PROVE SafeMessage(D, m)
        BY <1>1, <1>4 DEF SafeMessage
  <1> QED BY <1>3, <1>4

\* A vote for a block with a certified parent keeps all ancestors certified.
LEMMA VoteExtends ==
    ASSUME NEW C \in Votes, NEW r \in Replicas, NEW b \in Block, b # Genesis,
           CertifiedBy(C, Parent(b))
    PROVE  C \cup {<<r, b>>} \in Votes
  <1> DEFINE D == C \cup {<<r, b>>}
  <1>1. C \subseteq D /\ D \in SUBSET (Replicas \X Block) BY DEF Votes
  <1>2. SUFFICES ASSUME NEW v \in D, NEW k \in 1 .. Len(v[2]) - 1
                 PROVE  CertifiedBy(D, SubSeq(v[2], 1, k))
        BY Zenon, <1>1 DEF Votes, AncestorsCertified
  <1>3. CASE v \in C
        BY <1>1, <1>3, CertifiedMonotone DEF Votes, AncestorsCertified
  <1>4. CASE v = <<r, b>>
    <2>1. k \in 1 .. Len(b) - 1 BY <1>4
    <2>2. /\ Parent(b) \in Block /\ Len(Parent(b)) = Len(b) - 1
          /\ Parent(b) = SubSeq(b, 1, Len(b) - 1)
          /\ Len(b) \in Nat
          BY ParentType
    <2>3. k \in 0 .. Len(Parent(b)) BY <2>1, <2>2
    <2>4. CertifiedBy(C, SubSeq(Parent(b), 1, k)) BY Zenon, <2>2, <2>3, CertifiedPrefix
    <2>5. Len(b) - 1 \in 0 .. Len(b) /\ k \in 0 .. Len(b) - 1 BY <2>1, <2>2
    <2>6. SubSeq(Parent(b), 1, k) = SubSeq(b, 1, k)
          BY <2>2, <2>5, PrefixOfPrefix
    <2> QED BY Zenon, <1>1, <1>4, <2>4, <2>6, CertifiedMonotone
  <1> QED BY <1>3, <1>4

\* The types of the fields of a message.
LEMMA MessageFields ==
    ASSUME NEW m \in Message
    PROVE  /\ m.from \in Replicas /\ m.to \in Replicas
           /\ m.epoch \in Nat /\ m.com \in Nat
           /\ m.type = "proposal" => m.block \in Block
           /\ m.type = "vote" => m.block \in Block
           /\ m.type = "timeout" => /\ m.wish \in Nat /\ m.qc \in Block
                                    /\ m.lastVote \in Block \cup {NoBlock}
  BY DEF Message

\* Broadcasting a block with a certified parent sends safe proposals.
LEMMA BroadcastSafe ==
    ASSUME NEW C, NEW r \in Replicas, NEW b \in Block, b # Genesis,
           CertifiedBy(C, Parent(b))
    PROVE  \A m \in Broadcast(r, b) : m \in Message /\ SafeMessage(C, m)
  <1> SUFFICES ASSUME NEW to \in Replicas
               PROVE  /\ Proposal(r, to, b) \in Message
                      /\ SafeMessage(C, Proposal(r, to, b))
      BY DEF Broadcast
  <1>1. Last(b).epoch \in Nat /\ Last(b).com \in Nat BY ParentType DEF Header
  <1>2. Proposal(r, to, b) \in Message BY <1>1 DEF Proposal, Message
  <1>3. SafeMessage(C, Proposal(r, to, b)) BY DEF SafeMessage, Proposal
  <1> QED BY <1>2, <1>3
=============================================================================
