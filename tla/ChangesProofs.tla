---------------------------- MODULE ChangesProofs ----------------------------
(***************************************************************************)
(* Proofs about Changes for every set of share ids, every drift between    *)
(* what is stored and what a collector answers, and every bound: the       *)
(* recorded fields add up to the stored snapshot, and a recorded change is *)
(* as severe as the worst thing that happened between its two documents;   *)
(* and who is credited with a change made it, and is found if he can be.   *)
(*                                                                         *)
(* The work is in the lemmas about Diff: which paths it holds (DeviceDiff, *)
(* DetailDiff, PathsOfElements), that it misses no difference              *)
(* (DiffIsComplete), that applying its paths to the old document gives the *)
(* new one (Rebuilds), and that cutting it off at MaxFields leaves a path  *)
(* (KeptNonempty).                                                         *)
(*                                                                         *)
(* Credit rests on CreditInv: what differs between the stored snapshot, an *)
(* answer under way and the device was edited by entries of the audit log  *)
(* between the positions they are of (DifferencesEdited), and those        *)
(* entries are not before the search (EditsInReach).  The last lemmas      *)
(* compare the edits with the paths that are shown: an edit of one of them *)
(* explains the change (TouchExplains), an entry that explains it made one *)
(* or is one of the three that fit without (ExplainerTouches), and came    *)
(* after the snapshot (CreditAfterBase).                                   *)
(***************************************************************************)
EXTENDS Changes, FiniteSetTheorems, FunctionTheorems, NaturalsInduction, TLAPS

----------------------------------------------------------------------------
(* Least and greatest elements *)

LEMMA LeastOfNaturals ==
  ASSUME NEW S \in SUBSET Nat, S # {}
  PROVE  \E x \in S : \A y \in S : x <= y
<1>1. \E x \in S : \A y \in S : ~ (<<y, x>> \in OpToRel(<, Nat))
  BY NatLessThanWellFounded, WFMin
<1>2. \A x, y \in Nat : <<y, x>> \notin OpToRel(<, Nat) => x <= y
  BY DEF OpToRel
<1> QED BY <1>1, <1>2

\* Max of a set of severities.
LEMMA MaxOfThree ==
  ASSUME NEW S \in SUBSET (1..3), S # {}
  PROVE  Max(S) \in S /\ \A y \in S : y <= Max(S)
<1>1. \E x \in S : \A y \in S : x >= y
  <2>1. CASE 3 \in S
    <3>1. \A y \in S : 3 >= y  OBVIOUS
    <3> QED BY <2>1, <3>1
  <2>2. CASE 3 \notin S /\ 2 \in S
    <3>1. \A y \in S : 2 >= y  BY <2>2
    <3> QED BY <2>2, <3>1, Zenon
  <2>3. CASE 3 \notin S /\ 2 \notin S
    <3>1. \A y \in S : y = 1  BY <2>3
    <3>2. PICK x \in S : TRUE  OBVIOUS
    <3> QED BY <3>1, <3>2
  <2> QED BY <2>1, <2>2, <2>3
<1> QED BY <1>1 DEF Max

----------------------------------------------------------------------------
(* The paths that are kept *)

Names == {"", "accepted", "allowExitNode", "authorized", "clientVersion",
          "deviceInvites", "lastEmailSentAt", "postureAttributes", "tags"}
Paths == Names \X Nat \X Names

LEMMA RankIsNat == Rank \in [Names -> Nat]
<1>1. DOMAIN Alphabet = 1..9  BY DEF Alphabet
<1>0. /\ Alphabet[1] = "" /\ Alphabet[2] = "accepted" /\ Alphabet[3] = "allowExitNode"
      /\ Alphabet[4] = "authorized" /\ Alphabet[5] = "clientVersion"
      /\ Alphabet[6] = "deviceInvites" /\ Alphabet[7] = "lastEmailSentAt"
      /\ Alphabet[8] = "postureAttributes" /\ Alphabet[9] = "tags"
  BY DEF Alphabet
<1>2. \A i \in 1..9 : Alphabet[i] \in Names
  <2> TAKE i \in 1..9
  <2>1. \/ i = 1 \/ i = 2 \/ i = 3 \/ i = 4 \/ i = 5 \/ i = 6 \/ i = 7 \/ i = 8 \/ i = 9
    OBVIOUS
  <2> QED BY <1>0, <2>1 DEF Names
<1>3. \A n \in Names : \E i \in 1..9 : Alphabet[i] = n
  <2>1. 1..9 = {1, 2, 3, 4, 5, 6, 7, 8, 9}  OBVIOUS
  <2> QED BY <1>0, <2>1, Zenon DEF Names
<1>4. {Alphabet[i] : i \in DOMAIN Alphabet} = Names  BY <1>1, <1>2, <1>3
<1>5. \A n \in Names : (CHOOSE i \in 1..9 : Alphabet[i] = n) \in 1..9  BY <1>3
<1> QED BY <1>1, <1>4, <1>5 DEF Rank

\* No path precedes every path: some path comes first.
LEMMA FirstPath ==
  ASSUME NEW P \in SUBSET Paths, P # {}
  PROVE  \E m \in P : \A q \in P : ~ Precedes(q, m)
<1> USE RankIsNat
<1>1. \A p \in P : p[1] \in Names /\ p[2] \in Nat /\ p[3] \in Names  BY DEF Paths
<1>2. \A p \in P : Rank[p[1]] \in Nat /\ Rank[p[3]] \in Nat  BY <1>1
<1> DEFINE A == {Rank[p[1]] : p \in P}
<1>3. PICK a \in P : \A q \in P : Rank[a[1]] <= Rank[q[1]]
  <2>1. A \in SUBSET Nat /\ A # {}  BY <1>2
  <2>2. \E x \in A : \A y \in A : x <= y
    <3> HIDE DEF A
    <3> QED BY <2>1, LeastOfNaturals
  <2> QED BY <2>2
<1> DEFINE PB == {p \in P : p[1] = a[1]}
<1> DEFINE B == {p[2] : p \in PB}
<1>4. PICK b \in PB : \A q \in PB : b[2] <= q[2]
  <2>1. B \in SUBSET Nat /\ B # {}  BY <1>1
  <2>2. \E x \in B : \A y \in B : x <= y
    <3> HIDE DEF B
    <3> QED BY <2>1, LeastOfNaturals
  <2> QED BY <2>2
<1> DEFINE PC == {p \in PB : p[2] = b[2]}
<1> DEFINE C == {Rank[p[3]] : p \in PC}
<1>5. PICK c \in PC : \A q \in PC : Rank[c[3]] <= Rank[q[3]]
  <2>1. C \in SUBSET Nat /\ C # {}  BY <1>2
  <2>2. \E x \in C : \A y \in C : x <= y
    <3> HIDE DEF C
    <3> QED BY <2>1, LeastOfNaturals
  <2> QED BY <2>2
<1>6. c \in P /\ c[1] = a[1] /\ c[2] = b[2]  OBVIOUS
<1>7. ASSUME NEW q \in P PROVE ~ Precedes(q, c)
  <2>1. Rank[c[1]] <= Rank[q[1]] /\ Rank[c[1]] \in Nat /\ Rank[q[1]] \in Nat  BY <1>2, <1>3, <1>6
  <2>2. q[1] = c[1] => c[2] <= q[2] /\ c[2] \in Nat /\ q[2] \in Nat  BY <1>1, <1>4, <1>6
  <2>3. q[1] = c[1] /\ q[2] = c[2] => Rank[c[3]] <= Rank[q[3]]  BY <1>5, <1>6
  <2>4. Rank[c[3]] \in Nat /\ Rank[q[3]] \in Nat  BY <1>2, <1>6
  <2> HIDE DEF PB, PC
  <2> QED BY <2>1, <2>2, <2>3, <2>4 DEF Precedes
<1> QED BY <1>6, <1>7

\* Cutting the paths off leaves the first of them.
LEMMA KeptNonempty ==
  ASSUME NEW P \in SUBSET Paths, P # {}
  PROVE  Kept(P) # {} /\ Kept(P) \subseteq P
<1>1. PICK m \in P : \A q \in P : ~ Precedes(q, m)  BY FirstPath
<1>2. {q \in P : Precedes(q, m)} = {}  BY <1>1
<1>3. Cardinality({q \in P : Precedes(q, m)}) = 0  BY <1>2, FS_EmptySet
<1>4. MaxFields \in Nat \ {0}  BY ChangesAssumption
<1>5. 0 < MaxFields  BY <1>4
<1>6. CASE Cardinality(P) <= MaxFields  BY <1>6 DEF Kept
<1>7. CASE ~ (Cardinality(P) <= MaxFields)
  <2>1. Kept(P) = {p \in P : Cardinality({q \in P : Precedes(q, p)}) < MaxFields}
    BY <1>7 DEF Kept
  <2>2. m \in Kept(P)  BY <1>3, <1>5, <2>1
  <2> QED BY <2>1, <2>2
<1> QED BY <1>6, <1>7

----------------------------------------------------------------------------
(* Share lists *)

LEMMA ListedOfList ==
  ASSUME NEW v \in Lists
  PROVE  /\ Listed(v) \in SUBSET Invites
         /\ IsList(v) => Listed(v) = v
         /\ ~ IsList(v) => Listed(v) = {}
         /\ Listed(Listed(v)) = Listed(v)
         /\ \A id : Element(Listed(v), id) = Element(v, id)
<1>1. /\ Listed(v) \in SUBSET Invites
      /\ IsList(v) => Listed(v) = v
      /\ ~ IsList(v) => Listed(v) = {}
  BY DEF Lists, Listed, IsList
<1>2. Listed(Listed(v)) = Listed(v)
  <2>1. CASE IsList(v)  BY <1>1, <2>1
  <2>2. CASE ~ IsList(v)
    <3>1. Listed(v) = {}  BY <1>1, <2>2
    <3>2. Listed({}) = {}  BY DEF Listed
    <3> QED BY <3>1, <3>2
  <2> QED BY <2>1, <2>2
<1>3. \A id : Element(Listed(v), id) = Element(v, id)  BY <1>2 DEF Element
<1> QED BY <1>1, <1>2, <1>3

LEMMA ElementIs ==
  ASSUME NEW v \in Lists
  PROVE  /\ \A id : \/ Element(v, id) = Missing
                    \/ /\ Element(v, id) \in Listed(v) /\ Element(v, id) \in Invites
                       /\ Element(v, id) # Missing /\ Element(v, id).id = id
         /\ IdentifiedBy(Listed(v)) =>
              \A e \in Listed(v) : /\ Element(v, e.id) = e
                                   /\ e \in Invites /\ e # Missing /\ e.id \in Ids
<1>1. Missing \notin Invites  BY ChangesAssumption
<1>2. Listed(v) \in SUBSET Invites  BY ListedOfList
<1>3. ASSUME NEW id
      PROVE  \/ Element(v, id) = Missing
             \/ /\ Element(v, id) \in Listed(v) /\ Element(v, id) \in Invites
                /\ Element(v, id) # Missing /\ Element(v, id).id = id
  <2>1. CASE \E e \in Listed(v) : e.id = id
    <3>1. Element(v, id) = CHOOSE e \in Listed(v) : e.id = id  BY <2>1 DEF Element
    <3>2. Element(v, id) \in Listed(v) /\ Element(v, id).id = id  BY <2>1, <3>1
    <3> QED BY <1>1, <1>2, <3>2
  <2>2. CASE ~ \E e \in Listed(v) : e.id = id  BY <2>2 DEF Element
  <2> QED BY <2>1, <2>2
<1>4. ASSUME IdentifiedBy(Listed(v)), NEW e \in Listed(v)
      PROVE  Element(v, e.id) = e /\ e \in Invites /\ e # Missing /\ e.id \in Ids
  <2>1. e \in Invites /\ e # Missing  BY <1>1, <1>2
  <2>2. e.id \in Ids \cup {0}  BY <2>1 DEF Invites
  <2>3. e.id \in Ids  BY <1>4, <2>2 DEF IdentifiedBy
  <2>4. Element(v, e.id) = CHOOSE f \in Listed(v) : f.id = e.id  BY DEF Element
  <2>5. \A f \in Listed(v) : f.id = e.id => f = e  BY <1>4 DEF IdentifiedBy
  <2>6. Element(v, e.id) = e  BY <2>4, <2>5
  <2> QED BY <2>1, <2>3, <2>6
<1> QED BY <1>3, <1>4

\* The paths of two lists that are compared element by element.
LEMMA PathsOfElements ==
  ASSUME NEW a \in Lists, NEW b \in Lists, ArrayIdentity(a, b)
  PROVE  /\ \A id \in Ids :
              <<"deviceInvites", id, "">> \in InvitePaths(a, b)
                <=> ~ (Element(a, id) = Missing <=> Element(b, id) = Missing)
         /\ \A id \in Ids, s \in Subfields :
              <<"deviceInvites", id, s>> \in InvitePaths(a, b)
                <=> /\ Element(a, id) # Missing /\ Element(b, id) # Missing
                    /\ Element(a, id)[s] # Element(b, id)[s]
         /\ \A p \in InvitePaths(a, b) : \E id \in Ids :
              \/ p = <<"deviceInvites", id, "">>
              \/ \E s \in Subfields : p = <<"deviceInvites", id, s>>
<1>1. InvitePaths(a, b) = UNION {ElementPaths(a, b, id) : id \in Ids}  BY DEF InvitePaths
<1>2. \A p : p \in InvitePaths(a, b) <=> \E id \in Ids : p \in ElementPaths(a, b, id)  BY <1>1
<1>3. ASSUME NEW id \in Ids, NEW p
      PROVE  p \in ElementPaths(a, b, id) <=>
               \/ /\ p = <<"deviceInvites", id, "">>
                  /\ ~ (Element(a, id) = Missing <=> Element(b, id) = Missing)
               \/ /\ Element(a, id) # Missing /\ Element(b, id) # Missing
                  /\ \E s \in Subfields : /\ p = <<"deviceInvites", id, s>>
                                          /\ Element(a, id)[s] # Element(b, id)[s]
  BY DEF ElementPaths
<1>4. "" \notin Subfields  BY DEF Subfields
<1>5. ASSUME NEW id \in Ids
      PROVE  <<"deviceInvites", id, "">> \in InvitePaths(a, b)
               <=> ~ (Element(a, id) = Missing <=> Element(b, id) = Missing)
  <2> DEFINE p == <<"deviceInvites", id, "">>
  <2>1. ASSUME ~ (Element(a, id) = Missing <=> Element(b, id) = Missing)
        PROVE  p \in InvitePaths(a, b)
    <3>1. p \in ElementPaths(a, b, id)  BY <1>3, <2>1
    <3> QED BY <1>2, <3>1
  <2>2. ASSUME p \in InvitePaths(a, b)
        PROVE  ~ (Element(a, id) = Missing <=> Element(b, id) = Missing)
    <3>1. PICK j \in Ids : p \in ElementPaths(a, b, j)  BY <1>2, <2>2
    <3>2. \A s \in Subfields : p # <<"deviceInvites", j, s>>  BY <1>4
    <3>3. p = <<"deviceInvites", j, "">> /\ ~ (Element(a, j) = Missing <=> Element(b, j) = Missing)
      BY <1>3, <3>1, <3>2
    <3>4. j = id  BY <3>3
    <3> QED BY <3>3, <3>4
  <2> QED BY <2>1, <2>2
<1>6. ASSUME NEW id \in Ids, NEW s \in Subfields
      PROVE  <<"deviceInvites", id, s>> \in InvitePaths(a, b)
                <=> /\ Element(a, id) # Missing /\ Element(b, id) # Missing
                    /\ Element(a, id)[s] # Element(b, id)[s]
  <2> DEFINE p == <<"deviceInvites", id, s>>
  <2>1. ASSUME Element(a, id) # Missing, Element(b, id) # Missing,
               Element(a, id)[s] # Element(b, id)[s]
        PROVE  p \in InvitePaths(a, b)
    <3>1. p \in ElementPaths(a, b, id)  BY <1>3, <2>1
    <3> QED BY <1>2, <3>1
  <2>2. ASSUME p \in InvitePaths(a, b)
        PROVE  /\ Element(a, id) # Missing /\ Element(b, id) # Missing
               /\ Element(a, id)[s] # Element(b, id)[s]
    <3>1. PICK j \in Ids : p \in ElementPaths(a, b, j)  BY <1>2, <2>2
    <3>2. p # <<"deviceInvites", j, "">>  BY <1>4
    <3>3. PICK t \in Subfields : /\ Element(a, j) # Missing /\ Element(b, j) # Missing
                                 /\ p = <<"deviceInvites", j, t>>
                                 /\ Element(a, j)[t] # Element(b, j)[t]
      BY <1>3, <3>1, <3>2
    <3>4. j = id /\ t = s  BY <3>3
    <3> QED BY <3>3, <3>4
  <2> QED BY <2>1, <2>2
<1>7. ASSUME NEW p \in InvitePaths(a, b)
      PROVE  \E id \in Ids : \/ p = <<"deviceInvites", id, "">>
                             \/ \E s \in Subfields : p = <<"deviceInvites", id, s>>
  <2>1. PICK j \in Ids : p \in ElementPaths(a, b, j)  BY <1>2
  <2> QED BY <1>3, <2>1
<1> QED BY <1>5, <1>6, <1>7

\* The paths of two lists that are compared as a whole.
LEMMA PathsOfWhole ==
  ASSUME NEW a, NEW b, ~ ArrayIdentity(a, b)
  PROVE  /\ a # b => InvitePaths(a, b) = {<<"deviceInvites", 0, "">>}
         /\ a = b => InvitePaths(a, b) = {}
BY DEF InvitePaths

----------------------------------------------------------------------------
(* The paths at which documents differ *)

LEMMA DetailDiff ==
  ASSUME NEW old \in DetailDocs, NEW new \in DetailDocs
  PROVE  \A p : p \in Diff(old, new) <=>
           \/ p \in InvitePaths(old.deviceInvites, new.deviceInvites)
           \/ /\ p = <<"postureAttributes", 0, "">>
              /\ old.postureAttributes # new.postureAttributes
<1>1. DOMAIN old = {"postureAttributes", "deviceInvites"}  BY DEF DetailDocs
<1>2. \A f \in {"postureAttributes"} : f # "deviceInvites"  OBVIOUS
<1> QED BY <1>1, <1>2 DEF Diff

LEMMA DeviceDiff ==
  ASSUME NEW old \in DeviceDocs, NEW new \in DeviceDocs
  PROVE  \A p : p \in Diff(old, new) <=>
           \/ p = <<"authorized", 0, "">> /\ old.authorized # new.authorized
           \/ p = <<"clientVersion", 0, "">> /\ old.clientVersion # new.clientVersion
           \/ p = <<"tags", 0, "">> /\ old.tags # new.tags
<1>1. DOMAIN old = {"authorized", "clientVersion", "tags"}  BY DEF DeviceDocs
<1> QED BY <1>1 DEF Diff

\* Two invites that agree on their id and every subfield are the same.
LEMMA SameInvite ==
  ASSUME NEW e \in Invites, NEW f \in Invites, e.id = f.id,
         \A s \in Subfields : e[s] = f[s]
  PROVE  e = f
<1>1. e.accepted = f.accepted /\ e.allowExitNode = f.allowExitNode /\ e.lastEmailSentAt = f.lastEmailSentAt
  BY DEF Subfields
<1> QED BY <1>1 DEF Invites

\* Lists without a path between them hold the same elements.
LEMMA NoPathsOneWay ==
  ASSUME NEW a \in Lists, NEW b \in Lists, IdentifiedBy(Listed(a)),
         \A id \in Ids : Element(a, id) = Missing <=> Element(b, id) = Missing,
         \A id \in Ids, s \in Subfields :
           Element(a, id) # Missing /\ Element(b, id) # Missing
             => Element(a, id)[s] = Element(b, id)[s],
         NEW e \in Listed(a)
  PROVE  e \in Listed(b)
<1>1. Element(a, e.id) = e /\ e \in Invites /\ e # Missing /\ e.id \in Ids  BY ElementIs
<1>2. Element(b, e.id) # Missing  BY <1>1
<1> DEFINE f == Element(b, e.id)
<1>3. f \in Listed(b) /\ f \in Invites /\ f.id = e.id  BY <1>2, ElementIs
<1>4. \A s \in Subfields : e[s] = f[s]  BY <1>1, <1>2
<1>5. e = f
  <2> HIDE DEF f
  <2> QED BY <1>1, <1>3, <1>4, SameInvite
<1> QED BY <1>3, <1>5

\* There is a path between any two lists that differ.
LEMMA NoPathsSameList ==
  ASSUME NEW a \in Lists, NEW b \in Lists, InvitePaths(a, b) = {}
  PROVE  a = b
<1>1. CASE ~ ArrayIdentity(a, b)  BY <1>1, PathsOfWhole
<1>2. CASE ArrayIdentity(a, b)
  <2>1. \A id \in Ids : Element(a, id) = Missing <=> Element(b, id) = Missing
    BY <1>2, PathsOfElements
  <2>2. \A id \in Ids, s \in Subfields :
           Element(a, id) # Missing /\ Element(b, id) # Missing
             => Element(a, id)[s] = Element(b, id)[s]
    <3>1. \A id \in Ids, s \in Subfields :
            <<"deviceInvites", id, s>> \in InvitePaths(a, b)
              <=> /\ Element(a, id) # Missing /\ Element(b, id) # Missing
                  /\ Element(a, id)[s] # Element(b, id)[s]
      BY <1>2, PathsOfElements
    <3> QED BY <3>1
  <2>3. IdentifiedBy(Listed(a)) /\ IdentifiedBy(Listed(b))  BY <1>2 DEF ArrayIdentity
  <2>4. \A e \in Listed(a) : e \in Listed(b)  BY <2>1, <2>2, <2>3, NoPathsOneWay
  <2>5. \A e \in Listed(b) : e \in Listed(a)  BY <2>1, <2>2, <2>3, NoPathsOneWay
  <2>6. Listed(a) = Listed(b)
    <3>1. Listed(a) \in SUBSET Invites /\ Listed(b) \in SUBSET Invites  BY ListedOfList
    <3> QED BY <2>4, <2>5, <3>1
  <2>7. /\ IsList(a) => Listed(a) = a
        /\ ~ IsList(a) => Listed(a) = {}
        /\ IsList(b) => Listed(b) = b
        /\ ~ IsList(b) => Listed(b) = {}
    BY ListedOfList
  <2>8. \/ IsList(a) /\ IsList(b)
        \/ ~ IsList(a) /\ IsList(b) /\ b # {}
        \/ IsList(a) /\ a # {} /\ ~ IsList(b)
    BY <1>2 DEF ArrayIdentity
  <2> QED BY <2>6, <2>7, <2>8
<1> QED BY <1>1, <1>2

\* Where two documents differ there is a path, and a path is one of Paths.
LEMMA DiffIsComplete ==
  ASSUME NEW c \in Collectors, NEW old \in Docs(c), NEW new \in Docs(c)
  PROVE  /\ Diff(old, new) \in SUBSET Paths
         /\ old # new => Diff(old, new) # {}
<1>1. CASE c = "devices"
  <2>1. old \in DeviceDocs /\ new \in DeviceDocs  BY <1>1 DEF Docs
  <2>2. /\ <<"authorized", 0, "">> \in Paths /\ <<"clientVersion", 0, "">> \in Paths
        /\ <<"tags", 0, "">> \in Paths
    BY DEF Paths, Names
  <2>3. Diff(old, new) \in SUBSET Paths  BY <2>1, <2>2, DeviceDiff
  <2>4. Diff(old, new) = {} => /\ old.authorized = new.authorized
                               /\ old.clientVersion = new.clientVersion /\ old.tags = new.tags
    BY <2>1, DeviceDiff
  <2>5. Diff(old, new) = {} => old = new  BY <2>1, <2>4 DEF DeviceDocs
  <2> QED BY <2>3, <2>5
<1>2. CASE c = "device_details"
  <2> DEFINE a == old.deviceInvites
             b == new.deviceInvites
  <2>1. old \in DetailDocs /\ new \in DetailDocs  BY <1>2 DEF Docs
  <2>2. a \in Lists /\ b \in Lists  BY <2>1 DEF DetailDocs
  <2>3. <<"postureAttributes", 0, "">> \in Paths /\ <<"deviceInvites", 0, "">> \in Paths
    BY DEF Paths, Names
  <2>4. \A id \in Ids : /\ <<"deviceInvites", id, "">> \in Paths
                        /\ \A s \in Subfields : <<"deviceInvites", id, s>> \in Paths
    BY ChangesAssumption DEF Paths, Names, Subfields
  <2>5. InvitePaths(a, b) \subseteq Paths
    <3> HIDE DEF a, b
    <3>1. CASE ArrayIdentity(a, b)
      <4>1. \A p \in InvitePaths(a, b) : \E id \in Ids :
              \/ p = <<"deviceInvites", id, "">>
              \/ \E s \in Subfields : p = <<"deviceInvites", id, s>>
        BY <2>2, <3>1, PathsOfElements
      <4> QED BY <2>4, <4>1
    <3>2. CASE ~ ArrayIdentity(a, b)  BY <2>2, <2>3, <3>2, PathsOfWhole
    <3> QED BY <3>1, <3>2
  <2>6. Diff(old, new) \in SUBSET Paths  BY <2>1, <2>3, <2>5, DetailDiff
  <2>7. ASSUME Diff(old, new) = {} PROVE old = new
    <3>1. InvitePaths(a, b) = {} /\ old.postureAttributes = new.postureAttributes
      BY <2>1, <2>7, DetailDiff
    <3>2. a = b
      <4> HIDE DEF a, b
      <4> QED BY <2>2, <3>1, NoPathsSameList
    <3> QED BY <2>1, <3>1, <3>2 DEF DetailDocs
  <2> QED BY <2>6, <2>7
<1> QED BY <1>1, <1>2 DEF Collectors

----------------------------------------------------------------------------
(* Applying the paths of a difference *)

\* What Rebuild makes of a share list that was compared element by element.
AddedTo(paths, new) ==
  {Element(new.deviceInvites, p[2]) : p \in {q \in paths : q[2] # 0 /\ q[3] = ""}} \ {Missing}
KeptOf(list, paths) == {e \in Listed(list) : <<"deviceInvites", e.id, "">> \notin paths}
UpdatedBy(e, paths, new) ==
  [s \in DOMAIN e |-> IF <<"deviceInvites", e.id, s>> \in paths
                      THEN Lookup(new, <<"deviceInvites", e.id, s>>) ELSE e[s]]
RebuiltList(list, paths, new) ==
  AddedTo(paths, new) \cup {UpdatedBy(e, paths, new) : e \in KeptOf(list, paths)}

LEMMA RebuildIs ==
  ASSUME NEW doc, NEW paths, NEW new
  PROVE  Rebuild(doc, paths, new) =
           [f \in DOMAIN doc |->
             IF <<f, 0, "">> \in paths THEN new[f]
             ELSE IF f = "deviceInvites" /\ InviteIds(paths) # {}
             THEN RebuiltList(doc.deviceInvites, paths, new)
             ELSE doc[f]]
BY DEF Rebuild, RebuiltList, AddedTo, KeptOf, UpdatedBy

\* The paths of a difference of two documents whose lists were compared so.
ElementwisePaths(paths, a, b) ==
  /\ \A id \in Ids :
       <<"deviceInvites", id, "">> \in paths
         <=> ~ (Element(a, id) = Missing <=> Element(b, id) = Missing)
  /\ \A id \in Ids, s \in Subfields :
       <<"deviceInvites", id, s>> \in paths
         <=> /\ Element(a, id) # Missing /\ Element(b, id) # Missing
             /\ Element(a, id)[s] # Element(b, id)[s]
  /\ \A p \in paths :
       \/ p = <<"postureAttributes", 0, "">>
       \/ \E id \in Ids : \/ p = <<"deviceInvites", id, "">>
                          \/ \E s \in Subfields : p = <<"deviceInvites", id, s>>

\* An element that both lists have becomes the new one.
LEMMA UpdatedIs ==
  ASSUME NEW a \in Lists, NEW b \in Lists, IdentifiedBy(Listed(a)), IdentifiedBy(Listed(b)),
         NEW new, new.deviceInvites = b,
         NEW paths, ElementwisePaths(paths, a, b),
         NEW e \in Listed(a), Element(b, e.id) # Missing
  PROVE  UpdatedBy(e, paths, new) = Element(b, e.id)
<1> DEFINE f == Element(b, e.id)
<1>1. Element(a, e.id) = e /\ e \in Invites /\ e # Missing /\ e.id \in Ids  BY ElementIs
<1>2. f \in Listed(b) /\ f \in Invites /\ f # Missing /\ f.id = e.id  BY ElementIs
<1>3. e.id # 0  BY <1>1, ChangesAssumption
<1>4. \A s \in Subfields : s # "" /\ Lookup(new, <<"deviceInvites", e.id, s>>) = f[s]
  <2> TAKE s \in Subfields
  <2>1. s # ""  BY DEF Subfields
  <2> QED BY <1>2, <1>3, <2>1 DEF Lookup
<1>5. \A s \in Subfields : <<"deviceInvites", e.id, s>> \in paths <=> e[s] # f[s]
  <2>1. \A id \in Ids, s \in Subfields :
          <<"deviceInvites", id, s>> \in paths
            <=> /\ Element(a, id) # Missing /\ Element(b, id) # Missing
                /\ Element(a, id)[s] # Element(b, id)[s]
    BY DEF ElementwisePaths
  <2> QED BY <1>1, <1>2, <2>1
<1>6. <<"deviceInvites", e.id, "id">> \notin paths
  <2>1. \A p \in paths :
          \/ p = <<"postureAttributes", 0, "">>
          \/ \E id \in Ids : \/ p = <<"deviceInvites", id, "">>
                             \/ \E s \in Subfields : p = <<"deviceInvites", id, s>>
    BY DEF ElementwisePaths
  <2>2. \A s \in Subfields : s # "id"  BY DEF Subfields
  <2>3. <<"deviceInvites", e.id, "id">> # <<"postureAttributes", 0, "">>  OBVIOUS
  <2>4. \A id \in Ids : <<"deviceInvites", e.id, "id">> # <<"deviceInvites", id, "">>  OBVIOUS
  <2>5. \A id \in Ids, s \in Subfields :
          <<"deviceInvites", e.id, "id">> # <<"deviceInvites", id, s>>  BY <2>2
  <2> QED BY <2>1, <2>3, <2>4, <2>5
<1>7. /\ DOMAIN e = {"id"} \cup Subfields /\ DOMAIN f = {"id"} \cup Subfields
      /\ e = [s \in DOMAIN e |-> e[s]] /\ f = [s \in DOMAIN f |-> f[s]]
  BY <1>1, <1>2 DEF Invites, Subfields
<1>8. \A s \in DOMAIN e :
        (IF <<"deviceInvites", e.id, s>> \in paths
         THEN Lookup(new, <<"deviceInvites", e.id, s>>) ELSE e[s]) = f[s]
  <2> TAKE s \in DOMAIN e
  <2>1. CASE s = "id"  BY <1>2, <1>6, <2>1
  <2>2. CASE s \in Subfields
    <3> HIDE DEF f
    <3> QED BY <1>4, <1>5, <2>2
  <2> QED BY <1>7, <2>1, <2>2
<1> QED
  <2> HIDE DEF f
  <2>1. UpdatedBy(e, paths, new) = [s \in DOMAIN e |-> f[s]]  BY <1>8 DEF UpdatedBy
  <2>2. UpdatedBy(e, paths, new) = f  BY <1>7, <2>1
  <2> QED BY <2>2 DEF f

LEMMA RebuiltListIs ==
  ASSUME NEW a \in Lists, NEW b \in Lists, ArrayIdentity(a, b),
         NEW list \in Lists, Listed(list) = Listed(a),
         NEW new, new.deviceInvites = b,
         NEW paths, ElementwisePaths(paths, a, b)
  PROVE  RebuiltList(list, paths, new) = Listed(b)
<1>1. IdentifiedBy(Listed(a)) /\ IdentifiedBy(Listed(b))  BY DEF ArrayIdentity
<1>2. \A id \in Ids : <<"deviceInvites", id, "">> \in paths
                        <=> ~ (Element(a, id) = Missing <=> Element(b, id) = Missing)
  BY DEF ElementwisePaths
<1>3. \A e \in KeptOf(list, paths) :
        /\ e \in Listed(a) /\ e.id \in Ids /\ Element(b, e.id) # Missing
        /\ Element(b, e.id) \in Listed(b)
  <2> TAKE e \in KeptOf(list, paths)
  <2>1. e \in Listed(a) /\ <<"deviceInvites", e.id, "">> \notin paths  BY DEF KeptOf
  <2>2. Element(a, e.id) = e /\ e # Missing /\ e.id \in Ids  BY <1>1, <2>1, ElementIs
  <2>3. Element(b, e.id) # Missing  BY <1>2, <2>1, <2>2
  <2>4. Element(b, e.id) \in Listed(b)  BY <2>3, ElementIs
  <2> QED BY <2>1, <2>2, <2>3, <2>4
<1>4. \A e \in KeptOf(list, paths) : UpdatedBy(e, paths, new) = Element(b, e.id)
  BY <1>1, <1>3, UpdatedIs
<1>5. ASSUME NEW f \in AddedTo(paths, new) PROVE f \in Listed(b)
  <2>1. PICK p \in paths : f = Element(b, p[2])  BY DEF AddedTo
  <2>2. f # Missing  BY DEF AddedTo
  <2> QED BY <2>1, <2>2, ElementIs
<1>6. ASSUME NEW f \in Listed(b)
      PROVE  \/ f \in AddedTo(paths, new)
             \/ \E e \in KeptOf(list, paths) : Element(b, e.id) = f
  <2>1. Element(b, f.id) = f /\ f # Missing /\ f.id \in Ids  BY <1>1, ElementIs
  <2>2. CASE Element(a, f.id) = Missing
    <3> DEFINE p == <<"deviceInvites", f.id, "">>
    <3>1. p \in paths  BY <1>2, <2>1, <2>2
    <3>2. p[2] = f.id /\ p[2] # 0 /\ p[3] = ""  BY <2>1, ChangesAssumption
    <3>3. f = Element(new.deviceInvites, p[2])  BY <2>1
    <3> HIDE DEF p
    <3> QED BY <2>1, <3>1, <3>2, <3>3 DEF AddedTo
  <2>3. CASE Element(a, f.id) # Missing
    <3> DEFINE e == Element(a, f.id)
    <3>1. e \in Listed(a) /\ e.id = f.id  BY <2>3, ElementIs
    <3>2. <<"deviceInvites", f.id, "">> \notin paths  BY <1>2, <2>1, <2>3
    <3>3. e \in KeptOf(list, paths)
      <4> HIDE DEF e
      <4> QED BY <3>1, <3>2 DEF KeptOf
    <3> HIDE DEF e
    <3> QED BY <2>1, <3>1, <3>3
  <2> QED BY <2>2, <2>3
<1> QED BY <1>3, <1>4, <1>5, <1>6 DEF RebuiltList

LEMMA DocsAreNotNone ==
  ASSUME NEW c \in Collectors, NEW doc \in Docs(c)
  PROVE  /\ doc # None
         /\ c = "devices" => DOMAIN doc = {"authorized", "clientVersion", "tags"}
         /\ c = "device_details" => DOMAIN doc = {"postureAttributes", "deviceInvites"}
<1>1. DOMAIN None = {"kind"}  BY DEF None
<1>2. c = "devices" => DOMAIN doc = {"authorized", "clientVersion", "tags"}  BY DEF Docs, DeviceDocs
<1>3. c = "device_details" => DOMAIN doc = {"postureAttributes", "deviceInvites"}
  BY DEF Docs, DetailDocs
<1>4. "authorized" # "kind" /\ "postureAttributes" # "kind"  OBVIOUS
<1>5. DOMAIN doc # {"kind"}  BY <1>2, <1>3, <1>4 DEF Collectors
<1> QED BY <1>1, <1>2, <1>3, <1>5

LEMMA RebuildsDevice ==
  ASSUME NEW v \in DeviceDocs, NEW old \in DeviceDocs, NEW new \in DeviceDocs,
         SameDocument(v, old)
  PROVE  Rebuild(v, Diff(old, new), new) = new
<1> DEFINE D == Diff(old, new)
<1>1. v # None /\ old # None /\ DOMAIN v = {"authorized", "clientVersion", "tags"}
      /\ DOMAIN new = {"authorized", "clientVersion", "tags"}
  BY DocsAreNotNone DEF Docs, Collectors
<1>2. \A f \in DOMAIN v : v[f] = old[f]
  <2>1. \A f \in DOMAIN v : f # "deviceInvites"  BY <1>1
  <2> QED BY <1>1, <2>1 DEF SameDocument
<1>3. \A f \in DOMAIN v : <<f, 0, "">> \in D <=> old[f] # new[f]
  <2>1. /\ <<"authorized", 0, "">> \in D <=> old.authorized # new.authorized
        /\ <<"clientVersion", 0, "">> \in D <=> old.clientVersion # new.clientVersion
        /\ <<"tags", 0, "">> \in D <=> old.tags # new.tags
    <3>1. \A p : p \in D <=>
           \/ p = <<"authorized", 0, "">> /\ old.authorized # new.authorized
           \/ p = <<"clientVersion", 0, "">> /\ old.clientVersion # new.clientVersion
           \/ p = <<"tags", 0, "">> /\ old.tags # new.tags
      BY DeviceDiff
    <3>2. /\ <<"authorized", 0, "">> # <<"clientVersion", 0, "">>
          /\ <<"authorized", 0, "">> # <<"tags", 0, "">>
          /\ <<"tags", 0, "">> # <<"clientVersion", 0, "">>
      OBVIOUS
    <3> HIDE DEF D
    <3> QED BY <3>1, <3>2
  <2> HIDE DEF D
  <2> QED BY <1>1, <2>1
<1> HIDE DEF D
<1>4. Rebuild(v, D, new) =
        [f \in DOMAIN v |->
             IF <<f, 0, "">> \in D THEN new[f]
             ELSE IF f = "deviceInvites" /\ InviteIds(D) # {}
             THEN RebuiltList(v.deviceInvites, D, new)
             ELSE v[f]]
  BY RebuildIs
<1>5. \A f \in DOMAIN v : Rebuild(v, D, new)[f] = new[f]
  <2> TAKE f \in DOMAIN v
  <2>1. f # "deviceInvites"  BY <1>1
  <2>2. Rebuild(v, D, new)[f] = IF <<f, 0, "">> \in D THEN new[f] ELSE v[f]  BY <1>4, <2>1
  <2> QED BY <1>2, <1>3, <2>2
<1>6. Rebuild(v, D, new) = [f \in DOMAIN v |-> new[f]]  BY <1>4, <1>5
<1>7. new = [f \in DOMAIN new |-> new[f]]  BY DEF DeviceDocs
<1>8. Rebuild(v, D, new) = new  BY <1>1, <1>6, <1>7
<1> QED BY <1>8 DEF D

\* The paths of a difference of two details, by how their lists were compared.
LEMMA DetailPaths ==
  ASSUME NEW old \in DetailDocs, NEW new \in DetailDocs
  PROVE  /\ old.deviceInvites \in Lists /\ new.deviceInvites \in Lists
         /\ <<"postureAttributes", 0, "">> \in Diff(old, new)
              <=> old.postureAttributes # new.postureAttributes
         /\ ArrayIdentity(old.deviceInvites, new.deviceInvites) =>
              /\ ElementwisePaths(Diff(old, new), old.deviceInvites, new.deviceInvites)
              /\ <<"deviceInvites", 0, "">> \notin Diff(old, new)
         /\ ~ ArrayIdentity(old.deviceInvites, new.deviceInvites) =>
              /\ <<"deviceInvites", 0, "">> \in Diff(old, new)
                   <=> old.deviceInvites # new.deviceInvites
              /\ \A p \in Diff(old, new) :
                   p \in {<<"postureAttributes", 0, "">>, <<"deviceInvites", 0, "">>}
<1> DEFINE D == Diff(old, new)
           a == old.deviceInvites
           b == new.deviceInvites
           I == InvitePaths(a, b)
<1>1. a \in Lists /\ b \in Lists  BY DEF DetailDocs
<1>2. \A p : p \in D <=>
        \/ p \in I
        \/ p = <<"postureAttributes", 0, "">> /\ old.postureAttributes # new.postureAttributes
  BY DetailDiff
<1> HIDE DEF D, a, b
<1>3. CASE ArrayIdentity(a, b)
  <2>1. \A id \in Ids : <<"deviceInvites", id, "">> \in I
                          <=> ~ (Element(a, id) = Missing <=> Element(b, id) = Missing)
    BY <1>1, <1>3, PathsOfElements
  <2>2. \A id \in Ids, s \in Subfields :
          <<"deviceInvites", id, s>> \in I
            <=> /\ Element(a, id) # Missing /\ Element(b, id) # Missing
                /\ Element(a, id)[s] # Element(b, id)[s]
    BY <1>1, <1>3, PathsOfElements
  <2>3. \A p \in I : \E id \in Ids :
          \/ p = <<"deviceInvites", id, "">>
          \/ \E s \in Subfields : p = <<"deviceInvites", id, s>>
    BY <1>1, <1>3, PathsOfElements
  <2>4. \A id \in Ids : id # 0  BY ChangesAssumption
  <2> HIDE DEF I
  <2>5. \A id, s : <<"deviceInvites", id, s>> \in D <=> <<"deviceInvites", id, s>> \in I
    <3> TAKE id, s
    <3> DEFINE p == <<"deviceInvites", id, s>>
    <3>1. p # <<"postureAttributes", 0, "">>  OBVIOUS
    <3>2. p \in D <=> p \in I
      <4> HIDE DEF p
      <4> QED BY <1>2, <3>1
    <3> QED BY <3>2
  <2>6. <<"deviceInvites", 0, "">> \notin I
    <3>1. ASSUME NEW id \in Ids PROVE <<"deviceInvites", 0, "">> # <<"deviceInvites", id, "">>
      BY <2>4
    <3>2. ASSUME NEW id \in Ids, NEW s PROVE <<"deviceInvites", 0, "">> # <<"deviceInvites", id, s>>
      BY <2>4
    <3> QED BY <2>3, <3>1, <3>2
  <2>7. <<"postureAttributes", 0, "">> \notin I
    <3>1. \A id, s : <<"deviceInvites", id, s>> # <<"postureAttributes", 0, "">>  OBVIOUS
    <3> QED BY <2>3, <3>1
  <2>8. ElementwisePaths(D, a, b)
    <3>1. \A id \in Ids : <<"deviceInvites", id, "">> \in D
                          <=> ~ (Element(a, id) = Missing <=> Element(b, id) = Missing)
      BY <2>1, <2>5
    <3>2. \A id \in Ids, s \in Subfields :
          <<"deviceInvites", id, s>> \in D
            <=> /\ Element(a, id) # Missing /\ Element(b, id) # Missing
                /\ Element(a, id)[s] # Element(b, id)[s]
      BY <2>2, <2>5
    <3>3. \A p \in D : \/ p = <<"postureAttributes", 0, "">>
                       \/ \E id \in Ids : \/ p = <<"deviceInvites", id, "">>
                                          \/ \E s \in Subfields : p = <<"deviceInvites", id, s>>
      BY <1>2, <2>3
    <3> QED BY <3>1, <3>2, <3>3 DEF ElementwisePaths
  <2>9. <<"postureAttributes", 0, "">> \in D <=> old.postureAttributes # new.postureAttributes
    BY <1>2, <2>7
  <2> QED BY <1>1, <1>3, <2>5, <2>6, <2>8, <2>9 DEF D, a, b
<1>4. CASE ~ ArrayIdentity(a, b)
  <2>1. /\ a # b => I = {<<"deviceInvites", 0, "">>}
        /\ a = b => I = {}
    BY <1>4, PathsOfWhole
  <2> HIDE DEF I
  <2>2. <<"deviceInvites", 0, "">> # <<"postureAttributes", 0, "">>  OBVIOUS
  <2>3. <<"deviceInvites", 0, "">> \in D <=> a # b  BY <1>2, <2>1, <2>2
  <2>4. \A p \in D : p \in {<<"postureAttributes", 0, "">>, <<"deviceInvites", 0, "">>}
    BY <1>2, <2>1
  <2>5. <<"postureAttributes", 0, "">> \in D <=> old.postureAttributes # new.postureAttributes
    BY <1>2, <2>1, <2>2
  <2> QED BY <1>1, <1>4, <2>3, <2>4, <2>5 DEF D, a, b
<1> QED BY <1>3, <1>4

LEMMA RebuildsDetails ==
  ASSUME NEW v \in DetailDocs, NEW old \in DetailDocs, NEW new \in DetailDocs,
         SameDocument(v, old)
  PROVE  /\ Rebuild(v, Diff(old, new), new) \in DetailDocs
         /\ SameDocument(Rebuild(v, Diff(old, new), new), new)
<1> DEFINE D == Diff(old, new)
           a == old.deviceInvites
           b == new.deviceInvites
           r == Rebuild(v, D, new)
<1>1. /\ a \in Lists /\ b \in Lists
      /\ <<"postureAttributes", 0, "">> \in D <=> old.postureAttributes # new.postureAttributes
      /\ ArrayIdentity(a, b) =>
           /\ ElementwisePaths(D, a, b)
           /\ <<"deviceInvites", 0, "">> \notin D
      /\ ~ ArrayIdentity(a, b) =>
           /\ <<"deviceInvites", 0, "">> \in D <=> a # b
           /\ \A p \in D :
                p \in {<<"postureAttributes", 0, "">>, <<"deviceInvites", 0, "">>}
  BY DetailPaths
<1>2. /\ v # None /\ old # None /\ new # None
      /\ DOMAIN v = {"postureAttributes", "deviceInvites"}
  BY DocsAreNotNone DEF Docs, Collectors
<1>3. v.postureAttributes = old.postureAttributes /\ Listed(v.deviceInvites) = Listed(a)
  BY <1>2 DEF SameDocument
<1>4. r = [f \in DOMAIN v |->
             IF <<f, 0, "">> \in D THEN new[f]
             ELSE IF f = "deviceInvites" /\ InviteIds(D) # {}
             THEN RebuiltList(v.deviceInvites, D, new)
             ELSE v[f]]
  BY RebuildIs
<1>6. v.deviceInvites \in Lists  BY DEF DetailDocs
<1> DEFINE l == IF <<"deviceInvites", 0, "">> \in D THEN b
                ELSE IF InviteIds(D) # {} THEN RebuiltList(v.deviceInvites, D, new)
                ELSE v.deviceInvites
           q == IF <<"postureAttributes", 0, "">> \in D THEN new.postureAttributes
                ELSE v.postureAttributes
<1>7. r.deviceInvites = l /\ r.postureAttributes = q
  <2>2. r.postureAttributes = q
    <3>1. "postureAttributes" # "deviceInvites"  OBVIOUS
    <3> HIDE DEF D, r
    <3> QED BY <1>2, <1>4, <3>1
  <2>3. r.deviceInvites = l
    <3> HIDE DEF D, r
    <3> QED BY <1>2, <1>4
  <2> QED BY <2>2, <2>3
<1>8. q = new.postureAttributes
  <2> HIDE DEF D
  <2> QED BY <1>1, <1>3
<1>9. l \in Lists /\ Listed(l) = Listed(b)
  <2>1. CASE <<"deviceInvites", 0, "">> \in D  BY <1>1, <2>1
  <2>2. CASE <<"deviceInvites", 0, "">> \notin D /\ InviteIds(D) # {}
    <3>1. ArrayIdentity(a, b)
      <4> SUFFICES ASSUME ~ ArrayIdentity(a, b) PROVE FALSE  OBVIOUS
      <4>1. \A p \in D : p[2] = 0
        <5> HIDE DEF D, a, b
        <5> TAKE p \in D
        <5>1. p = <<"postureAttributes", 0, "">> \/ p = <<"deviceInvites", 0, "">>  BY <1>1
        <5>2. CASE p = <<"postureAttributes", 0, "">>  BY <5>2
        <5>3. CASE p = <<"deviceInvites", 0, "">>  BY <5>3
        <5> QED BY <5>1, <5>2, <5>3
      <4>2. InviteIds(D) = {}  BY <4>1 DEF InviteIds
      <4> QED BY <2>2, <4>2
    <3>2. RebuiltList(v.deviceInvites, D, new) = Listed(b)
      <4>1. ElementwisePaths(D, a, b) /\ new.deviceInvites = b  BY <1>1, <3>1
      <4>2. a \in Lists /\ b \in Lists  BY <1>1
      <4>3. Listed(v.deviceInvites) = Listed(a)  BY <1>3
      <4> HIDE DEF D, a, b
      <4> QED BY <1>6, <3>1, <4>1, <4>2, <4>3, RebuiltListIs
    <3>3. l = Listed(b)  BY <2>2, <3>2
    <3>4. Listed(b) \in SUBSET Invites /\ Listed(Listed(b)) = Listed(b)
      <4> HIDE DEF b
      <4> QED BY <1>1, ListedOfList
    <3>5. Listed(b) \in Lists  BY <3>4 DEF Lists
    <3> HIDE DEF l, b
    <3> QED BY <3>3, <3>4, <3>5
  <2>3. CASE <<"deviceInvites", 0, "">> \notin D /\ InviteIds(D) = {}
    <3>1. l = v.deviceInvites  BY <2>3
    <3>2. a = b
      <4>1. CASE ~ ArrayIdentity(a, b)  BY <1>1, <2>3, <4>1
      <4>2. CASE ArrayIdentity(a, b)
        <5>1. \A p \in D : p[2] = 0  BY <2>3 DEF InviteIds
        <5>2. \A p : p \in D <=>
                \/ p \in InvitePaths(a, b)
                \/ p = <<"postureAttributes", 0, "">> /\ old.postureAttributes # new.postureAttributes
          BY DetailDiff
        <5>3. \A p \in InvitePaths(a, b) : p[2] = 0  BY <5>1, <5>2
        <5>4. \A p \in InvitePaths(a, b) : p[2] # 0
          <6>1. \A p \in InvitePaths(a, b) : \E id \in Ids :
                  \/ p = <<"deviceInvites", id, "">>
                  \/ \E s \in Subfields : p = <<"deviceInvites", id, s>>
            <7> HIDE DEF a, b
            <7> QED BY <1>1, <4>2, PathsOfElements
          <6>2. \A id \in Ids : id # 0  BY ChangesAssumption
          <6> HIDE DEF a, b
          <6> TAKE p \in InvitePaths(a, b)
          <6>3. PICK id \in Ids : \/ p = <<"deviceInvites", id, "">>
                                  \/ \E s \in Subfields : p = <<"deviceInvites", id, s>>
            BY <6>1
          <6>4. p[2] = id
            <7>1. CASE p = <<"deviceInvites", id, "">>  BY <7>1
            <7>2. ASSUME NEW s \in Subfields, p = <<"deviceInvites", id, s>> PROVE p[2] = id
              BY <7>2
            <7> QED BY <6>3, <7>1, <7>2
          <6> QED BY <6>2, <6>4
        <5>5. InvitePaths(a, b) = {}  BY <5>3, <5>4
        <5> HIDE DEF a, b
        <5> QED BY <1>1, <5>5, NoPathsSameList
      <4> QED BY <4>1, <4>2
    <3> HIDE DEF l, a, b
    <3> QED BY <1>3, <1>6, <3>1, <3>2
  <2> QED BY <2>1, <2>2, <2>3
<1>10. r \in DetailDocs
  <2>1. q \in Int  BY <1>8 DEF DetailDocs
  <2>2. DOMAIN r = {"postureAttributes", "deviceInvites"} /\ r = [f \in DOMAIN r |-> r[f]]
    BY <1>2, <1>4
  <2>3. r = [postureAttributes |-> q, deviceInvites |-> l]
    <3> HIDE DEF r, q, l
    <3> QED BY <1>7, <2>2
  <2> HIDE DEF r, q, l
  <2> QED BY <1>9, <2>1, <2>3 DEF DetailDocs
<1>11. SameDocument(r, new)
  <2>1. r # None /\ DOMAIN r = {"postureAttributes", "deviceInvites"}
    <3> HIDE DEF r
    <3> QED BY <1>10, DocsAreNotNone DEF Docs, Collectors
  <2>2. r.postureAttributes = new.postureAttributes /\ Listed(r.deviceInvites) = Listed(new.deviceInvites)
    <3> HIDE DEF r, q, l
    <3> QED BY <1>7, <1>8, <1>9
  <2> HIDE DEF r
  <2> QED BY <1>2, <2>1, <2>2 DEF SameDocument
<1> QED BY <1>10, <1>11

\* Applying the recorded fields to the old document gives the new one.
LEMMA Rebuilds ==
  ASSUME NEW c \in Collectors, NEW v \in Docs(c), NEW old \in Docs(c), NEW new \in Docs(c),
         SameDocument(v, old)
  PROVE  /\ Rebuild(v, Diff(old, new), new) \in Docs(c)
         /\ SameDocument(Rebuild(v, Diff(old, new), new), new)
<1>1. CASE c = "devices"
  <2>1. v \in DeviceDocs /\ old \in DeviceDocs /\ new \in DeviceDocs  BY <1>1 DEF Docs
  <2>2. Rebuild(v, Diff(old, new), new) = new  BY <2>1, RebuildsDevice
  <2>3. SameDocument(new, new)  BY DEF SameDocument
  <2> QED BY <2>2, <2>3
<1>2. CASE c = "device_details"
  <2>1. v \in DetailDocs /\ old \in DetailDocs /\ new \in DetailDocs  BY <1>2 DEF Docs
  <2>2. Docs(c) = DetailDocs  BY <1>2 DEF Docs
  <2> QED BY <2>1, <2>2, RebuildsDetails
<1> QED BY <1>1, <1>2 DEF Collectors

----------------------------------------------------------------------------
(* Severity *)

LEMMA DeviceSeverity ==
  ASSUME NEW old \in DeviceDocs, NEW new \in DeviceDocs, NEW P, P \subseteq Diff(old, new)
  PROVE  /\ ClassifyDeviceFields(P, old, new) \in 1..3
         /\ ClassifyDeviceFields(P, old, new) = 3 => WorstOfDevice(old, new) = 3
         /\ P = Diff(old, new) => ClassifyDeviceFields(P, old, new) = WorstOfDevice(old, new)
<1> DEFINE D == Diff(old, new)
           auth == <<"authorized", 0, "">>
           version == <<"clientVersion", 0, "">>
           tags == <<"tags", 0, "">>
           Grave(p) == \/ p[1] = "tags"
                       \/ p[1] = "authorized" /\ SwitchedOn(Lookup(old, p), Lookup(new, p))
<1>1. \A p \in D : \/ p = auth /\ old.authorized # new.authorized
                   \/ p = version /\ old.clientVersion # new.clientVersion
                   \/ p = tags /\ old.tags # new.tags
  BY DeviceDiff
<1>2. /\ old.authorized # new.authorized => auth \in D
      /\ old.clientVersion # new.clientVersion => version \in D
      /\ old.tags # new.tags => tags \in D
  BY DeviceDiff
<1>3. /\ auth[1] = "authorized" /\ version[1] = "clientVersion" /\ tags[1] = "tags"
      /\ Lookup(old, auth) = old.authorized /\ Lookup(new, auth) = new.authorized
  BY DEF Lookup
<1>4. old.authorized \in BOOLEAN /\ new.authorized \in BOOLEAN  BY DEF DeviceDocs
<1>5. auth \in D => (Grave(auth) <=> new.authorized /\ ~ old.authorized)
  <2> SUFFICES ASSUME auth \in D
               PROVE  Grave(auth) <=> new.authorized /\ ~ old.authorized
    OBVIOUS
  <2>1. auth # version /\ auth # tags  OBVIOUS
  <2>2. old.authorized # new.authorized  BY <1>1, <2>1
  <2>3. SwitchedOn(old.authorized, new.authorized) <=> new.authorized /\ ~ old.authorized
    BY <1>4, <2>2 DEF SwitchedOn
  <2> QED BY <1>3, <2>3
<1>6. Grave(tags) /\ ~ Grave(version)  BY <1>3
<1>7. ClassifyDeviceFields(P, old, new) =
        IF \E p \in P : Grave(p) THEN 3
        ELSE IF \E p \in P : p[1] # "clientVersion" THEN 2 ELSE 1
  BY DEF ClassifyDeviceFields
<1>8. WorstOfDevice(old, new) =
        IF old.tags # new.tags \/ (new.authorized /\ ~ old.authorized) THEN 3
        ELSE IF old.authorized # new.authorized THEN 2 ELSE 1
  BY DEF WorstOfDevice
<1> HIDE DEF D, auth, version, tags, Grave
<1>9. (\E p \in P : Grave(p)) => old.tags # new.tags \/ (new.authorized /\ ~ old.authorized)
  <2> SUFFICES ASSUME NEW p \in P, Grave(p)
               PROVE  old.tags # new.tags \/ (new.authorized /\ ~ old.authorized)
    OBVIOUS
  <2>1. p \in D  BY DEF D
  <2> QED BY <1>1, <1>5, <1>6, <2>1
<1>10. ASSUME P = D
       PROVE  /\ old.tags # new.tags \/ (new.authorized /\ ~ old.authorized) => \E p \in P : Grave(p)
              /\ (\E p \in P : Grave(p)) \/
                 (old.authorized # new.authorized <=> \E p \in P : p[1] # "clientVersion")
  <2>1. ASSUME old.tags # new.tags PROVE \E p \in P : Grave(p)  BY <1>2, <1>6, <1>10, <2>1
  <2>2. ASSUME new.authorized, ~ old.authorized PROVE \E p \in P : Grave(p)
    <3>1. auth \in D  BY <1>2, <1>4, <2>2
    <3> QED BY <1>5, <1>10, <2>2, <3>1
  <2>3. ASSUME old.authorized # new.authorized PROVE \E p \in P : p[1] # "clientVersion"
    <3>1. auth \in P /\ auth[1] # "clientVersion"  BY <1>2, <1>3, <1>10, <2>3
    <3> QED BY <3>1
  <2>4. ASSUME NEW p \in P, p[1] # "clientVersion", ~ \E r \in P : Grave(r)
        PROVE  old.authorized # new.authorized
    BY <1>1, <1>3, <1>6, <1>10, <2>4
  <2> QED BY <2>1, <2>2, <2>3, <2>4
<1>11. P = D => ClassifyDeviceFields(P, old, new) = WorstOfDevice(old, new)
  BY <1>7, <1>8, <1>9, <1>10
<1>12. /\ ClassifyDeviceFields(P, old, new) \in 1..3
       /\ ClassifyDeviceFields(P, old, new) = 3 => WorstOfDevice(old, new) = 3
  BY <1>7, <1>8, <1>9
<1> QED BY <1>11, <1>12 DEF D

\* How severe one path between two details is, and what makes it so.
PathSeverity(p, old, new) == IF p[2] = 0 THEN 2 ELSE ShareSeverity(p, old, new)
Gains(a, b) == \E f \in Listed(b) : ~ (Access(f) \subseteq Access(Element(a, f.id)))
Alike(old, new) ==
  LET a == Listed(old.deviceInvites)
      b == Listed(new.deviceInvites)
  IN  /\ old.postureAttributes = new.postureAttributes
      /\ {e.id : e \in a} = {f.id : f \in b}
      /\ \A f \in b : Access(f) = Access(Element(a, f.id))
      /\ a = {} /\ b = {} => old.deviceInvites = new.deviceInvites

LEMMA AccessIs ==
  /\ Access(Missing) = {}
  /\ \A e \in Invites : /\ e.accepted \in BOOLEAN /\ e.allowExitNode \in BOOLEAN
                        /\ "accepted" \in Access(e) <=> e.accepted
                        /\ "allowExitNode" \in Access(e) <=> e.allowExitNode
                        /\ Access(e) \subseteq {"accepted", "allowExitNode"}
<1>1. Access(Missing) = {}  BY DEF Access
<1>2. ASSUME NEW e \in Invites
      PROVE  /\ e.accepted \in BOOLEAN /\ e.allowExitNode \in BOOLEAN
             /\ "accepted" \in Access(e) <=> e.accepted
             /\ "allowExitNode" \in Access(e) <=> e.allowExitNode
             /\ Access(e) \subseteq {"accepted", "allowExitNode"}
  <2>1. e # Missing  BY ChangesAssumption
  <2>2. e.accepted \in BOOLEAN /\ e.allowExitNode \in BOOLEAN  BY DEF Invites
  <2> QED BY <2>1, <2>2 DEF Access
<1> QED BY <1>1, <1>2

\* The severity of a subfield that differs.
LEMMA SubfieldSeverity ==
  ASSUME NEW old \in DetailDocs, NEW new \in DetailDocs, NEW id \in Ids, NEW s \in Subfields,
         NEW e, e = Element(old.deviceInvites, id), e # Missing,
         NEW f, f = Element(new.deviceInvites, id), f # Missing,
         e[s] # f[s]
  PROVE  /\ e \in Invites /\ f \in Invites
         /\ PathSeverity(<<"deviceInvites", id, s>>, old, new) =
              IF s = "lastEmailSentAt" THEN 1 ELSE IF f[s] THEN 3 ELSE 2
<1>1. old.deviceInvites \in Lists /\ new.deviceInvites \in Lists  BY DEF DetailDocs
<1>2. e \in Invites /\ f \in Invites  BY <1>1, ElementIs
<1> DEFINE p == <<"deviceInvites", id, s>>
<1>3. p[1] = "deviceInvites" /\ p[2] = id /\ p[3] = s  OBVIOUS
<1>4. id # 0 /\ s # ""  BY ChangesAssumption DEF Subfields
<1> HIDE DEF p
<1>5. Lookup(old, p) = e[s] /\ Lookup(new, p) = f[s]  BY <1>3, <1>4 DEF Lookup
<1>6. PathSeverity(p, old, new) = FieldSeverity(s, e[s], f[s])
  BY <1>3, <1>4, <1>5 DEF PathSeverity, ShareSeverity
<1>7. CASE s = "lastEmailSentAt"  BY <1>2, <1>6, <1>7 DEF FieldSeverity, p
<1>8. CASE s # "lastEmailSentAt"
  <2>1. e[s] \in BOOLEAN /\ f[s] \in BOOLEAN  BY <1>2, <1>8 DEF Invites, Subfields
  <2>2. SwitchedOn(e[s], f[s]) <=> f[s]  BY <2>1 DEF SwitchedOn
  <2>3. FieldSeverity(s, e[s], f[s]) = IF f[s] THEN 3 ELSE 2  BY <1>8, <2>2 DEF FieldSeverity
  <2> QED BY <1>2, <1>6, <1>8, <2>3 DEF p
<1> QED BY <1>7, <1>8

\* The severity of an element that was added or removed.
LEMMA ElementSeverity ==
  ASSUME NEW old \in DetailDocs, NEW new \in DetailDocs, NEW id \in Ids
  PROVE  PathSeverity(<<"deviceInvites", id, "">>, old, new) =
           IF /\ Element(old.deviceInvites, id) = Missing
              /\ \/ Element(new.deviceInvites, id).allowExitNode
                 \/ Element(new.deviceInvites, id).accepted
           THEN 3 ELSE 2
<1> DEFINE p == <<"deviceInvites", id, "">>
<1>1. p[1] = "deviceInvites" /\ p[2] = id /\ p[3] = ""  OBVIOUS
<1>2. id # 0  BY ChangesAssumption
<1> HIDE DEF p
<1>3. /\ Lookup(old, p) = Element(old.deviceInvites, id)
      /\ Lookup(new, p) = Element(new.deviceInvites, id)
  BY <1>1, <1>2 DEF Lookup
<1>4. PathSeverity(p, old, new) =
           IF /\ Element(old.deviceInvites, id) = Missing
              /\ \/ Element(new.deviceInvites, id).allowExitNode
                 \/ Element(new.deviceInvites, id).accepted
           THEN 3 ELSE 2
  BY <1>1, <1>2, <1>3 DEF PathSeverity, ShareSeverity
<1> QED BY <1>4 DEF p

\* What a path of details whose shares were compared one by one says of them.
LEMMA ElementwiseSeverity ==
  ASSUME NEW old \in DetailDocs, NEW new \in DetailDocs,
         ArrayIdentity(old.deviceInvites, new.deviceInvites),
         NEW p \in Diff(old, new)
  PROVE  /\ PathSeverity(p, old, new) \in 1..3
         /\ PathSeverity(p, old, new) = 3 => Gains(old.deviceInvites, new.deviceInvites)
         /\ PathSeverity(p, old, new) >= 2 => ~ Alike(old, new)
<1> DEFINE a == old.deviceInvites
           b == new.deviceInvites
           sev == PathSeverity(p, old, new)
<1>1. a \in Lists /\ b \in Lists /\ ElementwisePaths(Diff(old, new), a, b)
      /\ (<<"postureAttributes", 0, "">> \in Diff(old, new)
              <=> old.postureAttributes # new.postureAttributes)
  BY DetailPaths
<1>2. \A id : Element(Listed(a), id) = Element(a, id)  BY <1>1, ListedOfList
<1>3. IdentifiedBy(Listed(a)) /\ IdentifiedBy(Listed(b))  BY DEF ArrayIdentity
<1>4. Alike(old, new) =>
        /\ old.postureAttributes = new.postureAttributes
        /\ {e.id : e \in Listed(a)} = {f.id : f \in Listed(b)}
        /\ \A f \in Listed(b) : Access(f) = Access(Element(a, f.id))
  BY <1>2 DEF Alike
<1>5. ASSUME p = <<"postureAttributes", 0, "">>
      PROVE  sev = 2 /\ ~ Alike(old, new)
  <2>1. p[2] = 0  BY <1>5
  <2>2. sev = 2  BY <2>1 DEF PathSeverity
  <2>3. ~ Alike(old, new)  BY <1>1, <1>4, <1>5
  <2> QED BY <2>2, <2>3
<1>6. ASSUME NEW id \in Ids, p = <<"deviceInvites", id, "">>
      PROVE  sev \in 2..3 /\ (sev = 3 => Gains(a, b)) /\ ~ Alike(old, new)
  <2>1. ~ (Element(a, id) = Missing <=> Element(b, id) = Missing)
    BY <1>1, <1>6 DEF ElementwisePaths
  <2>2. sev = IF /\ Element(a, id) = Missing
                 /\ Element(b, id).allowExitNode \/ Element(b, id).accepted
              THEN 3 ELSE 2
    BY <1>6, ElementSeverity
  <2>3. ASSUME Element(a, id) = Missing
        PROVE  /\ Element(b, id) \in Listed(b) /\ Element(b, id) \in Invites
               /\ Element(b, id).id = id
    BY <1>1, <2>1, <2>3, ElementIs
  <2>4. ASSUME sev = 3 PROVE Gains(a, b)
    <3>1. /\ Element(a, id) = Missing
          /\ Element(b, id).allowExitNode \/ Element(b, id).accepted
      BY <2>2, <2>4
    <3>2. /\ Element(b, id) \in Listed(b) /\ Element(b, id) \in Invites
          /\ Element(b, id).id = id
      BY <2>3, <3>1
    <3>3. Access(Element(a, id)) = {} /\ Access(Element(b, id)) # {}  BY <3>1, <3>2, AccessIs
    <3> QED BY <3>2, <3>3 DEF Gains
  <2>5. ~ Alike(old, new)
    <3>1. ASSUME Element(a, id) = Missing, NEW e \in Listed(a) PROVE e.id # id
      BY <1>1, <1>3, <3>1, ElementIs
    <3>2. ASSUME Element(b, id) = Missing, NEW f \in Listed(b) PROVE f.id # id
      BY <1>1, <1>3, <3>2, ElementIs
    <3>3. Element(a, id) # Missing => \E e \in Listed(a) : e.id = id  BY <1>1, ElementIs
    <3>4. Element(b, id) # Missing => \E f \in Listed(b) : f.id = id  BY <1>1, ElementIs
    <3>5. ~ (id \in {e.id : e \in Listed(a)} <=> id \in {f.id : f \in Listed(b)})
      BY <2>1, <3>1, <3>2, <3>3, <3>4
    <3> QED BY <1>4, <3>5
  <2>6. sev \in 2..3  BY <2>2
  <2> QED BY <2>4, <2>5, <2>6
<1>7. ASSUME NEW id \in Ids, NEW s \in Subfields, p = <<"deviceInvites", id, s>>
      PROVE  /\ sev \in 1..3
             /\ sev = 3 => Gains(a, b)
             /\ sev >= 2 => ~ Alike(old, new)
  <2> DEFINE e == Element(a, id)
             f == Element(b, id)
  <2>1. e # Missing /\ f # Missing /\ e[s] # f[s]
    BY <1>1, <1>7 DEF ElementwisePaths
  <2>2. /\ e \in Invites /\ f \in Invites
        /\ sev = IF s = "lastEmailSentAt" THEN 1 ELSE IF f[s] THEN 3 ELSE 2
    BY <1>7, <2>1, SubfieldSeverity
  <2>3. f \in Listed(b) /\ f.id = id  BY <1>1, <2>1, ElementIs
  <2> HIDE DEF e, f, sev
  <2>4. /\ "accepted" \in Access(e) <=> e.accepted
        /\ "allowExitNode" \in Access(e) <=> e.allowExitNode
        /\ "accepted" \in Access(f) <=> f.accepted
        /\ "allowExitNode" \in Access(f) <=> f.allowExitNode
        /\ e.accepted \in BOOLEAN /\ e.allowExitNode \in BOOLEAN
        /\ f.accepted \in BOOLEAN /\ f.allowExitNode \in BOOLEAN
    BY <2>2, AccessIs
  <2>5. ASSUME s # "lastEmailSentAt"
        PROVE  /\ s \in Access(e) <=> e[s]
               /\ s \in Access(f) <=> f[s]
               /\ e[s] \in BOOLEAN /\ f[s] \in BOOLEAN
    <3>1. s = "accepted" \/ s = "allowExitNode"  BY <2>5 DEF Subfields
    <3> QED BY <2>4, <3>1
  <2>6. ASSUME sev = 3 PROVE ~ (Access(f) \subseteq Access(e))
    <3>1. s # "lastEmailSentAt" /\ f[s]  BY <2>2, <2>6
    <3>2. ~ e[s]  BY <2>1, <2>5, <3>1
    <3> QED BY <2>5, <3>1, <3>2
  <2>7. ASSUME sev >= 2 PROVE Access(f) # Access(e)
    <3>1. s # "lastEmailSentAt"  BY <2>2, <2>7
    <3>2. ~ (e[s] <=> f[s])  BY <2>1, <2>5, <3>1
    <3> QED BY <2>5, <3>1, <3>2
  <2>8. sev = 3 => Gains(a, b)  BY <2>3, <2>6 DEF Gains, e
  <2>9. sev >= 2 => ~ Alike(old, new)  BY <1>4, <2>3, <2>7 DEF e
  <2> QED BY <2>2, <2>8, <2>9
<1>8. \/ p = <<"postureAttributes", 0, "">>
      \/ \E id \in Ids : \/ p = <<"deviceInvites", id, "">>
                         \/ \E s \in Subfields : p = <<"deviceInvites", id, s>>
  <2>1. \A q \in Diff(old, new) :
          \/ q = <<"postureAttributes", 0, "">>
          \/ \E id \in Ids : \/ q = <<"deviceInvites", id, "">>
                             \/ \E s \in Subfields : q = <<"deviceInvites", id, s>>
    BY <1>1 DEF ElementwisePaths
  <2> QED BY <2>1
<1> HIDE DEF sev, a, b
<1>9. sev \in 1..3 /\ (sev = 3 => Gains(a, b)) /\ (sev >= 2 => ~ Alike(old, new))
  <2>1. CASE p = <<"postureAttributes", 0, "">>
    <3>1. sev = 2 /\ ~ Alike(old, new)  BY <1>5, <2>1
    <3> QED BY <3>1
  <2>2. ASSUME NEW id \in Ids, p = <<"deviceInvites", id, "">>
        PROVE  sev \in 1..3 /\ (sev = 3 => Gains(a, b)) /\ (sev >= 2 => ~ Alike(old, new))
    <3>1. sev \in 2..3 /\ (sev = 3 => Gains(a, b)) /\ ~ Alike(old, new)  BY <1>6, <2>2
    <3> QED BY <3>1
  <2>3. ASSUME NEW id \in Ids, NEW s \in Subfields, p = <<"deviceInvites", id, s>>
        PROVE  sev \in 1..3 /\ (sev = 3 => Gains(a, b)) /\ (sev >= 2 => ~ Alike(old, new))
    BY <1>7, <2>3
  <2> QED BY <1>8, <2>1, <2>2, <2>3
<1> QED BY <1>9 DEF sev, a, b

\* The path that shows a gain of access, or any other difference.
LEMMA SeverePathExists ==
  ASSUME NEW old \in DetailDocs, NEW new \in DetailDocs,
         ArrayIdentity(old.deviceInvites, new.deviceInvites)
  PROVE  /\ Gains(old.deviceInvites, new.deviceInvites) =>
              \E p \in Diff(old, new) : PathSeverity(p, old, new) = 3
         /\ ~ Alike(old, new) => \E p \in Diff(old, new) : PathSeverity(p, old, new) \in 2..3
<1> DEFINE a == old.deviceInvites
           b == new.deviceInvites
           D == Diff(old, new)
           Sev(p) == PathSeverity(p, old, new)
<1>1. a \in Lists /\ b \in Lists /\ ElementwisePaths(D, a, b)
      /\ (<<"postureAttributes", 0, "">> \in D <=> old.postureAttributes # new.postureAttributes)
  BY DetailPaths
<1>2. \A id : Element(Listed(a), id) = Element(a, id)  BY <1>1, ListedOfList
<1>3. IdentifiedBy(Listed(a)) /\ IdentifiedBy(Listed(b))  BY DEF ArrayIdentity
<1>4. \A id \in Ids : <<"deviceInvites", id, "">> \in D
                        <=> ~ (Element(a, id) = Missing <=> Element(b, id) = Missing)
  BY <1>1 DEF ElementwisePaths
<1>5. \A id \in Ids, s \in Subfields :
        <<"deviceInvites", id, s>> \in D
          <=> /\ Element(a, id) # Missing /\ Element(b, id) # Missing
              /\ Element(a, id)[s] # Element(b, id)[s]
  BY <1>1 DEF ElementwisePaths
<1>6. \A id \in Ids :
        Sev(<<"deviceInvites", id, "">>) =
          IF /\ Element(a, id) = Missing
             /\ Element(b, id).allowExitNode \/ Element(b, id).accepted
          THEN 3 ELSE 2
  BY ElementSeverity
\* an invite of the new list whose access differs
<1>7. ASSUME NEW f \in Listed(b), Access(f) # Access(Element(a, f.id))
      PROVE  /\ \E p \in D : Sev(p) \in 2..3
             /\ ~ (Access(f) \subseteq Access(Element(a, f.id))) => \E p \in D : Sev(p) = 3
  <2> DEFINE e == Element(a, f.id)
  <2>1. Element(b, f.id) = f /\ f \in Invites /\ f # Missing /\ f.id \in Ids
    BY <1>1, <1>3, ElementIs
  <2>2. /\ f.accepted \in BOOLEAN /\ f.allowExitNode \in BOOLEAN
        /\ "accepted" \in Access(f) <=> f.accepted
        /\ "allowExitNode" \in Access(f) <=> f.allowExitNode
        /\ Access(f) \subseteq {"accepted", "allowExitNode"}
    BY <2>1, AccessIs
  <2>3. CASE e = Missing
    <3> DEFINE p == <<"deviceInvites", f.id, "">>
    <3>1. p \in D  BY <1>4, <2>1, <2>3
    <3>2. Access(e) = {}  BY <2>3, AccessIs
    <3>3. f.allowExitNode \/ f.accepted  BY <1>7, <2>2, <3>2
    <3>4. Sev(p) = 3  BY <1>6, <2>1, <2>3, <3>3
    <3> HIDE DEF p, D, Sev
    <3> QED BY <3>1, <3>4
  <2>4. CASE e # Missing
    <3>1. e \in Invites /\ e.id = f.id  BY <1>1, <2>4, ElementIs
    <3> HIDE DEF e
    <3>2. /\ e.accepted \in BOOLEAN /\ e.allowExitNode \in BOOLEAN
          /\ "accepted" \in Access(e) <=> e.accepted
          /\ "allowExitNode" \in Access(e) <=> e.allowExitNode
          /\ Access(e) \subseteq {"accepted", "allowExitNode"}
      BY <3>1, AccessIs
    <3>3. ASSUME NEW s \in {"accepted", "allowExitNode"}, ~ (s \in Access(e) <=> s \in Access(f))
          PROVE  /\ <<"deviceInvites", f.id, s>> \in D
                 /\ Sev(<<"deviceInvites", f.id, s>>) = IF s \in Access(f) THEN 3 ELSE 2
      <4>1. s \in Subfields /\ s # "lastEmailSentAt"  BY DEF Subfields
      <4>2. e[s] # f[s] /\ (s \in Access(f) <=> f[s])
        <5>1. CASE s = "accepted"  BY <2>2, <3>2, <3>3, <5>1
        <5>2. CASE s = "allowExitNode"  BY <2>2, <3>2, <3>3, <5>2
        <5> QED BY <5>1, <5>2
      <4>3. <<"deviceInvites", f.id, s>> \in D  BY <1>5, <2>1, <2>4, <4>1, <4>2 DEF e
      <4>4. Sev(<<"deviceInvites", f.id, s>>) =
              IF s = "lastEmailSentAt" THEN 1 ELSE IF f[s] THEN 3 ELSE 2
        <5>1. e = Element(old.deviceInvites, f.id) /\ f = Element(new.deviceInvites, f.id)
          BY <2>1 DEF e
        <5> QED BY <2>1, <2>4, <4>1, <4>2, <5>1, SubfieldSeverity
      <4> QED BY <4>1, <4>2, <4>3, <4>4
    <3> HIDE DEF D, Sev
    <3>4. PICK s \in {"accepted", "allowExitNode"} : ~ (s \in Access(e) <=> s \in Access(f))
      BY <1>7, <2>2, <3>2 DEF e
    <3>5. \E p \in D : Sev(p) \in 2..3
      <4>1. <<"deviceInvites", f.id, s>> \in D /\ Sev(<<"deviceInvites", f.id, s>>) \in 2..3
        BY <3>3, <3>4
      <4> QED BY <4>1
    <3>6. ASSUME ~ (Access(f) \subseteq Access(e)) PROVE \E p \in D : Sev(p) = 3
      <4>1. PICK t \in Access(f) : t \notin Access(e)  BY <3>6
      <4>2. t \in {"accepted", "allowExitNode"}  BY <2>2, <4>1
      <4>3. <<"deviceInvites", f.id, t>> \in D /\ Sev(<<"deviceInvites", f.id, t>>) = 3
        BY <3>3, <4>1, <4>2
      <4> QED BY <4>3
    <3> QED BY <3>5, <3>6 DEF e
  <2> QED BY <2>3, <2>4
<1>8. ASSUME Gains(a, b) PROVE \E p \in D : Sev(p) = 3
  <2>1. PICK f \in Listed(b) : ~ (Access(f) \subseteq Access(Element(a, f.id)))
    BY <1>8 DEF Gains
  <2>2. Access(f) # Access(Element(a, f.id))  BY <2>1
  <2> QED BY <1>7, <2>1, <2>2
<1>9. ASSUME ~ Alike(old, new) PROVE \E p \in D : Sev(p) \in 2..3
  <2>1. CASE old.postureAttributes # new.postureAttributes
    <3> DEFINE p == <<"postureAttributes", 0, "">>
    <3>1. p \in D  BY <1>1, <2>1
    <3>2. p[2] = 0  OBVIOUS
    <3>3. Sev(p) = 2  BY <3>2 DEF PathSeverity
    <3> HIDE DEF p, D, Sev
    <3> QED BY <3>1, <3>3
  <2>2. CASE \E f \in Listed(b) : Access(f) # Access(Element(a, f.id))  BY <1>7, <2>2
  <2>3. CASE {e.id : e \in Listed(a)} # {f.id : f \in Listed(b)}
    <3>1. \A e \in Listed(a) : Element(a, e.id) = e /\ e # Missing /\ e.id \in Ids
      BY <1>1, <1>3, ElementIs
    <3>2. \A f \in Listed(b) : Element(b, f.id) = f /\ f # Missing /\ f.id \in Ids
      BY <1>1, <1>3, ElementIs
    <3>3. \A id : Element(a, id) # Missing => \E e \in Listed(a) : e.id = id  BY <1>1, ElementIs
    <3>4. \A id : Element(b, id) # Missing => \E f \in Listed(b) : f.id = id  BY <1>1, ElementIs
    <3>5. PICK id \in Ids : ~ (Element(a, id) = Missing <=> Element(b, id) = Missing)
      <4> SUFFICES ASSUME \A id \in Ids : Element(a, id) = Missing <=> Element(b, id) = Missing
                   PROVE  FALSE
        OBVIOUS
      <4>1. \A e \in Listed(a) : \E f \in Listed(b) : f.id = e.id  BY <3>1, <3>4
      <4>2. \A f \in Listed(b) : \E e \in Listed(a) : e.id = f.id  BY <3>2, <3>3
      <4> HIDE DEF a, b
      <4> QED BY <2>3, <4>1, <4>2
    <3> DEFINE p == <<"deviceInvites", id, "">>
    <3>6. p \in D  BY <1>4, <3>5
    <3>7. Sev(p) \in 2..3
      <4>1. Sev(p) = 3 \/ Sev(p) = 2
        <5> HIDE DEF Sev, a, b
        <5> QED BY <1>6
      <4> HIDE DEF Sev, p
      <4> QED BY <4>1
    <3> HIDE DEF p, D, Sev
    <3> QED BY <3>6, <3>7
  <2>4. Listed(a) = {} /\ Listed(b) = {} => a = b
    <3>1. /\ IsList(a) => Listed(a) = a
          /\ ~ IsList(a) => Listed(a) = {}
          /\ IsList(b) => Listed(b) = b
          /\ ~ IsList(b) => Listed(b) = {}
      BY <1>1, ListedOfList
    <3>2. \/ IsList(a) /\ IsList(b)
          \/ ~ IsList(a) /\ IsList(b) /\ b # {}
          \/ IsList(a) /\ a # {} /\ ~ IsList(b)
      BY DEF ArrayIdentity
    <3> HIDE DEF a, b
    <3> QED BY <3>1, <3>2
  <2>5. Alike(old, new) <=>
          /\ old.postureAttributes = new.postureAttributes
          /\ {e.id : e \in Listed(a)} = {f.id : f \in Listed(b)}
          /\ \A f \in Listed(b) : Access(f) = Access(Element(a, f.id))
          /\ Listed(a) = {} /\ Listed(b) = {} => a = b
    BY <1>2 DEF Alike
  <2> QED BY <1>9, <2>1, <2>2, <2>3, <2>4, <2>5
<1> QED BY <1>8, <1>9

\* The severity of a set of paths is that of its most severe path.
LEMMA DetailsClassified ==
  ASSUME NEW old, NEW new, NEW P, \A p \in P : PathSeverity(p, old, new) \in 1..3
  PROVE  /\ ClassifyDeviceDetails(P, old, new) \in 1..3
         /\ \A p \in P : PathSeverity(p, old, new) <= ClassifyDeviceDetails(P, old, new)
         /\ \/ ClassifyDeviceDetails(P, old, new) = 1
            \/ \E p \in P : PathSeverity(p, old, new) = ClassifyDeviceDetails(P, old, new)
<1> DEFINE S == {1} \cup {PathSeverity(p, old, new) : p \in P}
<1>1. ClassifyDeviceDetails(P, old, new) = Max(S)  BY DEF ClassifyDeviceDetails, PathSeverity
<1>2. S \in SUBSET (1..3) /\ S # {}  OBVIOUS
<1>3. Max(S) \in S /\ \A y \in S : y <= Max(S)
  <2> HIDE DEF S
  <2> QED BY <1>2, MaxOfThree
<1> QED BY <1>1, <1>2, <1>3

LEMMA WorstOfDetailsIs ==
  ASSUME NEW old \in DetailDocs, NEW new \in DetailDocs
  PROVE  WorstOfDetails(old, new) =
           IF ~ (/\ IdentifiedBy(Listed(old.deviceInvites))
                 /\ IdentifiedBy(Listed(new.deviceInvites))) THEN 2
           ELSE IF Gains(old.deviceInvites, new.deviceInvites) THEN 3
           ELSE IF Alike(old, new) THEN 1
           ELSE 2
<1>1. old.deviceInvites \in Lists  BY DEF DetailDocs
<1>2. \A id : Element(Listed(old.deviceInvites), id) = Element(old.deviceInvites, id)
  BY <1>1, ListedOfList
<1> QED BY <1>2 DEF WorstOfDetails, Gains, Alike

LEMMA DetailSeverity ==
  ASSUME NEW old \in DetailDocs, NEW new \in DetailDocs, old # new,
         NEW P, P \subseteq Diff(old, new)
  PROVE  /\ ClassifyDeviceDetails(P, old, new) \in 1..3
         /\ ClassifyDeviceDetails(P, old, new) = 3 => WorstOfDetails(old, new) = 3
         /\ P = Diff(old, new) => ClassifyDeviceDetails(P, old, new) = WorstOfDetails(old, new)
<1> DEFINE a == old.deviceInvites
           b == new.deviceInvites
           D == Diff(old, new)
           Sev(p) == PathSeverity(p, old, new)
           shown == ClassifyDeviceDetails(P, old, new)
           worst == WorstOfDetails(old, new)
<1>1. a \in Lists /\ b \in Lists  BY DetailPaths
<1>2. worst = IF ~ (IdentifiedBy(Listed(a)) /\ IdentifiedBy(Listed(b))) THEN 2
              ELSE IF Gains(a, b) THEN 3
              ELSE IF Alike(old, new) THEN 1
              ELSE 2
  BY WorstOfDetailsIs
<1>3. CASE ArrayIdentity(a, b)
  <2>1. \A p \in D : /\ Sev(p) \in 1..3
                     /\ Sev(p) = 3 => Gains(a, b)
                     /\ Sev(p) >= 2 => ~ Alike(old, new)
    BY <1>3, ElementwiseSeverity
  <2>2. /\ Gains(a, b) => \E p \in D : Sev(p) = 3
        /\ ~ Alike(old, new) => \E p \in D : Sev(p) \in 2..3
    BY <1>3, SeverePathExists
  <2>3. IdentifiedBy(Listed(a)) /\ IdentifiedBy(Listed(b))  BY <1>3 DEF ArrayIdentity
  <2>4. \A p \in P : p \in D /\ Sev(p) \in 1..3  BY <2>1
  <2>5. /\ shown \in 1..3
        /\ \A p \in P : Sev(p) <= shown
        /\ shown = 1 \/ \E p \in P : Sev(p) = shown
    BY <2>4, DetailsClassified
  <2> HIDE DEF Sev, D, a, b, shown, worst
  <2>6. Gains(a, b) => ~ Alike(old, new)
    <3> SUFFICES ASSUME Gains(a, b) PROVE ~ Alike(old, new)  OBVIOUS
    <3>1. PICK p \in D : Sev(p) = 3  BY <2>2
    <3> QED BY <2>1, <3>1
  <2>7. shown = 3 => worst = 3
    <3> SUFFICES ASSUME shown = 3 PROVE worst = 3  OBVIOUS
    <3>1. PICK p \in P : Sev(p) = 3  BY <2>5
    <3>2. Gains(a, b)  BY <2>1, <2>4, <3>1
    <3> QED BY <1>2, <2>3, <3>2
  <2>8. ASSUME P = D PROVE shown = worst
    <3>1. CASE Gains(a, b)
      <4>1. PICK p \in D : Sev(p) = 3  BY <2>2, <3>1
      <4>2. shown = 3  BY <2>5, <2>8, <4>1
      <4> QED BY <2>7, <4>2
    <3>2. CASE ~ Gains(a, b) /\ Alike(old, new)
      <4>1. shown = 1
        <5> SUFFICES ASSUME shown # 1 PROVE FALSE  OBVIOUS
        <5>1. PICK p \in P : Sev(p) = shown  BY <2>5
        <5>2. Sev(p) >= 2  BY <2>5, <5>1
        <5> QED BY <2>1, <2>4, <3>2, <5>2
      <4> QED BY <1>2, <2>3, <3>2, <4>1
    <3>3. CASE ~ Gains(a, b) /\ ~ Alike(old, new)
      <4>1. PICK p \in D : Sev(p) \in 2..3  BY <2>2, <3>3
      <4>2. shown >= 2  BY <2>5, <2>8, <4>1
      <4>3. shown # 3  BY <1>2, <2>3, <2>7, <3>3
      <4>4. shown = 2  BY <2>5, <4>2, <4>3
      <4> QED BY <1>2, <2>3, <3>3, <4>4
    <3> QED BY <3>1, <3>2, <3>3
  <2>9. shown \in 1..3 /\ (shown = 3 => worst = 3) /\ (P = D => shown = worst)
    BY <2>5, <2>7, <2>8
  <2> QED BY <2>9 DEF Sev, D, a, b, shown, worst
<1>4. CASE ~ ArrayIdentity(a, b)
  <2>1. \A p \in D : p \in {<<"postureAttributes", 0, "">>, <<"deviceInvites", 0, "">>}
    BY <1>4, DetailPaths
  <2>2. \A p \in D : Sev(p) = 2
    <3> TAKE p \in D
    <3>1. p = <<"postureAttributes", 0, "">> \/ p = <<"deviceInvites", 0, "">>  BY <2>1
    <3>2. p[2] = 0
      <4>1. CASE p = <<"postureAttributes", 0, "">>  BY <4>1
      <4>2. CASE p = <<"deviceInvites", 0, "">>  BY <4>2
      <4> QED BY <3>1, <4>1, <4>2
    <3> QED BY <3>2 DEF PathSeverity
  <2>3. \A p \in P : p \in D /\ Sev(p) \in 1..3
    <3>1. P \subseteq D  OBVIOUS
    <3> HIDE DEF Sev, D
    <3> QED BY <2>2, <3>1
  <2>4. /\ shown \in 1..3
        /\ \A p \in P : Sev(p) <= shown
        /\ shown = 1 \/ \E p \in P : Sev(p) = shown
    BY <2>3, DetailsClassified
  <2>5. shown # 3
    <3> HIDE DEF Sev, D, shown
    <3> QED BY <2>2, <2>3, <2>4
  <2>6. D # {}  BY DiffIsComplete DEF Docs, Collectors
  <2>7. P = D => shown = 2
    <3> SUFFICES ASSUME P = D PROVE shown = 2  OBVIOUS
    <3>1. PICK p \in P : TRUE  BY <2>6
    <3>2. Sev(p) = 2 /\ Sev(p) <= shown  BY <2>2, <2>3, <2>4, <3>1
    <3> HIDE DEF Sev, D, shown
    <3> QED BY <2>4, <2>5, <3>2
  <2>8. worst = 2
    <3>1. CASE ~ (IdentifiedBy(Listed(a)) /\ IdentifiedBy(Listed(b)))  BY <1>2, <3>1
    <3>2. CASE IdentifiedBy(Listed(a)) /\ IdentifiedBy(Listed(b))
      <4>1. Listed(a) = {} /\ Listed(b) = {}
        <5>1. /\ IsList(a) => Listed(a) = a
              /\ ~ IsList(a) => Listed(a) = {}
              /\ IsList(b) => Listed(b) = b
              /\ ~ IsList(b) => Listed(b) = {}
          BY <1>1, ListedOfList
        <5>2. ~ \/ IsList(a) /\ IsList(b)
                \/ ~ IsList(a) /\ IsList(b) /\ b # {}
                \/ IsList(a) /\ a # {} /\ ~ IsList(b)
          BY <1>4, <3>2 DEF ArrayIdentity
        <5> HIDE DEF a, b
        <5> QED BY <5>1, <5>2
      <4>2. ~ Gains(a, b)  BY <4>1 DEF Gains
      <4>3. ~ Alike(old, new)
        <5> SUFFICES ASSUME Alike(old, new) PROVE FALSE  OBVIOUS
        <5>1. old.postureAttributes = new.postureAttributes /\ a = b  BY <4>1 DEF Alike
        <5>2. old = new  BY <5>1 DEF DetailDocs
        <5> QED BY <5>2
      <4> QED BY <1>2, <3>2, <4>2, <4>3
    <3> QED BY <3>1, <3>2
  <2> HIDE DEF Sev, D, shown, worst, a, b
  <2>9. shown \in 1..3 /\ (shown = 3 => worst = 3) /\ (P = D => shown = worst)
    BY <2>4, <2>5, <2>7, <2>8
  <2> QED BY <2>9 DEF D, shown, worst
<1> QED BY <1>3, <1>4

\* The severity of a recorded change.
LEMMA ChangeSeverity ==
  ASSUME NEW c \in Collectors, NEW old \in Docs(c), NEW new \in Docs(c), old # new,
         NEW worst, worst = IF c = "devices" THEN WorstOfDevice(old, new)
                            ELSE WorstOfDetails(old, new)
  PROVE  IF Kept(Diff(old, new)) = Diff(old, new)
         THEN Classify(c, "changed", old, new) = worst
         ELSE Classify(c, "changed", old, new) \in 2..Max({2, worst})
<1> DEFINE D == Diff(old, new)
           P == Kept(D)
           shown == IF c = "devices" THEN ClassifyDeviceFields(P, old, new)
                    ELSE ClassifyDeviceDetails(P, old, new)
           S == {shown} \cup {2 : p \in D \ P}
           severity == Classify(c, "changed", old, new)
<1>1. D \in SUBSET Paths /\ D # {}  BY DiffIsComplete
<1>2. P \subseteq D
  <2> HIDE DEF D
  <2> QED BY <1>1, KeptNonempty
<1>3. /\ shown \in 1..3
      /\ shown = 3 => worst = 3
      /\ P = D => shown = worst
  <2> HIDE DEF P
  <2>1. CASE c = "devices"
    <3>1. old \in DeviceDocs /\ new \in DeviceDocs  BY <2>1 DEF Docs
    <3> QED BY <1>2, <2>1, <3>1, DeviceSeverity
  <2>2. CASE c # "devices"
    <3>1. old \in DetailDocs /\ new \in DetailDocs  BY <2>2 DEF Docs
    <3> QED BY <1>2, <2>2, <3>1, DetailSeverity
  <2> QED BY <2>1, <2>2
<1>4. severity = Max(S)  BY DEF Classify
<1> HIDE DEF P, D, shown, severity
<1>5. S \in SUBSET (1..3) /\ S # {}  BY <1>3
<1>6. Max(S) \in S /\ \A y \in S : y <= Max(S)
  <2> HIDE DEF S
  <2> QED BY <1>5, MaxOfThree
<1>7. CASE P = D
  <2>1. S = {shown}  BY <1>7
  <2>2. severity = shown  BY <1>4, <1>6, <2>1
  <2> QED BY <1>3, <1>7, <2>2 DEF P, D, severity
<1>8. CASE P # D
  <2>1. D \ P # {}  BY <1>2, <1>8
  <2>2. S = {shown, 2}  BY <2>1
  <2>3. severity \in {shown, 2} /\ shown <= severity /\ 2 <= severity  BY <1>4, <1>6, <2>2
  <2>4. worst \in 1..3
    <3>1. CASE c = "devices"  BY <3>1 DEF WorstOfDevice
    <3>2. CASE c # "devices"
      <4>1. old \in DetailDocs /\ new \in DetailDocs  BY <3>2 DEF Docs
      <4> QED BY <3>2, <4>1, WorstOfDetailsIs
    <3> QED BY <3>1, <3>2
  <2>5. /\ Max({2, worst}) \in {2, worst}
        /\ 2 <= Max({2, worst}) /\ worst <= Max({2, worst})
    <3>1. {2, worst} \in SUBSET (1..3) /\ {2, worst} # {}  BY <2>4
    <3> QED BY <3>1, MaxOfThree
  <2>6. severity \in 2..Max({2, worst})
    <3> DEFINE m == Max({2, worst})
    <3>1. m \in 1..3 /\ 2 <= m /\ worst <= m  BY <2>4, <2>5
    <3>2. severity \in 1..3  BY <1>3, <2>3
    <3> HIDE DEF m
    <3>3. severity \in 2..m  BY <1>3, <2>3, <2>4, <3>1, <3>2
    <3> QED BY <3>3 DEF m
  <2> QED BY <1>8, <2>6 DEF P, D, severity
<1> QED BY <1>7, <1>8

----------------------------------------------------------------------------
(* The edits keep the types, and record nothing *)

\* A step that records nothing and leaves both documents alone.
Quiet == record' = None /\ UNCHANGED <<collector, stored, view, lastSuccess, guard>>

LEMMA QuietKeeps ==
  ASSUME FieldsExplainSnapshots, Quiet
  PROVE  FieldsExplainSnapshots' /\ SeverityIsWorst'
<1>1. record' = None /\ stored' = stored /\ view' = view  BY DEF Quiet
<1>2. SeverityIsWorst'  BY <1>1 DEF SeverityIsWorst
<1>3. FieldsExplainSnapshots'  BY <1>1 DEF FieldsExplainSnapshots, SameDocument
<1> QED BY <1>2, <1>3

LEMMA AppendEntry ==
  ASSUME NEW S, NEW l \in Seq(S), NEW e \in S
  PROVE  Append(l, e) \in Seq(S)
OBVIOUS

LEMMA LoggedKeeps ==
  ASSUME TypeOK,
         NEW type \in {"NODE", "INVITE"}, NEW target \in Ids \cup {0}, NEW did \in Ids \cup {0},
         NEW action \in {"CREATE", "DELETE", "APPROVE", "UPDATE"},
         NEW property \in {"", "ACL_TAGS", "ATTRIBUTES"}, NEW failed \in BOOLEAN,
         Logged(type, target, did, action, property, failed),
         live' \in Docs(collector) \cup {d \in {None} : collector = "devices"}
  PROVE  TypeOK' /\ Quiet
<1> DEFINE e == [at |-> now, type |-> type, target |-> target, did |-> did, action |-> action,
                 property |-> property, failed |-> failed]
<1>1. e \in Entries  BY DEF TypeOK, Entries
<1>2. log' \in Seq(Entries)
  <2>1. log' = Append(log, e) /\ log \in Seq(Entries)  BY DEF TypeOK, Logged
  <2> HIDE DEF e
  <2>2. Append(log, e) \in Seq(Entries)  BY <1>1, <2>1, AppendEntry
  <2> QED BY <2>1, <2>2
<1>3. /\ collector' = collector /\ now' = now /\ stored' = stored /\ view' = view
      /\ lastSuccess' = lastSuccess /\ guard' = guard /\ poll' = poll /\ record' = None
  BY DEF Logged, NoRecord, State
<1> QED BY <1>2, <1>3 DEF TypeOK, Quiet

LEMMA JoinKeeps ==
  ASSUME TypeOK, NEW tags \in SUBSET {"tag"}, Join(tags)
  PROVE  TypeOK' /\ Quiet
<1>1. /\ live' = [authorized |-> FALSE, clientVersion |-> 0, tags |-> tags]
      /\ collector = "devices"
  BY DEF Join
<1>2. live' \in DeviceDocs  BY <1>1 DEF DeviceDocs
<1>3. live' \in Docs(collector)  BY <1>1, <1>2 DEF Docs
<1> QED BY <1>3, LoggedKeeps DEF Join

LEMMA RemoveKeeps == ASSUME TypeOK, Remove PROVE TypeOK' /\ Quiet
<1>1. live' = None /\ collector = "devices"  BY DEF Remove
<1> QED BY <1>1, LoggedKeeps DEF Remove

LEMMA ApproveKeeps == ASSUME TypeOK, Approve PROVE TypeOK' /\ Quiet
<1>1. collector = "devices" /\ live \in DeviceDocs  BY DEF Approve, TypeOK, Docs
<1>2. live' \in DeviceDocs  BY <1>1 DEF Approve, DeviceDocs
<1>3. live' \in Docs(collector)  BY <1>1, <1>2 DEF Docs
<1> QED BY <1>3, LoggedKeeps DEF Approve

LEMMA RetagKeeps == ASSUME TypeOK, NEW failed \in BOOLEAN, Retag(failed) PROVE TypeOK' /\ Quiet
<1>1. CASE failed \/ collector # "devices"
  <2>1. live' = live  BY <1>1 DEF Retag
  <2>2. live' \in Docs(collector) \cup {d \in {None} : collector = "devices"}  BY <2>1 DEF TypeOK
  <2> QED BY <2>2, LoggedKeeps DEF Retag
<1>2. CASE ~ failed /\ collector = "devices"
  <2>1. live # None  BY DEF Retag, Logged
  <2>2. live \in DeviceDocs  BY <1>2, <2>1 DEF TypeOK, Docs
  <2>3. live' = [live EXCEPT !.tags = {"tag"} \ @]  BY <1>2 DEF Retag
  <2>4. live' \in DeviceDocs
    <3>1. {"tag"} \ live.tags \in SUBSET {"tag"}  OBVIOUS
    <3>2. live' = [live EXCEPT !.tags = {"tag"} \ live.tags]  BY <2>3
    <3> QED BY <2>2, <3>1, <3>2 DEF DeviceDocs
  <2>5. live' \in Docs(collector)  BY <1>2, <2>4 DEF Docs
  <2> QED BY <2>5, LoggedKeeps DEF Retag
<1> QED BY <1>1, <1>2

LEMMA UpgradeKeeps == ASSUME TypeOK, Upgrade PROVE TypeOK' /\ Quiet
<1>1. collector = "devices" /\ live \in DeviceDocs  BY DEF Upgrade, TypeOK, Docs
<1>2. live' \in DeviceDocs  BY <1>1 DEF Upgrade, DeviceDocs
<1>3. live' \in Docs(collector)  BY <1>1, <1>2 DEF Docs
<1>4. /\ collector' = collector /\ now' = now /\ stored' = stored /\ view' = view
      /\ lastSuccess' = lastSuccess /\ guard' = guard /\ poll' = poll /\ record' = None
      /\ log' = log
  BY DEF Upgrade, NoRecord, State
<1> QED BY <1>3, <1>4 DEF TypeOK, Quiet

LEMMA DetailsAreThere ==
  ASSUME TypeOK, collector = "device_details"
  PROVE  live \in DetailDocs /\ Docs(collector) = DetailDocs
BY DEF TypeOK, Docs

LEMMA SetAttributeKeeps == ASSUME TypeOK, SetAttribute PROVE TypeOK' /\ Quiet
<1>1. live \in DetailDocs /\ Docs(collector) = DetailDocs  BY DetailsAreThere DEF SetAttribute
<1>2. live' \in DetailDocs  BY <1>1 DEF SetAttribute, DetailDocs
<1> QED BY <1>1, <1>2, LoggedKeeps DEF SetAttribute

LEMMA EditSharesKeeps ==
  ASSUME TypeOK, collector = "device_details",
         NEW list \in Lists, NEW id \in Ids, NEW target \in {id, 0},
         NEW action \in {"CREATE", "DELETE", "UPDATE"}, EditShares(list, id, target, action)
  PROVE  TypeOK' /\ Quiet
<1>1. live \in DetailDocs /\ Docs(collector) = DetailDocs  BY DetailsAreThere
<1>2. live' \in DetailDocs  BY <1>1 DEF EditShares, DetailDocs
<1> QED BY <1>1, <1>2, LoggedKeeps DEF EditShares

LEMMA ShareKeeps ==
  ASSUME TypeOK, NEW id \in Ids, NEW exit \in BOOLEAN, Share(id, exit)
  PROVE  TypeOK' /\ Quiet
<1> DEFINE f == [id |-> id, accepted |-> FALSE, allowExitNode |-> exit, lastEmailSentAt |-> 0]
<1>1. f \in Invites  BY DEF Invites
<1>2. live.deviceInvites \in Lists  BY DetailsAreThere DEF Share, DetailDocs
<1>3. Listed(live.deviceInvites) \cup {f} \in SUBSET Invites
  <2> HIDE DEF f
  <2> QED BY <1>1, <1>2, ListedOfList
<1>4. Listed(live.deviceInvites) \cup {f} \in Lists
  <2> HIDE DEF f
  <2> QED BY <1>3 DEF Lists
<1> QED BY <1>4, EditSharesKeeps DEF Share

\* A list with an element is a list.
LEMMA ListWithElement ==
  ASSUME NEW v \in Lists, NEW id, Element(v, id) # Missing
  PROVE  v \in SUBSET Invites /\ Listed(v) = v /\ Element(v, id) \in v /\ Element(v, id) \in Invites
<1>1. Element(v, id) \in Listed(v) /\ Element(v, id) \in Invites  BY ElementIs
<1>2. IsList(v)  BY <1>1, ListedOfList
<1>3. Listed(v) = v /\ Listed(v) \in SUBSET Invites  BY <1>2, ListedOfList
<1> QED BY <1>1, <1>3

LEMMA UnshareKeeps == ASSUME TypeOK, NEW id \in Ids, Unshare(id) PROVE TypeOK' /\ Quiet
<1> DEFINE v == live.deviceInvites
           left == v \ {Element(v, id)}
<1>1. v \in Lists /\ collector = "device_details"  BY DetailsAreThere DEF Unshare, DetailDocs
<1>2. Element(v, id) # Missing  BY DEF Unshare
<1>3. v \in SUBSET Invites
  <2> HIDE DEF v
  <2> QED BY <1>1, <1>2, ListWithElement
<1>4. PICK list \in {left} \cup {w \in {Missing} : left = {}} : EditShares(list, id, id, "DELETE")
  BY DEF Unshare
<1>5. list \in Lists  BY <1>3 DEF Lists
<1> QED BY <1>1, <1>4, <1>5, EditSharesKeeps

\* What UpdateShare may make of an invite.
Updates(e) == {[e EXCEPT !.accepted = TRUE], [e EXCEPT !.allowExitNode = ~ @],
               [e EXCEPT !.lastEmailSentAt = 1]} \ {e}

LEMMA UpdatesAreInvites ==
  ASSUME NEW e \in Invites, NEW f \in Updates(e)
  PROVE  f \in Invites /\ f.id = e.id
<1>1. CASE f = [e EXCEPT !.accepted = TRUE]  BY <1>1 DEF Invites
<1>2. CASE f = [e EXCEPT !.allowExitNode = ~ @]  BY <1>2 DEF Invites
<1>3. CASE f = [e EXCEPT !.lastEmailSentAt = 1]  BY <1>3 DEF Invites
<1> QED BY <1>1, <1>2, <1>3 DEF Updates

LEMMA UpdateShareKeeps == ASSUME TypeOK, NEW id \in Ids, UpdateShare(id) PROVE TypeOK' /\ Quiet
<1> DEFINE v == live.deviceInvites
           e == Element(v, id)
<1>1. v \in Lists /\ collector = "device_details"  BY DetailsAreThere DEF UpdateShare, DetailDocs
<1>2. e # Missing  BY DEF UpdateShare
<1>3. v \in SUBSET Invites /\ e \in Invites
  <2> HIDE DEF v
  <2> QED BY <1>1, <1>2, ListWithElement DEF e
<1>4. PICK f \in Updates(e), target \in {id, 0} : EditShares((v \ {e}) \cup {f}, id, target, "UPDATE")
  BY DEF UpdateShare, Updates
<1>5. f \in Invites
  <2> HIDE DEF e
  <2> QED BY <1>3, <1>4, UpdatesAreInvites
<1>6. (v \ {e}) \cup {f} \in Lists
  <2> HIDE DEF v, e
  <2> QED BY <1>3, <1>5 DEF Lists
<1> HIDE DEF v, e
<1> QED BY <1>1, <1>4, <1>6, EditSharesKeeps

----------------------------------------------------------------------------
(* The poll *)

LEMMA MinOfTwo ==
  ASSUME NEW x \in Int, NEW y \in Int
  PROVE  Min({x, y}) = IF x <= y THEN x ELSE y
<1>1. CASE x <= y
  <2>1. \A m \in {x, y} : (\A z \in {x, y} : m <= z) => m = x  BY <1>1
  <2>2. \A z \in {x, y} : x <= z  BY <1>1
  <2> QED BY <1>1, <2>1, <2>2 DEF Min
<1>2. CASE ~ (x <= y)
  <2>1. \A m \in {x, y} : (\A z \in {x, y} : m <= z) => m = y  BY <1>2
  <2>2. \A z \in {x, y} : y <= z  BY <1>2
  <2> QED BY <1>2, <2>1, <2>2 DEF Min
<1> QED BY <1>1, <1>2

LEMMA FailuresCounted ==
  ASSUME TypeOK
  PROVE  Min({guard.failures + 1, FailureCap}) \in 0..FailureCap
<1>0. guard.failures \in 0..FailureCap  BY DEF TypeOK
<1>1. guard.failures \in Nat /\ FailureCap = 2  BY <1>0 DEF FailureCap
<1>2. guard.failures + 1 \in Nat  BY <1>1
<1> DEFINE n == guard.failures + 1
<1>3. Min({n, FailureCap}) = IF n <= FailureCap THEN n ELSE FailureCap
  <2> HIDE DEF n
  <2> QED BY <1>1, <1>2, MinOfTwo DEF n
<1> QED BY <1>1, <1>2, <1>3

LEMMA TickKeeps == ASSUME TypeOK, Tick PROVE TypeOK' /\ Quiet
<1>1. now' \in Nat
  <2>1. now \in Nat  BY DEF TypeOK
  <2>2. now' = now + 1  BY DEF Tick
  <2> QED BY <2>1, <2>2
<1>2. /\ collector' = collector /\ live' = live /\ log' = log /\ stored' = stored /\ view' = view
      /\ lastSuccess' = lastSuccess /\ guard' = guard /\ poll' = poll /\ record' = None
  BY DEF Tick, NoRecord, State, World
<1> QED BY <1>1, <1>2 DEF TypeOK, Quiet

LEMMA BeginPollKeeps == ASSUME TypeOK, BeginPoll PROVE TypeOK' /\ Quiet
<1>1. PICK answer \in {Ok(live)} \cup {a \in {Omitted} : collector = "device_details"} :
        poll' = [step |-> "reading", began |-> now, answer |-> answer,
                 upto |-> Len(log), observed |-> now]
  BY DEF BeginPoll
<1>2. answer \in Answers(collector)
  <2>1. Omitted \in Answers(collector)  BY DEF Omitted, Answers
  <2>2. Ok(live) \in Answers(collector)
    <3>1. CASE live = None  BY <3>1 DEF Ok, Answers
    <3>2. CASE live # None
      <4>1. live \in Docs(collector)  BY <3>2 DEF TypeOK
      <4> QED BY <3>2, <4>1 DEF Ok, Answers
    <3> QED BY <3>1, <3>2
  <2> QED BY <1>1, <2>1, <2>2
<1>3. now \in Nat /\ Len(log) \in Nat
  <2>1. now \in Nat /\ log \in Seq(Entries)  BY DEF TypeOK
  <2> QED BY <2>1
<1>4. poll' \in [step : {"reading", "fetched"}, began : Nat, answer : Answers(collector),
                 upto : Nat, observed : Nat]
  BY <1>1, <1>2, <1>3
<1>5. /\ collector' = collector /\ live' = live /\ log' = log /\ stored' = stored /\ view' = view
      /\ lastSuccess' = lastSuccess /\ guard' = guard /\ now' = now /\ record' = None
  BY DEF BeginPoll, NoRecord, State, World
<1> QED BY <1>4, <1>5 DEF TypeOK, Quiet

LEMMA PollUnderWay ==
  ASSUME TypeOK, NEW s \in {"reading", "fetched"}, poll.step = s
  PROVE  poll \in [step : {"reading", "fetched"}, began : Nat, answer : Answers(collector),
                   upto : Nat, observed : Nat]
<1>1. Idle.step = "idle"  BY DEF Idle
<1> QED BY <1>1 DEF TypeOK

LEMMA EndReadKeeps == ASSUME TypeOK, EndRead PROVE TypeOK' /\ Quiet
<1>1. poll \in [step : {"reading", "fetched"}, began : Nat, answer : Answers(collector),
                upto : Nat, observed : Nat]
  BY PollUnderWay DEF EndRead
<1>2. now \in Nat /\ poll' = [poll EXCEPT !.step = "fetched", !.observed = now]
  BY DEF EndRead, TypeOK
<1>3. poll' \in [step : {"reading", "fetched"}, began : Nat, answer : Answers(collector),
                 upto : Nat, observed : Nat]
  BY <1>1, <1>2
<1>4. /\ collector' = collector /\ live' = live /\ log' = log /\ stored' = stored /\ view' = view
      /\ lastSuccess' = lastSuccess /\ guard' = guard /\ now' = now /\ record' = None
  BY DEF EndRead, NoRecord, State, World
<1> QED BY <1>3, <1>4 DEF TypeOK, Quiet

LEMMA NoSnapshot ==
  ASSUME NEW c \in Collectors, NEW row \in Snapshot(c)
  PROVE  row # None
<1>1. DOMAIN row = {"doc", "missing", "upto", "late", "broken"}  BY DEF Snapshot
<1>2. DOMAIN None = {"kind"}  BY DEF None
<1>3. "doc" \in {"doc", "missing", "upto", "late", "broken"} /\ "doc" \notin {"kind"}  OBVIOUS
<1> QED BY <1>1, <1>2, <1>3

LEMMA FailPollKeeps ==
  ASSUME TypeOK, FieldsExplainSnapshots, FailPoll
  PROVE  TypeOK' /\ FieldsExplainSnapshots' /\ SeverityIsWorst'
<1>1. /\ collector' = collector /\ live' = live /\ log' = log /\ view' = view
      /\ lastSuccess' = lastSuccess /\ now' = now /\ record' = None /\ poll' = poll
  BY DEF FailPoll, NoRecord, World
<1>2. guard' \in [failures : 0..FailureCap, error : {"", "other", "guard"}, mark : Nat \cup {Never}]
  <2>1. guard' = [guard EXCEPT !.failures = Min({guard.failures + 1, FailureCap}), !.error = "other"]
    BY DEF FailPoll
  <2>2. Min({guard.failures + 1, FailureCap}) \in 0..FailureCap  BY FailuresCounted
  <2> QED BY <2>1, <2>2 DEF TypeOK
<1>3. /\ stored = None => stored' = None
      /\ stored # None => /\ stored' \in Snapshot(collector) /\ stored' # None
                          /\ stored'.doc = stored.doc
  <2>1. CASE stored = None  BY <2>1 DEF FailPoll
  <2>2. CASE stored # None
    <3>1. stored \in Snapshot(collector)  BY <2>2 DEF TypeOK
    <3> DEFINE broken == stored.broken \/ guard.error = "guard"
    <3>2. stored' = [stored EXCEPT !.broken = broken]  BY <2>2 DEF FailPoll
    <3>3. broken \in BOOLEAN  BY <3>1 DEF Snapshot
    <3> HIDE DEF broken
    <3>4. stored' \in Snapshot(collector) /\ stored'.doc = stored.doc
      BY <3>1, <3>2, <3>3 DEF Snapshot
    <3>5. stored' # None  BY <3>4, NoSnapshot DEF TypeOK
    <3> QED BY <2>2, <3>4, <3>5
  <2> QED BY <2>1, <2>2
<1>4. TypeOK'  BY <1>1, <1>2, <1>3 DEF TypeOK
<1>5. SeverityIsWorst'  BY <1>1 DEF SeverityIsWorst
<1>6. FieldsExplainSnapshots'
  BY <1>1, <1>3 DEF FieldsExplainSnapshots, SameDocument
<1> QED BY <1>4, <1>5, <1>6

----------------------------------------------------------------------------
(* Applying an answer *)

PollRecords(c) == [step : {"reading", "fetched"}, began : Nat, answer : Answers(c),
                   upto : Nat, observed : Nat]

LEMMA AnswerIs ==
  ASSUME TypeOK, poll.step = "fetched"
  PROVE  /\ poll \in PollRecords(collector)
         /\ poll.answer.kind \in {"ok", "gone", "omitted"}
         /\ poll.answer.kind = "ok" => poll.answer.doc \in Docs(collector)
<1>1. poll \in PollRecords(collector)  BY PollUnderWay DEF PollRecords
<1>2. poll.answer \in Answers(collector)  BY <1>1 DEF PollRecords
<1> QED BY <1>1, <1>2 DEF Answers

\* The change an answer makes, case by case.
LEMMA ChangeIs ==
  ASSUME TypeOK, poll.step = "fetched"
  PROVE  /\ Answered("ok") /\ stored = None =>
              Change = [kind |-> "created", old |-> None, new |-> poll.answer.doc,
                        paths |-> {}, shown |-> {}]
         /\ Answered("ok") /\ stored # None /\ stored.doc # poll.answer.doc =>
              Change = [kind |-> "changed", old |-> stored.doc, new |-> poll.answer.doc,
                        paths |-> Diff(stored.doc, poll.answer.doc),
                        shown |-> Kept(Diff(stored.doc, poll.answer.doc))]
         /\ Answered("ok") /\ stored # None /\ stored.doc = poll.answer.doc => Change = None
         /\ Removal => Change = [kind |-> "removed", old |-> stored.doc, new |-> None,
                                 paths |-> {}, shown |-> {}]
         /\ ~ Answered("ok") /\ ~ Removal => Change = None
<1>1. Answered("ok") => ~ Removal  BY DEF Answered, Removal
<1>2. CASE Answered("ok") /\ stored = None  BY <1>1, <1>2 DEF Change
<1>3. CASE Answered("ok") /\ stored # None /\ stored.doc # poll.answer.doc
  BY <1>1, <1>3 DEF Change
<1>4. CASE Answered("ok") /\ stored # None /\ stored.doc = poll.answer.doc
  BY <1>1, <1>4 DEF Change
<1>5. CASE Removal
  <2>1. ~ Answered("ok")  BY <1>1, <1>5
  <2> QED BY <1>5, <2>1 DEF Change
<1>6. CASE ~ Answered("ok") /\ ~ Removal  BY <1>6 DEF Change
<1> QED BY <1>1, <1>2, <1>3, <1>4, <1>5, <1>6

LEMMA RowIs ==
  ASSUME TypeOK, poll.step = "fetched", NEW held \in BOOLEAN
  PROVE  /\ Answered("ok") => Row(held) \in Snapshot(collector) /\ Row(held).doc = poll.answer.doc
         /\ Removal => Row(held) = None
         /\ ~ Answered("ok") /\ ~ Removal /\ stored # None =>
              Row(held) \in Snapshot(collector) /\ Row(held).doc = stored.doc
         /\ ~ Answered("ok") /\ stored = None => Row(held) = None
<1>1. poll \in PollRecords(collector)  BY AnswerIs
<1>2. poll.upto \in Nat  BY <1>1 DEF PollRecords
<1>3. poll.answer.kind \in {"ok", "gone", "omitted"}
      /\ (poll.answer.kind = "ok" => poll.answer.doc \in Docs(collector))
  BY AnswerIs
<1>4. CASE Answered("ok")
  <2>1. Row(held) = [doc |-> poll.answer.doc, missing |-> 0, upto |-> poll.upto,
                     late |-> FALSE, broken |-> FALSE]
    BY <1>4 DEF Row, Answered
  <2>2. Row(held) \in Snapshot(collector) /\ Row(held).doc = poll.answer.doc
    BY <1>2, <1>3, <1>4, <2>1 DEF Snapshot, Answered
  <2>3. ~ Removal  BY <1>4 DEF Removal, Answered
  <2> QED BY <1>4, <2>2, <2>3
<1>5. CASE Answered("gone") /\ stored # None
  <2> DEFINE late == stored.late \/ (poll.observed - lastSuccess > Lookback)
             missing == IF held THEN 0 ELSE 1
  <2>1. Row(held) = IF Removal THEN None
                    ELSE [stored EXCEPT !.missing = missing, !.late = late]
    BY <1>5 DEF Row, Answered
  <2>2. stored \in Snapshot(collector)  BY <1>5 DEF TypeOK
  <2>3. late \in BOOLEAN
    <3>1. stored.late \in BOOLEAN  BY <2>2 DEF Snapshot
    <3> QED BY <3>1
  <2>4. missing \in {0, 1}  OBVIOUS
  <2>5. ~ Answered("ok")  BY <1>5 DEF Answered
  <2> HIDE DEF late, missing
  <2>6. ~ Removal => Row(held) \in Snapshot(collector) /\ Row(held).doc = stored.doc
    BY <2>1, <2>2, <2>3, <2>4 DEF Snapshot
  <2> QED BY <1>5, <2>1, <2>5, <2>6
<1>6. CASE Answered("omitted") /\ stored # None
  <2>1. Row(held) = [stored EXCEPT !.broken = TRUE]  BY <1>6 DEF Row, Answered
  <2>2. stored \in Snapshot(collector)  BY <1>6 DEF TypeOK
  <2>3. Row(held) \in Snapshot(collector) /\ Row(held).doc = stored.doc
    BY <2>1, <2>2 DEF Snapshot
  <2>4. ~ Removal /\ ~ Answered("ok")  BY <1>6 DEF Removal, Answered
  <2> QED BY <1>6, <2>3, <2>4
<1>7. CASE ~ Answered("ok") /\ stored = None
  <2>1. Row(held) = stored  BY <1>7 DEF Row, Answered
  <2>2. ~ Removal  BY <1>7 DEF Removal
  <2> QED BY <1>7, <2>1, <2>2
<1> QED BY <1>3, <1>4, <1>5, <1>6, <1>7 DEF Answered

LEMMA HealthIs ==
  ASSUME TypeOK, NEW held \in BOOLEAN, held => Answered("gone"), NEW row
  PROVE  Health(held, row) \in [failures : 0..FailureCap, error : {"", "other", "guard"},
                                mark : Nat \cup {Never}]
<1>1. Min({guard.failures + 1, FailureCap}) \in 0..FailureCap  BY FailuresCounted
<1>2. guard \in [failures : 0..FailureCap, error : {"", "other", "guard"}, mark : Nat \cup {Never}]
  BY DEF TypeOK
<1>3. lastSuccess \in Nat  BY DEF TypeOK
<1>4. 0 \in 0..FailureCap  BY DEF FailureCap
<1>5. guard.mark \in Nat \cup {Never}  BY <1>2
<1>7. CASE held
  <2>0. ~ Answered("omitted")  BY <1>7 DEF Answered
  <2>1. Health(held, row) =
           [failures |-> Min({guard.failures + 1, FailureCap}), error |-> "guard",
            mark |-> IF guard.error = "guard" THEN guard.mark ELSE lastSuccess]
    BY <1>7, <2>0 DEF Health
  <2> QED BY <1>1, <1>3, <1>5, <2>1
<1>8. CASE ~ held /\ Answered("omitted")
  <2>1. Health(held, row) = guard  BY <1>8 DEF Health
  <2> QED BY <1>2, <2>1
<1>9. CASE ~ held /\ ~ Answered("omitted")
  <2> DEFINE m == IF row = None \/ row.missing = 0 THEN Never ELSE guard.mark
  <2>1. Health(held, row) = [failures |-> 0, error |-> "", mark |-> m]  BY <1>9 DEF Health
  <2>2. m \in Nat \cup {Never}  BY <1>5
  <2> HIDE DEF m
  <2>3. [failures |-> 0, error |-> "", mark |-> m]
          \in [failures : 0..FailureCap, error : {"", "other", "guard"}, mark : Nat \cup {Never}]
    BY <1>4, <2>2
  <2> QED BY <2>1, <2>3
<1> QED BY <1>7, <1>8, <1>9

\* What a poll records of its change.
LEMMA RecordIs ==
  ASSUME NEW held \in BOOLEAN, Apply(held)
  PROVE  \/ Change = None /\ record' = None
         \/ /\ Change # None /\ record' # None
            /\ record'.change = Change
            /\ record'.severity = Classify(collector, Change.kind, Change.old, Change.new)
<1> DEFINE best == Credits(collector, Change, WindowStart, poll.observed)
           after == IF stored = None THEN 0 ELSE stored.upto
           beyond == /\ stored # None
                     /\ stored.broken \/ (stored.late /\ guard.mark = Never)
           Recorded(complete, credit) ==
             [change |-> Change, complete |-> complete, credit |-> credit,
              severity |-> Classify(collector, Change.kind, Change.old, Change.new),
              start |-> WindowStart, oldest |-> Oldest, after |-> after,
              upto |-> poll.upto, observed |-> poll.observed, beyond |-> beyond]
<1>1. \/ Change = None /\ record' = None
      \/ Change # None /\ \E complete \in BOOLEAN :
           \E credit \in IF complete /\ best # {} THEN best ELSE {0} :
             record' = Recorded(complete, credit)
  BY DEF Apply
<1>2. ASSUME NEW complete, NEW credit
      PROVE  /\ Recorded(complete, credit) # None
             /\ Recorded(complete, credit).change = Change
             /\ Recorded(complete, credit).severity =
                  Classify(collector, Change.kind, Change.old, Change.new)
  <2>1. "change" \in DOMAIN Recorded(complete, credit) /\ "change" \notin DOMAIN None
    BY DEF None
  <2> HIDE DEF best, after, beyond
  <2> QED BY <2>1
<1> HIDE DEF Recorded, best
<1> QED BY <1>1, <1>2

\* The fields of a change lead from the document history holds to the new one.
LEMMA ViewIs ==
  ASSUME TypeOK, FieldsExplainSnapshots, poll.step = "fetched"
  PROVE  /\ Answered("ok") => /\ View(Change) \in Docs(collector)
                              /\ SameDocument(View(Change), poll.answer.doc)
         /\ Removal => View(Change) = None
         /\ ~ Answered("ok") /\ ~ Removal => View(Change) = view
<1>1. collector \in Collectors /\ view \in Docs(collector) \cup {None}  BY DEF TypeOK
<1>2. stored # None => stored \in Snapshot(collector)  BY DEF TypeOK
<1>3. stored # None => /\ stored.doc \in Docs(collector) /\ view \in Docs(collector)
                       /\ SameDocument(view, stored.doc)
  BY <1>1, <1>2 DEF FieldsExplainSnapshots, Snapshot
<1>4. poll.answer.kind = "ok" => poll.answer.doc \in Docs(collector)  BY AnswerIs
<1>5. CASE Answered("ok") /\ stored = None
  <2>1. Change = [kind |-> "created", old |-> None, new |-> poll.answer.doc,
                  paths |-> {}, shown |-> {}]
    BY <1>5, ChangeIs
  <2>2. Change # None
    <3>1. "new" \in DOMAIN Change /\ "new" \notin DOMAIN None  BY <2>1 DEF None
    <3> QED BY <3>1
  <2>3. View(Change) = poll.answer.doc  BY <2>1, <2>2 DEF View
  <2>4. ~ Removal  BY <1>5 DEF Removal
  <2>5. poll.answer.doc \in Docs(collector)  BY <1>4, <1>5 DEF Answered
  <2>6. SameDocument(poll.answer.doc, poll.answer.doc)  BY DEF SameDocument
  <2> QED BY <1>5, <2>3, <2>4, <2>5, <2>6
<1>6. CASE Answered("ok") /\ stored # None /\ stored.doc # poll.answer.doc
  <2> DEFINE D == Diff(stored.doc, poll.answer.doc)
  <2>1. Change = [kind |-> "changed", old |-> stored.doc, new |-> poll.answer.doc,
                  paths |-> D, shown |-> Kept(D)]
    BY <1>6, ChangeIs
  <2>2. Change # None
    <3>1. "new" \in DOMAIN Change /\ "new" \notin DOMAIN None  BY <2>1 DEF None
    <3> QED BY <3>1
  <2>3. poll.answer.doc \in Docs(collector)  BY <1>4, <1>6 DEF Answered
  <2>4. View(Change) = IF Kept(D) = D THEN Rebuild(view, D, poll.answer.doc)
                       ELSE poll.answer.doc
    <3> HIDE DEF D
    <3>1. Change.kind = "changed" /\ Change.new = poll.answer.doc
          /\ Change.paths = D /\ Change.shown = Kept(D)
      BY <2>1
    <3> QED BY <2>2, <3>1 DEF View
  <2>5. /\ Rebuild(view, D, poll.answer.doc) \in Docs(collector)
        /\ SameDocument(Rebuild(view, D, poll.answer.doc), poll.answer.doc)
    BY <1>1, <1>3, <1>6, <2>3, Rebuilds
  <2>6. SameDocument(poll.answer.doc, poll.answer.doc)  BY DEF SameDocument
  <2>7. ~ Removal  BY <1>6 DEF Removal, Answered
  <2> HIDE DEF D
  <2> QED BY <1>6, <2>3, <2>4, <2>5, <2>6, <2>7
<1>7. CASE Answered("ok") /\ stored # None /\ stored.doc = poll.answer.doc
  <2>1. Change = None  BY <1>7, ChangeIs
  <2>2. View(Change) = view  BY <2>1 DEF View
  <2>3. ~ Removal  BY <1>7 DEF Removal, Answered
  <2> QED BY <1>3, <1>7, <2>2, <2>3
<1>8. CASE Removal
  <2>1. Change = [kind |-> "removed", old |-> stored.doc, new |-> None,
                  paths |-> {}, shown |-> {}]
    BY <1>8, ChangeIs
  <2>2. Change # None
    <3>1. "new" \in DOMAIN Change /\ "new" \notin DOMAIN None  BY <2>1 DEF None
    <3> QED BY <3>1
  <2>3. View(Change) = None  BY <2>1, <2>2 DEF View
  <2>4. ~ Answered("ok")  BY <1>8 DEF Removal, Answered
  <2> QED BY <1>8, <2>3, <2>4
<1>9. CASE ~ Answered("ok") /\ ~ Removal
  <2>1. Change = None  BY <1>9, ChangeIs
  <2>2. View(Change) = view  BY <2>1 DEF View
  <2> QED BY <1>9, <2>2
<1> QED BY <1>5, <1>6, <1>7, <1>8, <1>9

LEMMA ApplyKeeps ==
  ASSUME TypeOK, FieldsExplainSnapshots, NEW held \in BOOLEAN, Apply(held)
  PROVE  TypeOK' /\ FieldsExplainSnapshots' /\ SeverityIsWorst'
<1>1. /\ poll.step = "fetched"
      /\ held => Answered("gone")
      /\ stored' = Row(held) /\ view' = View(Change) /\ lastSuccess' = poll.observed
      /\ guard' = Health(held, Row(held)) /\ poll' = Idle
      /\ collector' = collector /\ now' = now /\ live' = live /\ log' = log
  BY DEF Apply, MayGuard, World
<1>2. collector \in Collectors  BY DEF TypeOK
<1>3. /\ Answered("ok") => stored' \in Snapshot(collector) /\ stored'.doc = poll.answer.doc
      /\ Removal => stored' = None
      /\ ~ Answered("ok") /\ ~ Removal /\ stored # None =>
           stored' \in Snapshot(collector) /\ stored'.doc = stored.doc
      /\ ~ Answered("ok") /\ stored = None => stored' = None
  BY <1>1, RowIs
<1>4. /\ Answered("ok") => /\ view' \in Docs(collector)
                           /\ SameDocument(view', poll.answer.doc)
      /\ Removal => view' = None
      /\ ~ Answered("ok") /\ ~ Removal => view' = view
  BY <1>1, ViewIs
<1>5. TypeOK'
  <2>1. guard' \in [failures : 0..FailureCap, error : {"", "other", "guard"}, mark : Nat \cup {Never}]
    BY <1>1, HealthIs
  <2>2. lastSuccess' \in Nat
    <3>1. poll \in PollRecords(collector)  BY <1>1, AnswerIs
    <3> QED BY <1>1, <3>1 DEF PollRecords
  <2>3. stored' \in Snapshot(collector) \cup {None}  BY <1>3
  <2>4. view' \in Docs(collector) \cup {None}
    <3>1. view \in Docs(collector) \cup {None}  BY DEF TypeOK
    <3> QED BY <1>4, <3>1
  <2> QED BY <1>1, <2>1, <2>2, <2>3, <2>4 DEF TypeOK
<1>6. \/ Change = None /\ record' = None
      \/ /\ Change # None /\ record' # None
         /\ record'.change = Change
         /\ record'.severity = Classify(collector, Change.kind, Change.old, Change.new)
  BY RecordIs
<1>7. ASSUME record' # None, record'.change.kind = "changed"
      PROVE  /\ Answered("ok") /\ stored # None /\ stored.doc # poll.answer.doc
             /\ Change.old = stored.doc /\ Change.new = poll.answer.doc
             /\ Change.paths = Diff(stored.doc, poll.answer.doc)
             /\ Change.shown = Kept(Diff(stored.doc, poll.answer.doc))
             /\ Change.kind = "changed"
  <2>1. Change # None /\ Change.kind = "changed"  BY <1>6, <1>7
  <2>2. ~ (Answered("ok") /\ stored = None)
    <3> SUFFICES ASSUME Answered("ok"), stored = None PROVE FALSE  OBVIOUS
    <3>1. Change = [kind |-> "created", old |-> None, new |-> poll.answer.doc,
                    paths |-> {}, shown |-> {}]
      BY <1>1, ChangeIs
    <3> QED BY <2>1, <3>1
  <2>3. ~ Removal
    <3> SUFFICES ASSUME Removal PROVE FALSE  OBVIOUS
    <3>1. Change = [kind |-> "removed", old |-> stored.doc, new |-> None,
                    paths |-> {}, shown |-> {}]
      BY <1>1, ChangeIs
    <3> QED BY <2>1, <3>1
  <2>4. Answered("ok") /\ stored # None /\ stored.doc # poll.answer.doc
    BY <1>1, <2>1, <2>2, <2>3, ChangeIs
  <2>5. Change = [kind |-> "changed", old |-> stored.doc, new |-> poll.answer.doc,
                  paths |-> Diff(stored.doc, poll.answer.doc),
                  shown |-> Kept(Diff(stored.doc, poll.answer.doc))]
    BY <1>1, <2>4, ChangeIs
  <2> QED BY <2>4, <2>5
<1>8. ASSUME Answered("ok"), stored # None
      PROVE  stored.doc \in Docs(collector) /\ poll.answer.doc \in Docs(collector)
  <2>1. stored \in Snapshot(collector)  BY <1>8 DEF TypeOK
  <2>2. poll.answer.doc \in Docs(collector)  BY <1>1, <1>8, AnswerIs DEF Answered
  <2> QED BY <2>1, <2>2 DEF Snapshot
<1>9. FieldsExplainSnapshots'
  <2>1. \A d \in Docs(collector) : d # None  BY <1>2, DocsAreNotNone
  <2>2. \A row \in Snapshot(collector) : row # None  BY <1>2, NoSnapshot
  <2>3. /\ stored = None <=> view = None
        /\ stored # None => SameDocument(view, stored.doc)
    BY DEF FieldsExplainSnapshots
  <2>4. Removal => stored # None  BY DEF Removal
  <2>5. stored' = None <=> view' = None  BY <1>3, <1>4, <2>1, <2>2, <2>3, <2>4
  <2>6. stored' # None => SameDocument(view', stored'.doc)
    <3>1. CASE Answered("ok")  BY <1>3, <1>4, <3>1
    <3>2. CASE ~ Answered("ok") /\ ~ Removal  BY <1>3, <1>4, <2>3, <3>2
    <3>3. CASE Removal  BY <1>3, <3>3
    <3> QED BY <3>1, <3>2, <3>3
  <2>7. ASSUME record' # None, record'.change.kind = "changed"
        PROVE  record'.change.shown # {}
    <3>1. /\ Answered("ok") /\ stored # None /\ stored.doc # poll.answer.doc
          /\ Change.shown = Kept(Diff(stored.doc, poll.answer.doc))
      BY <1>7, <2>7
    <3>2. stored.doc \in Docs(collector) /\ poll.answer.doc \in Docs(collector)  BY <1>8, <3>1
    <3>3. Kept(Diff(stored.doc, poll.answer.doc)) # {}
      BY <1>2, <3>1, <3>2, DiffIsComplete, KeptNonempty
    <3> QED BY <1>6, <2>7, <3>1, <3>3
  <2> QED BY <2>5, <2>6, <2>7 DEF FieldsExplainSnapshots, SameDocument
<1>10. SeverityIsWorst'
  <2> DEFINE ch == record'.change
             worst == IF collector = "devices" THEN WorstOfDevice(ch.old, ch.new)
                      ELSE WorstOfDetails(ch.old, ch.new)
  <2>1. ASSUME record' # None, record'.change.kind = "changed"
        PROVE  IF ch.shown = ch.paths THEN record'.severity = worst
               ELSE record'.severity \in 2..Max({2, worst})
    <3> DEFINE old == stored.doc
               new == poll.answer.doc
    <3>1. /\ Answered("ok") /\ stored # None /\ old # new
          /\ Change.old = old /\ Change.new = new
          /\ Change.paths = Diff(old, new) /\ Change.shown = Kept(Diff(old, new))
          /\ Change.kind = "changed"
      BY <1>7, <2>1
    <3>2. old \in Docs(collector) /\ new \in Docs(collector)  BY <1>8, <3>1
    <3>3. ch = Change /\ record'.severity = Classify(collector, "changed", old, new)
      BY <1>6, <2>1, <3>1
    <3>4. worst = IF collector = "devices" THEN WorstOfDevice(old, new)
                  ELSE WorstOfDetails(old, new)
      BY <3>1, <3>3
    <3>5. ch.shown = Kept(Diff(old, new)) /\ ch.paths = Diff(old, new)  BY <3>1, <3>3
    <3>6. old # new  BY <3>1
    <3> HIDE DEF worst, ch, old, new
    <3>7. IF Kept(Diff(old, new)) = Diff(old, new)
          THEN Classify(collector, "changed", old, new) = worst
          ELSE Classify(collector, "changed", old, new) \in 2..Max({2, worst})
      BY <1>2, <3>2, <3>4, <3>6, ChangeSeverity
    <3> QED BY <3>3, <3>5, <3>7
  <2>2. collector' = collector  BY <1>1
  <2> QED BY <2>1, <2>2 DEF SeverityIsWorst, WorstOfDevice, WorstOfDetails
<1> QED BY <1>5, <1>9, <1>10

----------------------------------------------------------------------------
(* The invariant *)

Inv == TypeOK /\ FieldsExplainSnapshots /\ SeverityIsWorst

LEMMA InitInv == Init => Inv
<1> SUFFICES ASSUME Init PROVE Inv  OBVIOUS
<1>1. PICK drift \in Drifts :
        /\ collector = drift[1] /\ view = drift[2] /\ live = drift[3]
        /\ stored = IF view = None THEN None
                    ELSE [doc |-> view, missing |-> 0, upto |-> 0,
                          late |-> FALSE, broken |-> FALSE]
  BY DEF Init
<1>2. /\ collector \in Collectors
      /\ view \in Docs(collector) \cup {None}
      /\ live \in Docs(collector) \cup {d \in {None} : collector = "devices"}
  <2>1. \/ drift \in {"devices"} \X (DeviceDocs \cup {None}) \X (DeviceDocs \cup {None})
        \/ drift \in {"device_details"} \X DetailDocs \X DetailDocs
    BY ChangesAssumption
  <2>2. CASE drift \in {"devices"} \X (DeviceDocs \cup {None}) \X (DeviceDocs \cup {None})
    <3>1. collector = "devices" /\ view \in DeviceDocs \cup {None} /\ live \in DeviceDocs \cup {None}
      BY <1>1, <2>2
    <3> QED BY <3>1 DEF Collectors, Docs
  <2>3. CASE drift \in {"device_details"} \X DetailDocs \X DetailDocs
    <3>1. collector = "device_details" /\ view \in DetailDocs /\ live \in DetailDocs
      BY <1>1, <2>3
    <3> QED BY <3>1 DEF Collectors, Docs
  <2> QED BY <2>1, <2>2, <2>3
<1>3. /\ now = 0 /\ log = <<>> /\ lastSuccess = 0 /\ poll = Idle /\ record = None
      /\ guard = [failures |-> 0, error |-> "", mark |-> Never]
  BY DEF Init
<1>4. /\ view = None => stored = None
      /\ view # None => stored \in Snapshot(collector) /\ stored # None /\ stored.doc = view
  <2>1. view = None => stored = None  BY <1>1
  <2>2. ASSUME view # None
        PROVE  stored \in Snapshot(collector) /\ stored # None /\ stored.doc = view
    <3>1. stored = [doc |-> view, missing |-> 0, upto |-> 0, late |-> FALSE, broken |-> FALSE]
      BY <1>1, <2>2
    <3>2. view \in Docs(collector)  BY <1>2, <2>2
    <3>3. stored \in Snapshot(collector)  BY <3>1, <3>2 DEF Snapshot
    <3>4. stored # None  BY <1>2, <3>3, NoSnapshot
    <3> QED BY <3>1, <3>3, <3>4
  <2> QED BY <2>1, <2>2
<1>5. TypeOK
  <2>1. guard \in [failures : 0..FailureCap, error : {"", "other", "guard"}, mark : Nat \cup {Never}]
    <3>1. 0 \in 0..FailureCap /\ Never \in Nat \cup {Never}  BY DEF FailureCap
    <3>2. [failures |-> 0, error |-> "", mark |-> Never]
            \in [failures : 0..FailureCap, error : {"", "other", "guard"}, mark : Nat \cup {Never}]
      BY <3>1
    <3> QED BY <1>3, <3>2
  <2>2. log \in Seq(Entries) /\ now \in Nat /\ lastSuccess \in Nat
    <3>1. <<>> \in Seq(Entries)  OBVIOUS
    <3> QED BY <1>3, <3>1
  <2>3. stored \in Snapshot(collector) \cup {None}  BY <1>4
  <2> QED BY <1>2, <1>3, <2>1, <2>2, <2>3 DEF TypeOK
<1>6. FieldsExplainSnapshots
  <2>1. SameDocument(view, view)  BY DEF SameDocument
  <2> QED BY <1>3, <1>4, <2>1 DEF FieldsExplainSnapshots
<1>7. SeverityIsWorst  BY <1>3 DEF SeverityIsWorst
<1> QED BY <1>5, <1>6, <1>7 DEF Inv

LEMMA StepInv == Inv /\ [Next]_vars => Inv'
<1> SUFFICES ASSUME Inv, [Next]_vars PROVE Inv'  OBVIOUS
<1> USE DEF Inv
<1>1. ASSUME Tick PROVE Inv'  BY <1>1, TickKeeps, QuietKeeps
<1>2. ASSUME NEW tags \in SUBSET {"tag"}, Join(tags) PROVE Inv'
  BY <1>2, JoinKeeps, QuietKeeps
<1>3. ASSUME Remove PROVE Inv'  BY <1>3, RemoveKeeps, QuietKeeps
<1>4. ASSUME Approve PROVE Inv'  BY <1>4, ApproveKeeps, QuietKeeps
<1>5. ASSUME SetAttribute PROVE Inv'  BY <1>5, SetAttributeKeeps, QuietKeeps
<1>6. ASSUME Upgrade PROVE Inv'  BY <1>6, UpgradeKeeps, QuietKeeps
<1>7. ASSUME NEW failed \in BOOLEAN, Retag(failed) PROVE Inv'
  BY <1>7, RetagKeeps, QuietKeeps
<1>8. EditedIds \subseteq Ids  BY ChangesAssumption
<1>9. ASSUME NEW id \in EditedIds, UpdateShare(id) PROVE Inv'
  BY <1>8, <1>9, UpdateShareKeeps, QuietKeeps
<1>10. ASSUME NEW id \in EditedIds, Unshare(id) PROVE Inv'
  BY <1>8, <1>10, UnshareKeeps, QuietKeeps
<1>11. ASSUME NEW id \in EditedIds, NEW exit \in BOOLEAN, Share(id, exit) PROVE Inv'
  BY <1>8, <1>11, ShareKeeps, QuietKeeps
<1>12. ASSUME BeginPoll PROVE Inv'  BY <1>12, BeginPollKeeps, QuietKeeps
<1>13. ASSUME FailPoll PROVE Inv'  BY <1>13, FailPollKeeps
<1>14. ASSUME EndRead PROVE Inv'  BY <1>14, EndReadKeeps, QuietKeeps
<1>15. ASSUME NEW held \in BOOLEAN, Apply(held) PROVE Inv'  BY <1>15, ApplyKeeps
<1>16. CASE UNCHANGED vars
  <2>1. /\ collector' = collector /\ now' = now /\ live' = live /\ log' = log
        /\ stored' = stored /\ view' = view /\ lastSuccess' = lastSuccess /\ guard' = guard
        /\ poll' = poll /\ record' = record
    BY <1>16 DEF vars
  <2>2. TypeOK'  BY <2>1 DEF TypeOK
  <2>3. FieldsExplainSnapshots'  BY <2>1 DEF FieldsExplainSnapshots, SameDocument
  <2>4. SeverityIsWorst'  BY <2>1 DEF SeverityIsWorst, WorstOfDevice, WorstOfDetails
  <2> QED BY <2>2, <2>3, <2>4
<1>17. CASE Next
  <2> HIDE DEF Inv
  <2> QED BY <1>1, <1>2, <1>3, <1>4, <1>5, <1>6, <1>7, <1>9, <1>10, <1>11, <1>12, <1>13,
             <1>14, <1>15, <1>17 DEF Next
<1> QED BY <1>16, <1>17

\* Documents, answers and the audit log keep their form.
THEOREM TypeCorrect == Spec => []TypeOK
<1>1. Inv => TypeOK  BY DEF Inv
<1> QED BY <1>1, InitInv, StepInv, PTL DEF Spec

\* The recorded fields add up to the stored snapshot, for every pair of documents
\* that a device or its details may have, however its share list is written, and
\* a recorded change always shows a field, however few fit.
THEOREM FieldsRebuild == Spec => []FieldsExplainSnapshots
<1>1. Inv => FieldsExplainSnapshots  BY DEF Inv
<1> QED BY <1>1, InitInv, StepInv, PTL DEF Spec

\* Classify, which sees the recorded fields, finds the severity of the worst
\* difference of the two documents, and a safe bound of it when fields are cut off.
THEOREM SeverityCorrect == Spec => []SeverityIsWorst
<1>1. Inv => SeverityIsWorst  BY DEF Inv
<1> QED BY <1>1, InitInv, StepInv, PTL DEF Spec

----------------------------------------------------------------------------
(* Who is credited: the invariant                                          *)

\* The part of the audit log that the stored snapshot already reflects.
Base == IF stored = None THEN 0 ELSE stored.upto
Unbroken == stored = None \/ ~ stored.broken
Reads(kind) == poll # Idle /\ poll.answer.kind = kind

\* The parts of a document that an edit may change, and the entry it leaves.
Parts ==
  IF collector = "devices" THEN {<<"authorized", 0>>, <<"tags", 0>>}
  ELSE {<<"postureAttributes", 0>>} \cup {<<"deviceInvites", id>> : id \in Ids}
Part(doc, x) ==
  IF x[1] = "deviceInvites" THEN {e \in Listed(doc.deviceInvites) : e.id = x[2]} ELSE doc[x[1]]
Edits(e, x) ==
  /\ ~ e.failed
  /\ x[1] = "authorized" => e.action = "APPROVE"
  /\ x[1] = "tags" => e.property = "ACL_TAGS"
  /\ x[1] = "postureAttributes" => e.property = "ATTRIBUTES"
  /\ x[1] = "deviceInvites" => e.type = "INVITE" /\ e.did = x[2]

\* What differs between two documents was edited by one of the entries l+1..n.
Edited(old, new, l, n) ==
  \A x \in Parts : Part(old, x) # Part(new, x) =>
    \E k \in DOMAIN log : l < k /\ k <= n /\ Edits(log[k], x)

\* The audit log is in order, and an entry is about one kind of edit.
LogInOrder ==
  /\ lastSuccess <= now
  /\ \A k \in DOMAIN log :
       /\ log[k].at <= now
       /\ log[k].type = "INVITE" => log[k].target \in {log[k].did, 0}
       /\ log[k].action = "APPROVE" \/ log[k].property # "" => log[k].type = "NODE"
  /\ \A j, k \in DOMAIN log : j < k => log[j].at < log[k].at

\* A poll takes no longer than ReadTime, and its answer is of when it began.
PollInTime ==
  /\ Base <= Len(log)
  /\ poll # Idle =>
       /\ lastSuccess <= poll.began /\ poll.began <= poll.observed /\ poll.observed <= now
       /\ poll.observed - poll.began <= ReadTime
       /\ poll.step = "reading" => now - poll.began <= ReadTime
       /\ Base <= poll.upto /\ poll.upto <= Len(log)
       /\ \A k \in DOMAIN log : IF k <= poll.upto THEN log[k].at <= poll.began
                                ELSE poll.began <= log[k].at

\* A device that was removed stays away; details are never gone.
Undeleted(n) == \A k \in DOMAIN log : k <= n => ~ (log[k].type = "NODE" /\ log[k].action = "DELETE")
RemovedForGood ==
  /\ live # None => Undeleted(Len(log))
  /\ stored # None => Undeleted(stored.upto)
  /\ Reads("ok") => Undeleted(poll.upto)
  /\ Reads("gone") /\ live # None => poll.upto = 0
  /\ collector = "device_details" => stored # None /\ ~ Reads("gone")
  /\ collector = "devices" => ~ Reads("omitted")

DifferencesEdited ==
  /\ stored # None /\ stored.upto > 0 /\ live # None =>
       Edited(stored.doc, live, stored.upto, Len(log))
  /\ Reads("ok") /\ poll.upto > 0 /\ live # None =>
       Edited(poll.answer.doc, live, poll.upto, Len(log))
  /\ Reads("ok") /\ stored # None /\ stored.upto > 0 =>
       Edited(stored.doc, poll.answer.doc, stored.upto, poll.upto)

\* From when on the edits are that the stored snapshot does not reflect.
EditsSince(l, t) == \A k \in DOMAIN log : l < k => t <= log[k].at
EditsInReach ==
  /\ guard.mark <= lastSuccess
  /\ guard.error = "guard" => guard.mark # Never
  /\ Unbroken /\ (live # None \/ Reads("ok")) => EditsSince(Base, lastSuccess - Skew)
  /\ stored # None /\ ~ stored.broken =>
       /\ stored.missing = 0 /\ guard.error # "guard" => EditsSince(stored.upto, lastSuccess - Skew)
       /\ stored.missing = 0 /\ guard.error = "guard" => EditsSince(stored.upto, guard.mark - Skew)
       /\ stored.missing = 1 /\ guard.mark = Never =>
            stored.late \/ EditsSince(stored.upto, lastSuccess - Lookback - Skew)
       /\ stored.missing = 1 /\ guard.mark # Never => EditsSince(stored.upto, guard.mark - Skew)

CreditInv ==
  /\ LogInOrder /\ PollInTime /\ RemovedForGood /\ DifferencesEdited /\ EditsInReach

----------------------------------------------------------------------------
(* Edits enter the audit log *)

Polls == [step : {"reading", "fetched"}, began : Nat, answer : Answers(collector),
          upto : Nat, observed : Nat]

\* What the types say of the numbers the invariant compares.
LEMMA Numbers ==
  ASSUME TypeOK
  PROVE  /\ now \in Nat /\ lastSuccess \in Nat /\ Len(log) \in Nat
         /\ DOMAIN log = 1..Len(log)
         /\ \A k \in DOMAIN log : log[k] \in Entries /\ log[k].at \in Nat
         /\ guard.mark \in Nat \cup {Never}
         /\ stored # None => stored \in Snapshot(collector) /\ stored.upto \in Nat
                             /\ stored.missing \in {0, 1}
         /\ Base \in Nat
         /\ poll # Idle => poll \in Polls /\ poll.began \in Nat /\ poll.observed \in Nat
                           /\ poll.upto \in Nat
         /\ Skew \in Nat /\ ReadTime \in Nat /\ Lookback \in Nat /\ ReadTime <= Skew
<1>1. log \in Seq(Entries)  BY DEF TypeOK
<1>2. Len(log) \in Nat /\ DOMAIN log = 1..Len(log)  BY <1>1
<1>3. \A k \in DOMAIN log : log[k] \in Entries  BY <1>1
<1>4. \A k \in DOMAIN log : log[k].at \in Nat  BY <1>3 DEF Entries
<1>5. stored # None => stored \in Snapshot(collector)  BY DEF TypeOK
<1>6. stored # None => stored.upto \in Nat /\ stored.missing \in {0, 1}  BY <1>5 DEF Snapshot
<1>7. Base \in Nat  BY <1>6 DEF Base
<1>8. poll # Idle => poll \in Polls  BY DEF TypeOK, Polls
<1>9. poll # Idle => poll.began \in Nat /\ poll.observed \in Nat /\ poll.upto \in Nat
  BY <1>8 DEF Polls
<1>10. now \in Nat /\ lastSuccess \in Nat /\ guard.mark \in Nat \cup {Never}  BY DEF TypeOK
<1>11. Skew \in Nat /\ ReadTime \in Nat /\ Lookback \in Nat /\ ReadTime <= Skew
  BY ChangesAssumption
<1> QED BY <1>2, <1>3, <1>4, <1>5, <1>6, <1>7, <1>8, <1>9, <1>10, <1>11

\* An entry of the log after one was appended.
LEMMA Appended ==
  ASSUME NEW l \in Seq(Entries), NEW m, NEW e \in Entries, m = Append(l, e)
  PROVE  /\ Len(m) = Len(l) + 1
         /\ \A k \in DOMAIN m : \/ k \in DOMAIN l /\ m[k] = l[k] /\ k <= Len(l)
                                \/ k = Len(l) + 1 /\ m[k] = e
         /\ \A k \in DOMAIN l : k \in DOMAIN m /\ m[k] = l[k]
         /\ Len(l) + 1 \in DOMAIN m /\ m[Len(l) + 1] = e
<1>1. Len(m) = Len(l) + 1 /\ DOMAIN m = 1..(Len(l) + 1) /\ Len(l) \in Nat /\ DOMAIN l = 1..Len(l)
  OBVIOUS
<1>2. m[Len(l) + 1] = e  OBVIOUS
<1>3. \A k \in 1..Len(l) : m[k] = l[k]  OBVIOUS
<1>4. ASSUME NEW k \in DOMAIN m
      PROVE  \/ k \in DOMAIN l /\ m[k] = l[k] /\ k <= Len(l)
             \/ k = Len(l) + 1 /\ m[k] = e
  <2>1. k \in 1..Len(l) \/ k = Len(l) + 1  BY <1>1
  <2>2. k \in 1..Len(l) => k <= Len(l)  BY <1>1
  <2> QED BY <1>1, <1>2, <1>3, <2>1, <2>2
<1>5. \A k \in 1..Len(l) : k \in 1..(Len(l) + 1)  BY <1>1
<1>6. Len(l) + 1 \in 1..(Len(l) + 1)  BY <1>1
<1> QED BY <1>1, <1>2, <1>3, <1>4, <1>5, <1>6

\* One entry enters the log, and what it says is what became of the device.
LogStep(e) ==
  /\ e \in Entries /\ e.at = now /\ log' = Append(log, e)
  /\ \A k \in DOMAIN log : log[k].at < now
  /\ UNCHANGED <<collector, now, stored, lastSuccess, guard, poll>>
  /\ live = None => log = <<>>
  /\ e.type = "NODE" /\ e.action = "DELETE" => live' = None
  /\ live # None /\ live' # None =>
       \A x \in Parts : Part(live, x) # Part(live', x) => Edits(e, x)
  /\ e.type = "INVITE" => e.target \in {e.did, 0}
  /\ e.action = "APPROVE" \/ e.property # "" => e.type = "NODE"

\* The log before and after, entry by entry.
LEMMA LogStepIs ==
  ASSUME TypeOK, NEW e, LogStep(e)
  PROVE  /\ Len(log') = Len(log) + 1
         /\ \A k \in DOMAIN log' : \/ k \in DOMAIN log /\ log'[k] = log[k] /\ k <= Len(log)
                                   \/ k = Len(log) + 1 /\ log'[k] = e
         /\ \A k \in DOMAIN log : k \in DOMAIN log' /\ log'[k] = log[k]
         /\ Len(log) + 1 \in DOMAIN log' /\ log'[Len(log) + 1] = e
         /\ collector' = collector /\ now' = now /\ stored' = stored /\ guard' = guard
         /\ lastSuccess' = lastSuccess /\ poll' = poll
         /\ e.at = now /\ \A k \in DOMAIN log : log[k].at < now
<1>1. log \in Seq(Entries)  BY DEF TypeOK
<1>2. e \in Entries /\ log' = Append(log, e)  BY DEF LogStep
<1>3. /\ Len(log') = Len(log) + 1
      /\ \A k \in DOMAIN log' : \/ k \in DOMAIN log /\ log'[k] = log[k] /\ k <= Len(log)
                                \/ k = Len(log) + 1 /\ log'[k] = e
      /\ \A k \in DOMAIN log : k \in DOMAIN log' /\ log'[k] = log[k]
      /\ Len(log) + 1 \in DOMAIN log' /\ log'[Len(log) + 1] = e
  BY <1>1, <1>2, Appended
<1> QED BY <1>3 DEF LogStep

LEMMA LogStepOrder ==
  ASSUME TypeOK, LogInOrder, NEW e, LogStep(e)
  PROVE  LogInOrder'
<1>1. /\ now \in Nat /\ Len(log) \in Nat /\ DOMAIN log = 1..Len(log)
      /\ \A k \in DOMAIN log : log[k].at \in Nat
  BY Numbers
<1>2. lastSuccess' <= now'  BY LogStepIs DEF LogInOrder
<1>3. ASSUME NEW k \in DOMAIN log'
      PROVE  /\ log'[k].at <= now'
             /\ log'[k].type = "INVITE" => log'[k].target \in {log'[k].did, 0}
             /\ log'[k].action = "APPROVE" \/ log'[k].property # "" => log'[k].type = "NODE"
  <2>1. CASE k \in DOMAIN log /\ log'[k] = log[k]
    <3>1. now' = now  BY LogStepIs
    <3> QED BY <2>1, <3>1 DEF LogInOrder
  <2>2. CASE log'[k] = e
    <3>1. now' = now /\ e.at = now  BY LogStepIs
    <3>2. now <= now  BY <1>1
    <3> QED BY <2>2, <3>1, <3>2 DEF LogStep
  <2> QED BY <2>1, <2>2, LogStepIs
<1>4. ASSUME NEW j \in DOMAIN log', NEW k \in DOMAIN log', j < k
      PROVE  log'[j].at < log'[k].at
  <2>1. \/ k \in DOMAIN log /\ log'[k] = log[k] /\ k <= Len(log)
        \/ k = Len(log) + 1 /\ log'[k] = e
    BY LogStepIs
  <2>2. \/ j \in DOMAIN log /\ log'[j] = log[j] /\ j <= Len(log)
        \/ j = Len(log) + 1 /\ log'[j] = e
    BY LogStepIs
  <2>3. j \in DOMAIN log /\ log'[j] = log[j]
    <3>1. CASE k <= Len(log)  BY <1>1, <1>4, <2>2, <3>1
    <3>2. CASE k = Len(log) + 1  BY <1>1, <1>4, <2>2, <3>2
    <3> QED BY <2>1, <3>1, <3>2
  <2>4. CASE k \in DOMAIN log /\ log'[k] = log[k]  BY <1>4, <2>3, <2>4 DEF LogInOrder
  <2>5. CASE log'[k] = e  BY <2>3, <2>5, LogStepIs
  <2> QED BY <2>1, <2>4, <2>5
<1> QED BY <1>2, <1>3, <1>4 DEF LogInOrder

LEMMA LogStepInTime ==
  ASSUME TypeOK, LogInOrder, PollInTime, NEW e, LogStep(e)
  PROVE  PollInTime'
<1>1. /\ now \in Nat /\ Len(log) \in Nat /\ Base \in Nat
      /\ poll # Idle => poll.began \in Nat /\ poll.observed \in Nat /\ poll.upto \in Nat
  BY Numbers
<1>2. Len(log') = Len(log) + 1 /\ now' = now /\ poll' = poll /\ lastSuccess' = lastSuccess
  BY LogStepIs
<1>3. Base' = Base  BY LogStepIs DEF Base
<1>4. Base' <= Len(log')  BY <1>1, <1>2, <1>3 DEF PollInTime
<1>5. ASSUME poll # Idle
      PROVE  /\ lastSuccess <= poll.began /\ poll.began <= poll.observed /\ poll.observed <= now
             /\ poll.observed - poll.began <= ReadTime
             /\ poll.step = "reading" => now - poll.began <= ReadTime
             /\ Base <= poll.upto /\ poll.upto <= Len(log')
             /\ \A k \in DOMAIN log' : IF k <= poll.upto THEN log'[k].at <= poll.began
                                       ELSE poll.began <= log'[k].at
  <2>1. /\ lastSuccess <= poll.began /\ poll.began <= poll.observed /\ poll.observed <= now
        /\ poll.observed - poll.began <= ReadTime
        /\ poll.step = "reading" => now - poll.began <= ReadTime
        /\ Base <= poll.upto /\ poll.upto <= Len(log)
        /\ \A k \in DOMAIN log : IF k <= poll.upto THEN log[k].at <= poll.began
                                 ELSE poll.began <= log[k].at
    BY <1>5 DEF PollInTime
  <2>2. poll.upto <= Len(log')  BY <1>1, <1>2, <1>5, <2>1
  <2>3. poll.began <= now  BY <1>1, <1>5, <2>1
  <2>4. ASSUME NEW k \in DOMAIN log'
        PROVE  IF k <= poll.upto THEN log'[k].at <= poll.began ELSE poll.began <= log'[k].at
    <3>1. CASE k \in DOMAIN log /\ log'[k] = log[k]  BY <2>1, <3>1
    <3>2. CASE k = Len(log) + 1 /\ log'[k] = e
      <4>1. ~ (k <= poll.upto)  BY <1>1, <1>5, <2>1, <3>2
      <4>2. log'[k].at = now  BY <3>2, LogStepIs
      <4> QED BY <2>3, <4>1, <4>2
    <3> QED BY <3>1, <3>2, LogStepIs
  <2> QED BY <2>1, <2>2, <2>4
<1> QED BY <1>2, <1>3, <1>4, <1>5 DEF PollInTime

LEMMA LogStepRemoved ==
  ASSUME TypeOK, PollInTime, RemovedForGood, NEW e, LogStep(e)
  PROVE  RemovedForGood'
<1>1. /\ Len(log) \in Nat /\ Base \in Nat /\ Base <= Len(log)
      /\ poll # Idle => poll.upto \in Nat /\ poll.upto <= Len(log)
  BY Numbers DEF PollInTime
<1>2. /\ Len(log') = Len(log) + 1 /\ stored' = stored /\ poll' = poll /\ collector' = collector
      /\ \A k \in DOMAIN log' : \/ k \in DOMAIN log /\ log'[k] = log[k] /\ k <= Len(log)
                                \/ k = Len(log) + 1 /\ log'[k] = e
  BY LogStepIs
<1>3. ASSUME NEW n \in Nat, n <= Len(log), Undeleted(n) PROVE Undeleted(n)'
  <2> SUFFICES ASSUME NEW k \in DOMAIN log', k <= n
               PROVE  ~ (log'[k].type = "NODE" /\ log'[k].action = "DELETE")
    BY DEF Undeleted
  <2>1. k # Len(log) + 1  BY <1>1, <1>3
  <2>2. k \in DOMAIN log /\ log'[k] = log[k]  BY <1>2, <2>1
  <2> QED BY <1>3, <2>2 DEF Undeleted
<1>4. ASSUME live' # None PROVE Undeleted(Len(log))'
  <2> SUFFICES ASSUME NEW k \in DOMAIN log'
               PROVE  ~ (log'[k].type = "NODE" /\ log'[k].action = "DELETE")
    BY DEF Undeleted
  <2>1. CASE k \in DOMAIN log /\ log'[k] = log[k] /\ k <= Len(log)
    <3>1. live # None
      <4> SUFFICES ASSUME live = None PROVE FALSE  OBVIOUS
      <4>1. log = <<>>  BY DEF LogStep
      <4> QED BY <2>1, <4>1
    <3>2. Undeleted(Len(log))  BY <3>1 DEF RemovedForGood
    <3> QED BY <2>1, <3>2 DEF Undeleted
  <2>2. CASE log'[k] = e  BY <1>4, <2>2 DEF LogStep
  <2> QED BY <1>2, <2>1, <2>2
<1>5. stored' # None => Undeleted(stored.upto)'
  <2> SUFFICES ASSUME stored' # None PROVE Undeleted(stored.upto)'  OBVIOUS
  <2>1. stored # None /\ Base = stored.upto  BY <1>2 DEF Base
  <2>2. Undeleted(stored.upto)  BY <2>1 DEF RemovedForGood
  <2> DEFINE n == stored.upto
  <2>3. n \in Nat /\ n <= Len(log) /\ Undeleted(n)  BY <1>1, <2>1, <2>2
  <2>4. n' = n  BY <1>2
  <2> HIDE DEF n
  <2>5. Undeleted(n)'  BY <1>3, <2>3, <2>4 DEF Undeleted
  <2> QED BY <2>5 DEF n
<1>6. Reads("ok")' => Undeleted(poll.upto)'
  <2> SUFFICES ASSUME Reads("ok")' PROVE Undeleted(poll.upto)'  OBVIOUS
  <2>1. Reads("ok") /\ poll # Idle  BY <1>2 DEF Reads
  <2> DEFINE n == poll.upto
  <2>2. n \in Nat /\ n <= Len(log) /\ Undeleted(n)  BY <1>1, <2>1 DEF RemovedForGood
  <2>3. n' = n  BY <1>2
  <2> HIDE DEF n
  <2>4. Undeleted(n)'  BY <1>3, <2>2, <2>3 DEF Undeleted
  <2> QED BY <2>4 DEF n
<1>7. Reads("gone")' /\ live' # None => poll'.upto = 0
  <2> SUFFICES ASSUME Reads("gone")', live' # None PROVE poll'.upto = 0  OBVIOUS
  <2>1. Reads("gone") /\ poll # Idle  BY <1>2 DEF Reads
  <2>2. CASE live # None  BY <1>2, <2>1, <2>2 DEF RemovedForGood
  <2>3. CASE live = None
    <3>1. log = <<>>  BY <2>3 DEF LogStep
    <3>2. Len(log) = 0  BY <3>1
    <3> QED BY <1>1, <1>2, <2>1, <3>2
  <2> QED BY <2>2, <2>3
<1>8. /\ collector' = "device_details" => stored' # None /\ ~ Reads("gone")'
      /\ collector' = "devices" => ~ Reads("omitted")'
  BY <1>2 DEF RemovedForGood, Reads
<1> QED BY <1>4, <1>5, <1>6, <1>7, <1>8 DEF RemovedForGood

\* A difference that an entry explains is explained in a longer log, too.
LEMMA EditedInLongerLog ==
  ASSUME TypeOK, NEW e, LogStep(e), NEW old, NEW new, NEW l, NEW n, Edited(old, new, l, n)
  PROVE  \A x \in Parts : Part(old, x) # Part(new, x) =>
           \E k \in DOMAIN log' : l < k /\ k <= n /\ Edits(log'[k], x)
<1> SUFFICES ASSUME NEW x \in Parts, Part(old, x) # Part(new, x)
             PROVE  \E k \in DOMAIN log' : l < k /\ k <= n /\ Edits(log'[k], x)
  OBVIOUS
<1>1. PICK k \in DOMAIN log : l < k /\ k <= n /\ Edits(log[k], x)  BY DEF Edited
<1>2. k \in DOMAIN log' /\ log'[k] = log[k]  BY LogStepIs
<1> QED BY <1>1, <1>2

\* What was edited up to now, and then by one more entry.
LEMMA EditedOnceMore ==
  ASSUME TypeOK, NEW e, LogStep(e), live # None, live' # None,
         NEW old, NEW l \in Nat, l <= Len(log), Edited(old, live, l, Len(log))
  PROVE  \A x \in Parts : Part(old, x) # Part(live', x) =>
           \E k \in DOMAIN log' : l < k /\ k <= Len(log') /\ Edits(log'[k], x)
<1> SUFFICES ASSUME NEW x \in Parts, Part(old, x) # Part(live', x)
             PROVE  \E k \in DOMAIN log' : l < k /\ k <= Len(log') /\ Edits(log'[k], x)
  OBVIOUS
<1>0. Len(log) \in Nat /\ Len(log') = Len(log) + 1 /\ DOMAIN log = 1..Len(log)
  BY Numbers, LogStepIs
<1>1. CASE Part(old, x) # Part(live, x)
  <2>1. PICK k \in DOMAIN log : l < k /\ k <= Len(log) /\ Edits(log[k], x)
    BY <1>1 DEF Edited
  <2>2. k \in DOMAIN log' /\ log'[k] = log[k]  BY LogStepIs
  <2>3. k <= Len(log')  BY <1>0, <2>1
  <2> QED BY <2>1, <2>2, <2>3
<1>2. CASE Part(live, x) # Part(live', x)
  <2>1. Edits(e, x)  BY <1>2 DEF LogStep
  <2>2. Len(log) + 1 \in DOMAIN log' /\ log'[Len(log) + 1] = e  BY LogStepIs
  <2>3. l < Len(log) + 1 /\ Len(log) + 1 <= Len(log')  BY <1>0
  <2> QED BY <2>1, <2>2, <2>3
<1> QED BY <1>1, <1>2

LEMMA LogStepEdited ==
  ASSUME TypeOK, PollInTime, DifferencesEdited, NEW e, LogStep(e)
  PROVE  DifferencesEdited'
<1>1. /\ Len(log) \in Nat /\ Base \in Nat /\ Base <= Len(log)
      /\ poll # Idle => poll.upto \in Nat /\ poll.upto <= Len(log)
      /\ stored # None => Base = stored.upto
  BY Numbers DEF PollInTime, Base
<1>2. /\ stored' = stored /\ poll' = poll /\ collector' = collector  BY LogStepIs
<1>4. ASSUME Len(log) > 0 PROVE live # None
  <2> SUFFICES ASSUME live = None PROVE FALSE  OBVIOUS
  <2>1. log = <<>>  BY DEF LogStep
  <2>2. Len(log) = 0  BY <2>1
  <2> QED BY <1>4, <2>2
<1>5. ASSUME stored' # None, stored'.upto > 0, live' # None
      PROVE  Edited(stored.doc, live, stored.upto, Len(log))'
  <2>1. stored # None /\ stored.upto > 0 /\ stored.upto \in Nat /\ stored.upto <= Len(log)
    BY <1>1, <1>2, <1>5
  <2>2. live # None  BY <1>1, <1>4, <2>1
  <2>3. Edited(stored.doc, live, stored.upto, Len(log))  BY <2>1, <2>2 DEF DifferencesEdited
  <2>4. \A x \in Parts : Part(stored.doc, x) # Part(live', x) =>
           \E k \in DOMAIN log' : stored.upto < k /\ k <= Len(log') /\ Edits(log'[k], x)
    BY <1>5, <2>1, <2>2, <2>3, EditedOnceMore
  <2> QED BY <1>2, <2>4 DEF Edited, Parts, Part, Edits
<1>6. ASSUME Reads("ok")', poll'.upto > 0, live' # None
      PROVE  Edited(poll.answer.doc, live, poll.upto, Len(log))'
  <2>1. Reads("ok") /\ poll.upto > 0 /\ poll.upto \in Nat /\ poll.upto <= Len(log)
    BY <1>1, <1>2, <1>6 DEF Reads
  <2>2. live # None  BY <1>1, <1>4, <2>1
  <2>3. Edited(poll.answer.doc, live, poll.upto, Len(log))  BY <2>1, <2>2 DEF DifferencesEdited
  <2>4. \A x \in Parts : Part(poll.answer.doc, x) # Part(live', x) =>
           \E k \in DOMAIN log' : poll.upto < k /\ k <= Len(log') /\ Edits(log'[k], x)
    BY <1>6, <2>1, <2>2, <2>3, EditedOnceMore
  <2> QED BY <1>2, <2>4 DEF Edited, Parts, Part, Edits
<1>7. ASSUME Reads("ok")', stored' # None, stored'.upto > 0
      PROVE  Edited(stored.doc, poll.answer.doc, stored.upto, poll.upto)'
  <2>1. Edited(stored.doc, poll.answer.doc, stored.upto, poll.upto)
    BY <1>2, <1>7 DEF DifferencesEdited, Reads
  <2>2. \A x \in Parts : Part(stored.doc, x) # Part(poll.answer.doc, x) =>
           \E k \in DOMAIN log' : stored.upto < k /\ k <= poll.upto /\ Edits(log'[k], x)
    BY <2>1, EditedInLongerLog
  <2> QED BY <1>2, <2>2 DEF Edited, Parts, Part, Edits
<1> QED BY <1>5, <1>6, <1>7 DEF DifferencesEdited

LEMMA LogStepInReach ==
  ASSUME TypeOK, LogInOrder, EditsInReach, NEW e, LogStep(e)
  PROVE  EditsInReach'
<1>1. /\ now \in Nat /\ lastSuccess \in Nat /\ guard.mark \in Nat \cup {Never} /\ Skew \in Nat
      /\ Lookback \in Nat /\ lastSuccess <= now
  BY Numbers DEF LogInOrder
<1>2. guard.mark \in Int /\ guard.mark <= lastSuccess  BY <1>1 DEF EditsInReach, Never
<1>3. /\ lastSuccess - Skew \in Int /\ lastSuccess - Skew <= now
      /\ guard.mark - Skew \in Int /\ guard.mark - Skew <= now
      /\ lastSuccess - Lookback - Skew \in Int /\ lastSuccess - Lookback - Skew <= now
  BY <1>1, <1>2
<1>4. /\ collector' = collector /\ now' = now /\ stored' = stored /\ guard' = guard
      /\ lastSuccess' = lastSuccess /\ poll' = poll
  BY LogStepIs
<1>5. Unbroken' = Unbroken /\ Base' = Base /\ Reads("ok")' = Reads("ok")
  BY <1>4 DEF Unbroken, Base, Reads
<1>6. ASSUME NEW l, NEW t \in Int, t <= now, log = <<>> \/ EditsSince(l, t)
      PROVE  \A k \in DOMAIN log' : l < k => t <= log'[k].at
  <2> SUFFICES ASSUME NEW k \in DOMAIN log', l < k PROVE t <= log'[k].at  OBVIOUS
  <2>1. CASE k \in DOMAIN log /\ log'[k] = log[k]  BY <1>6, <2>1 DEF EditsSince
  <2>2. CASE log'[k] = e
    <3>1. log'[k].at = now  BY <2>2, LogStepIs
    <3> QED BY <1>6, <3>1
  <2> QED BY <2>1, <2>2, LogStepIs
<1>7. ASSUME Unbroken', live' # None \/ Reads("ok")'
      PROVE  EditsSince(Base, lastSuccess - Skew)'
  <2>1. log = <<>> \/ EditsSince(Base, lastSuccess - Skew)
    <3>1. CASE live = None /\ ~ Reads("ok")  BY <3>1 DEF LogStep
    <3>2. CASE live # None \/ Reads("ok")  BY <1>5, <1>7, <3>2 DEF EditsInReach
    <3> QED BY <3>1, <3>2
  <2>2. \A k \in DOMAIN log' : Base < k => lastSuccess - Skew <= log'[k].at
    BY <1>3, <1>6, <2>1
  <2> QED BY <1>4, <1>5, <2>2 DEF EditsSince
<1>8. ASSUME stored' # None, ~ stored'.broken
      PROVE  /\ stored.missing = 0 /\ guard.error # "guard" =>
                  EditsSince(stored.upto, lastSuccess - Skew)'
             /\ stored.missing = 0 /\ guard.error = "guard" =>
                  EditsSince(stored.upto, guard.mark - Skew)'
             /\ stored.missing = 1 /\ guard.mark = Never =>
                  stored.late \/ EditsSince(stored.upto, lastSuccess - Lookback - Skew)'
             /\ stored.missing = 1 /\ guard.mark # Never =>
                  EditsSince(stored.upto, guard.mark - Skew)'
  <2>1. /\ stored.missing = 0 /\ guard.error # "guard" => EditsSince(stored.upto, lastSuccess - Skew)
        /\ stored.missing = 0 /\ guard.error = "guard" => EditsSince(stored.upto, guard.mark - Skew)
        /\ stored.missing = 1 /\ guard.mark = Never =>
             stored.late \/ EditsSince(stored.upto, lastSuccess - Lookback - Skew)
        /\ stored.missing = 1 /\ guard.mark # Never => EditsSince(stored.upto, guard.mark - Skew)
    BY <1>4, <1>8 DEF EditsInReach
  <2>2. EditsSince(stored.upto, lastSuccess - Skew) => EditsSince(stored.upto, lastSuccess - Skew)'
    <3> SUFFICES ASSUME EditsSince(stored.upto, lastSuccess - Skew)
                 PROVE  EditsSince(stored.upto, lastSuccess - Skew)'
      OBVIOUS
    <3>1. \A k \in DOMAIN log' : stored.upto < k => lastSuccess - Skew <= log'[k].at
      BY <1>3, <1>6
    <3> QED BY <1>4, <3>1 DEF EditsSince
  <2>3. EditsSince(stored.upto, guard.mark - Skew) => EditsSince(stored.upto, guard.mark - Skew)'
    <3> SUFFICES ASSUME EditsSince(stored.upto, guard.mark - Skew)
                 PROVE  EditsSince(stored.upto, guard.mark - Skew)'
      OBVIOUS
    <3>1. \A k \in DOMAIN log' : stored.upto < k => guard.mark - Skew <= log'[k].at
      BY <1>3, <1>6
    <3> QED BY <1>4, <3>1 DEF EditsSince
  <2>4. EditsSince(stored.upto, lastSuccess - Lookback - Skew)
          => EditsSince(stored.upto, lastSuccess - Lookback - Skew)'
    <3> SUFFICES ASSUME EditsSince(stored.upto, lastSuccess - Lookback - Skew)
                 PROVE  EditsSince(stored.upto, lastSuccess - Lookback - Skew)'
      OBVIOUS
    <3>1. \A k \in DOMAIN log' : stored.upto < k => lastSuccess - Lookback - Skew <= log'[k].at
      BY <1>3, <1>6
    <3> QED BY <1>4, <3>1 DEF EditsSince
  <2> QED BY <2>1, <2>2, <2>3, <2>4
<1>9. guard'.mark <= lastSuccess' /\ (guard'.error = "guard" => guard'.mark # Never)
  BY <1>4 DEF EditsInReach
<1> QED BY <1>4, <1>7, <1>8, <1>9 DEF EditsInReach

LEMMA LogStepKeeps ==
  ASSUME TypeOK, CreditInv, NEW e, LogStep(e)
  PROVE  CreditInv'
BY LogStepOrder, LogStepInTime, LogStepRemoved, LogStepEdited, LogStepInReach DEF CreditInv

----------------------------------------------------------------------------
(* Every edit is such a step *)

LEMMA LoggedIs ==
  ASSUME TypeOK,
         NEW type \in {"NODE", "INVITE"}, NEW target \in Ids \cup {0}, NEW did \in Ids \cup {0},
         NEW action \in {"CREATE", "DELETE", "APPROVE", "UPDATE"},
         NEW property \in {"", "ACL_TAGS", "ATTRIBUTES"}, NEW failed \in BOOLEAN,
         Logged(type, target, did, action, property, failed),
         NEW e,
         e = [at |-> now, type |-> type, target |-> target, did |-> did, action |-> action,
              property |-> property, failed |-> failed],
         live = None => log = <<>>,
         type = "NODE" /\ action = "DELETE" => live' = None,
         live # None /\ live' # None =>
           \A x \in Parts : Part(live, x) # Part(live', x) => Edits(e, x),
         type = "INVITE" => target \in {did, 0},
         action = "APPROVE" \/ property # "" => type = "NODE"
  PROVE  LogStep(e)
<1>1. e \in Entries  BY DEF TypeOK, Entries
<1>2. log' = Append(log, e) /\ \A k \in DOMAIN log : log[k].at < now  BY DEF Logged
<1>3. UNCHANGED <<collector, now, stored, lastSuccess, guard, poll>>
  BY DEF Logged, NoRecord, State
<1>4. /\ e.type = type /\ e.action = action /\ e.target = target /\ e.did = did
      /\ e.property = property /\ e.at = now
  OBVIOUS
<1> QED BY <1>1, <1>2, <1>3, <1>4 DEF LogStep

LEMMA DeviceParts ==
  ASSUME collector = "devices", NEW x \in Parts, NEW doc
  PROVE  \/ x = <<"authorized", 0>> /\ Part(doc, x) = doc.authorized
         \/ x = <<"tags", 0>> /\ Part(doc, x) = doc.tags
<1>1. x = <<"authorized", 0>> \/ x = <<"tags", 0>>  BY DEF Parts
<1> QED BY <1>1 DEF Part

LEMMA DetailParts ==
  ASSUME collector = "device_details", NEW x \in Parts, NEW doc
  PROVE  \/ x = <<"postureAttributes", 0>> /\ Part(doc, x) = doc.postureAttributes
         \/ \E id \in Ids : /\ x = <<"deviceInvites", id>>
                            /\ Part(doc, x) = {e \in Listed(doc.deviceInvites) : e.id = id}
<1>1. x = <<"postureAttributes", 0>> \/ \E id \in Ids : x = <<"deviceInvites", id>>
  BY DEF Parts
<1>2. ASSUME NEW id \in Ids, x = <<"deviceInvites", id>>
      PROVE  Part(doc, x) = {e \in Listed(doc.deviceInvites) : e.id = id}
  BY <1>2 DEF Part
<1>3. x = <<"postureAttributes", 0>> => Part(doc, x) = doc.postureAttributes
  BY DEF Part
<1> QED BY <1>1, <1>2, <1>3

LEMMA JoinCredit ==
  ASSUME TypeOK, CreditInv, NEW tags \in SUBSET {"tag"}, Join(tags) PROVE CreditInv'
<1> DEFINE e == [at |-> now, type |-> "NODE", target |-> 0, did |-> 0, action |-> "CREATE",
                 property |-> "", failed |-> FALSE]
<1>1. Logged("NODE", 0, 0, "CREATE", "", FALSE) /\ live = None /\ log = <<>>  BY DEF Join
<1>2. LogStep(e)
  <2> HIDE DEF e
  <2> QED BY <1>1, LoggedIs DEF e
<1> QED BY <1>2, LogStepKeeps

LEMMA RemoveCredit == ASSUME TypeOK, CreditInv, Remove PROVE CreditInv'
<1> DEFINE e == [at |-> now, type |-> "NODE", target |-> 0, did |-> 0, action |-> "DELETE",
                 property |-> "", failed |-> FALSE]
<1>1. Logged("NODE", 0, 0, "DELETE", "", FALSE) /\ live' = None  BY DEF Remove
<1>2. live # None  BY <1>1 DEF Logged
<1>3. LogStep(e)
  <2> HIDE DEF e
  <2> QED BY <1>1, <1>2, LoggedIs DEF e
<1> QED BY <1>3, LogStepKeeps

LEMMA ApproveCredit == ASSUME TypeOK, CreditInv, Approve PROVE CreditInv'
<1> DEFINE e == [at |-> now, type |-> "NODE", target |-> 0, did |-> 0, action |-> "APPROVE",
                 property |-> "", failed |-> FALSE]
<1>1. /\ Logged("NODE", 0, 0, "APPROVE", "", FALSE) /\ live # None
      /\ collector = "devices" /\ live' = [live EXCEPT !.authorized = TRUE]
  BY DEF Approve
<1>2. live \in DeviceDocs  BY <1>1 DEF TypeOK, Docs
<1>3. live'.tags = live.tags  BY <1>1, <1>2 DEF DeviceDocs
<1>4. ASSUME NEW x \in Parts, Part(live, x) # Part(live', x) PROVE Edits(e, x)
  <2>1. x = <<"authorized", 0>>  BY <1>1, <1>3, <1>4, DeviceParts
  <2> QED BY <2>1 DEF Edits
<1>5. LogStep(e)
  <2> HIDE DEF e
  <2> QED BY <1>1, <1>4, LoggedIs DEF e
<1> QED BY <1>5, LogStepKeeps

LEMMA RetagCredit ==
  ASSUME TypeOK, CreditInv, NEW failed \in BOOLEAN, Retag(failed) PROVE CreditInv'
<1> DEFINE e == [at |-> now, type |-> "NODE", target |-> 0, did |-> 0, action |-> "UPDATE",
                 property |-> "ACL_TAGS", failed |-> failed]
<1>1. Logged("NODE", 0, 0, "UPDATE", "ACL_TAGS", failed)  BY DEF Retag
<1>2. live # None  BY <1>1 DEF Logged
<1>3. ASSUME NEW x \in Parts, Part(live, x) # Part(live', x) PROVE Edits(e, x)
  <2>1. live' # live  BY <1>3
  <2>2. ~ failed /\ collector = "devices" /\ live' = [live EXCEPT !.tags = {"tag"} \ @]
    BY <2>1 DEF Retag
  <2>3. live \in DeviceDocs  BY <1>2, <2>2 DEF TypeOK, Docs
  <2>4. live'.authorized = live.authorized  BY <2>2, <2>3 DEF DeviceDocs
  <2>5. x = <<"tags", 0>>  BY <1>3, <2>2, <2>4, DeviceParts
  <2> QED BY <2>2, <2>5 DEF Edits
<1>4. LogStep(e)
  <2> HIDE DEF e
  <2> QED BY <1>1, <1>2, <1>3, LoggedIs DEF e
<1> QED BY <1>4, LogStepKeeps

LEMMA SetAttributeCredit == ASSUME TypeOK, CreditInv, SetAttribute PROVE CreditInv'
<1> DEFINE e == [at |-> now, type |-> "NODE", target |-> 0, did |-> 0, action |-> "UPDATE",
                 property |-> "ATTRIBUTES", failed |-> FALSE]
<1>1. /\ Logged("NODE", 0, 0, "UPDATE", "ATTRIBUTES", FALSE) /\ collector = "device_details"
      /\ live' = [live EXCEPT !.postureAttributes = 1 - @]
  BY DEF SetAttribute
<1>2. live \in DetailDocs  BY <1>1, DetailsAreThere
<1>3. live # None  BY <1>1 DEF Logged
<1>4. live'.deviceInvites = live.deviceInvites  BY <1>1, <1>2 DEF DetailDocs
<1>5. ASSUME NEW x \in Parts, Part(live, x) # Part(live', x) PROVE Edits(e, x)
  <2>1. x = <<"postureAttributes", 0>>
    <3>1. ASSUME NEW id \in Ids, x = <<"deviceInvites", id>> PROVE FALSE
      <4>1. Part(live, x) = Part(live', x)  BY <1>4, <3>1 DEF Part
      <4> QED BY <1>5, <4>1
    <3> QED BY <1>1, <3>1, DetailParts
  <2> QED BY <2>1 DEF Edits
<1>6. LogStep(e)
  <2> HIDE DEF e
  <2> QED BY <1>1, <1>3, <1>5, LoggedIs DEF e
<1> QED BY <1>6, LogStepKeeps

\* An edit of one share leaves the others alone.
LEMMA EditSharesCredit ==
  ASSUME TypeOK, CreditInv, collector = "device_details",
         NEW list, NEW id \in Ids, NEW target \in {id, 0},
         NEW action \in {"CREATE", "DELETE", "UPDATE"}, EditShares(list, id, target, action),
         \A i \in Ids \ {id} : {f \in Listed(list) : f.id = i}
                                 = {f \in Listed(live.deviceInvites) : f.id = i}
  PROVE  CreditInv'
<1> DEFINE e == [at |-> now, type |-> "INVITE", target |-> target, did |-> id, action |-> action,
                 property |-> "", failed |-> FALSE]
<1>1. /\ Logged("INVITE", target, id, action, "", FALSE)
      /\ live' = [live EXCEPT !.deviceInvites = list]
  BY DEF EditShares
<1>2. live \in DetailDocs /\ live # None
  <2>1. live \in DetailDocs /\ Docs(collector) = DetailDocs  BY DetailsAreThere
  <2>2. collector \in Collectors  BY DEF TypeOK
  <2> QED BY <2>1, <2>2, DocsAreNotNone
<1>3. live'.deviceInvites = list /\ live'.postureAttributes = live.postureAttributes
  BY <1>1, <1>2 DEF DetailDocs
<1>4. ASSUME NEW x \in Parts, Part(live, x) # Part(live', x) PROVE Edits(e, x)
  <2>1. x = <<"deviceInvites", id>>
    <3>1. ASSUME x = <<"postureAttributes", 0>> PROVE FALSE
      <4>1. Part(live, x) = Part(live', x)  BY <1>3, <3>1 DEF Part
      <4> QED BY <1>4, <4>1
    <3>2. ASSUME NEW i \in Ids \ {id}, x = <<"deviceInvites", i>> PROVE FALSE
      <4>1. Part(live, x) = Part(live', x)  BY <1>3, <3>2 DEF Part
      <4> QED BY <1>4, <4>1
    <3> QED BY <3>1, <3>2, DetailParts
  <2> QED BY <2>1 DEF Edits
<1>5. LogStep(e)
  <2>1. e \in Entries
    <3>1. target \in Ids \cup {0} /\ id \in Ids \cup {0} /\ now \in Nat  BY DEF TypeOK
    <3>2. action \in {"CREATE", "DELETE", "APPROVE", "UPDATE"}  OBVIOUS
    <3> QED BY <3>1, <3>2 DEF Entries
  <2>2. log' = Append(log, e) /\ \A k \in DOMAIN log : log[k].at < now  BY <1>1 DEF Logged
  <2>3. UNCHANGED <<collector, now, stored, lastSuccess, guard, poll>>
    BY <1>1 DEF Logged, NoRecord, State
  <2>4. /\ e.type = "INVITE" /\ e.action # "APPROVE" /\ e.property = "" /\ e.at = now
        /\ e.target \in {e.did, 0}
    OBVIOUS
  <2> HIDE DEF e
  <2> QED BY <1>2, <1>4, <2>1, <2>2, <2>3, <2>4 DEF LogStep
<1> QED BY <1>5, LogStepKeeps

\* A null and a list that is not there are no lists.
NullIsNoList == Null \notin SUBSET Invites /\ Missing \notin SUBSET Invites

LEMMA ListedOfSet ==
  ASSUME NullIsNoList, NEW s \in SUBSET Invites
  PROVE  Listed(s) = s
BY DEF NullIsNoList, Listed, IsList

LEMMA ShareCredit ==
  ASSUME NullIsNoList, TypeOK, CreditInv, NEW id \in Ids, NEW exit \in BOOLEAN, Share(id, exit)
  PROVE  CreditInv'
<1> DEFINE f == [id |-> id, accepted |-> FALSE, allowExitNode |-> exit, lastEmailSentAt |-> 0]
           v == live.deviceInvites
           list == Listed(v) \cup {f}
<1>1. collector = "device_details" /\ EditShares(list, id, id, "CREATE")  BY DEF Share
<1>2. v \in Lists  BY <1>1, DetailsAreThere DEF DetailDocs
<1>3. Listed(list) = list
  <2>1. f \in Invites  BY DEF Invites
  <2> HIDE DEF f, v
  <2>2. list \in SUBSET Invites  BY <1>2, <2>1, ListedOfList
  <2> HIDE DEF list
  <2> QED BY <2>2, ListedOfSet
<1>4. ASSUME NEW i \in Ids \ {id}
      PROVE  {g \in Listed(list) : g.id = i} = {g \in Listed(v) : g.id = i}
  <2>1. f.id # i  OBVIOUS
  <2> HIDE DEF f, v
  <2> QED BY <1>3, <2>1
<1> HIDE DEF list
<1> QED BY <1>1, <1>4, EditSharesCredit DEF v

LEMMA UnshareCredit ==
  ASSUME NullIsNoList, TypeOK, CreditInv, NEW id \in Ids, Unshare(id)
  PROVE  CreditInv'
<1> DEFINE v == live.deviceInvites
           g == Element(v, id)
           left == v \ {g}
<1>1. v \in Lists /\ collector = "device_details"  BY DetailsAreThere DEF Unshare, DetailDocs
<1>2. v \in SUBSET Invites /\ Listed(v) = v /\ g.id = id
  <2>1. g # Missing  BY DEF Unshare
  <2> HIDE DEF v
  <2> QED BY <1>1, <2>1, ListWithElement, ElementIs DEF g
<1>3. PICK list \in {left} \cup {w \in {Missing} : left = {}} : EditShares(list, id, id, "DELETE")
  BY DEF Unshare
<1>4. Listed(list) = left
  <2>1. left \in SUBSET Invites  BY <1>2
  <2> HIDE DEF left
  <2>2. CASE list = left  BY <2>1, <2>2, ListedOfSet
  <2>3. CASE list = Missing /\ left = {}  BY <2>3 DEF Listed, IsList
  <2> QED BY <1>3, <2>2, <2>3
<1>5. ASSUME NEW i \in Ids \ {id}
      PROVE  {f \in Listed(list) : f.id = i} = {f \in Listed(v) : f.id = i}
  <2> HIDE DEF v, g
  <2> QED BY <1>2, <1>4
<1> HIDE DEF left, g
<1> QED BY <1>1, <1>3, <1>5, EditSharesCredit DEF v

LEMMA UpdateShareCredit ==
  ASSUME NullIsNoList, TypeOK, CreditInv, NEW id \in Ids, UpdateShare(id)
  PROVE  CreditInv'
<1> DEFINE v == live.deviceInvites
           g == Element(v, id)
<1>1. v \in Lists /\ collector = "device_details"  BY DetailsAreThere DEF UpdateShare, DetailDocs
<1>2. v \in SUBSET Invites /\ Listed(v) = v /\ g.id = id /\ g \in Invites
  <2>1. g # Missing  BY DEF UpdateShare
  <2> HIDE DEF v
  <2> QED BY <1>1, <2>1, ListWithElement, ElementIs DEF g
<1>3. PICK f \in Updates(g), target \in {id, 0} : EditShares((v \ {g}) \cup {f}, id, target, "UPDATE")
  BY DEF UpdateShare, Updates
<1>4. f \in Invites /\ f.id = id
  <2> HIDE DEF g
  <2> QED BY <1>2, <1>3, UpdatesAreInvites
<1> DEFINE list == (v \ {g}) \cup {f}
<1>5. Listed(list) = list
  <2>1. list \in SUBSET Invites  BY <1>2, <1>4
  <2> HIDE DEF list
  <2> QED BY <2>1, ListedOfSet
<1>6. ASSUME NEW i \in Ids \ {id}
      PROVE  {h \in Listed(list) : h.id = i} = {h \in Listed(v) : h.id = i}
  <2> HIDE DEF v, g
  <2> QED BY <1>2, <1>4, <1>5
<1>7. EditShares(list, id, target, "UPDATE")  BY <1>3
<1> HIDE DEF list
<1> QED BY <1>1, <1>3, <1>6, <1>7, EditSharesCredit DEF v

----------------------------------------------------------------------------
(* Steps that leave the log alone *)

\* Steps that change neither the device, the log nor what is stored.
LEMMA SameWorld ==
  ASSUME CreditInv,
         collector' = collector, live' = live, log' = log, stored' = stored,
         lastSuccess' = lastSuccess, guard' = guard, poll' = poll
  PROVE  RemovedForGood' /\ DifferencesEdited' /\ EditsInReach'
<1>1. RemovedForGood'  BY DEF CreditInv, RemovedForGood, Undeleted, Reads
<1>2. DifferencesEdited'
  <2>1. ASSUME stored' # None, stored'.upto > 0, live' # None
        PROVE  Edited(stored.doc, live, stored.upto, Len(log))'
    <3>1. Edited(stored.doc, live, stored.upto, Len(log))
      BY <2>1 DEF CreditInv, DifferencesEdited
    <3> QED BY <3>1 DEF Edited, Parts, Part, Edits
  <2>2. ASSUME Reads("ok")', poll'.upto > 0, live' # None
        PROVE  Edited(poll.answer.doc, live, poll.upto, Len(log))'
    <3>1. Edited(poll.answer.doc, live, poll.upto, Len(log))
      BY <2>2 DEF CreditInv, DifferencesEdited, Reads
    <3> QED BY <3>1 DEF Edited, Parts, Part, Edits
  <2>3. ASSUME Reads("ok")', stored' # None, stored'.upto > 0
        PROVE  Edited(stored.doc, poll.answer.doc, stored.upto, poll.upto)'
    <3>1. Edited(stored.doc, poll.answer.doc, stored.upto, poll.upto)
      BY <2>3 DEF CreditInv, DifferencesEdited, Reads
    <3> QED BY <3>1 DEF Edited, Parts, Part, Edits
  <2> QED BY <2>1, <2>2, <2>3 DEF DifferencesEdited
<1>3. EditsInReach'  BY DEF CreditInv, EditsInReach, EditsSince, Base, Unbroken, Reads
<1> QED BY <1>1, <1>2, <1>3

LEMMA TickCredit == ASSUME TypeOK, CreditInv, Tick PROVE CreditInv'
<1>1. /\ collector' = collector /\ live' = live /\ log' = log /\ stored' = stored
      /\ lastSuccess' = lastSuccess /\ guard' = guard /\ poll' = poll /\ now' = now + 1
      /\ poll.step = "reading" => now - poll.began < ReadTime
  BY DEF Tick, NoRecord, World, State
<1>2. RemovedForGood' /\ DifferencesEdited' /\ EditsInReach'  BY <1>1, SameWorld
<1>3. /\ now \in Nat /\ lastSuccess \in Nat /\ Len(log) \in Nat /\ ReadTime \in Nat
      /\ \A k \in DOMAIN log : log[k].at \in Nat
      /\ poll # Idle => poll.began \in Nat /\ poll.observed \in Nat
  BY Numbers
<1>4. LogInOrder'
  <2>0. lastSuccess <= now /\ \A k \in DOMAIN log : log[k].at <= now
    BY DEF CreditInv, LogInOrder
  <2>1. lastSuccess <= now + 1  BY <1>3, <2>0
  <2>2. \A k \in DOMAIN log : log[k].at <= now + 1  BY <1>3, <2>0
  <2> QED BY <1>1, <2>1, <2>2 DEF CreditInv, LogInOrder
<1>5. PollInTime'
  <2>1. Base' = Base  BY <1>1 DEF Base
  <2>2. poll # Idle => /\ poll.observed <= now + 1
                       /\ poll.step = "reading" => (now + 1) - poll.began <= ReadTime
    <3> SUFFICES ASSUME poll # Idle
                 PROVE  /\ poll.observed <= now + 1
                        /\ poll.step = "reading" => (now + 1) - poll.began <= ReadTime
      OBVIOUS
    <3>1. poll.observed <= now  BY DEF CreditInv, PollInTime
    <3> QED BY <1>1, <1>3, <3>1
  <2> QED BY <1>1, <2>1, <2>2 DEF CreditInv, PollInTime
<1> QED BY <1>2, <1>4, <1>5 DEF CreditInv

LEMMA UpgradeCredit == ASSUME TypeOK, CreditInv, Upgrade PROVE CreditInv'
<1>1. /\ collector' = collector /\ log' = log /\ stored' = stored /\ now' = now
      /\ lastSuccess' = lastSuccess /\ guard' = guard /\ poll' = poll
      /\ live # None /\ collector = "devices" /\ live' = [live EXCEPT !.clientVersion = 1]
  BY DEF Upgrade, NoRecord, State
<1>2. live \in DeviceDocs  BY <1>1 DEF TypeOK, Docs
<1>3. live'.authorized = live.authorized /\ live'.tags = live.tags  BY <1>1, <1>2 DEF DeviceDocs
<1>4. Base' = Base /\ Unbroken' = Unbroken /\ \A k : Reads(k)' = Reads(k)
  BY <1>1 DEF Base, Unbroken, Reads
<1>5. LogInOrder'  BY <1>1 DEF CreditInv, LogInOrder
<1>6. PollInTime'  BY <1>1, <1>4 DEF CreditInv, PollInTime
<1>7. RemovedForGood'
  BY <1>1 DEF CreditInv, RemovedForGood, Undeleted, Reads
<1>8. DifferencesEdited'
  <2>1. \A x \in Parts : Part(live, x) = Part(live', x)
    <3> TAKE x \in Parts
    <3>1. x = <<"authorized", 0>> \/ x = <<"tags", 0>>  BY <1>1, DeviceParts
    <3> QED BY <1>3, <3>1 DEF Part
  <2>2. ASSUME NEW old, NEW l, Edited(old, live, l, Len(log))
        PROVE  \A x \in Parts : Part(old, x) # Part(live', x) =>
                 \E k \in DOMAIN log : l < k /\ k <= Len(log) /\ Edits(log[k], x)
    BY <2>1, <2>2 DEF Edited
  <2>3. ASSUME stored' # None, stored'.upto > 0, live' # None
        PROVE  Edited(stored.doc, live, stored.upto, Len(log))'
    <3>1. Edited(stored.doc, live, stored.upto, Len(log))
      BY <1>1, <2>3 DEF CreditInv, DifferencesEdited
    <3>2. \A x \in Parts : Part(stored.doc, x) # Part(live', x) =>
            \E k \in DOMAIN log : stored.upto < k /\ k <= Len(log) /\ Edits(log[k], x)
      BY <2>2, <3>1
    <3> QED BY <1>1, <3>2 DEF Edited, Parts, Part, Edits
  <2>4. ASSUME Reads("ok")', poll'.upto > 0, live' # None
        PROVE  Edited(poll.answer.doc, live, poll.upto, Len(log))'
    <3>1. Edited(poll.answer.doc, live, poll.upto, Len(log))
      BY <1>1, <1>4, <2>4 DEF CreditInv, DifferencesEdited, Reads
    <3>2. \A x \in Parts : Part(poll.answer.doc, x) # Part(live', x) =>
            \E k \in DOMAIN log : poll.upto < k /\ k <= Len(log) /\ Edits(log[k], x)
      BY <2>2, <3>1
    <3> QED BY <1>1, <3>2 DEF Edited, Parts, Part, Edits
  <2>5. ASSUME Reads("ok")', stored' # None, stored'.upto > 0
        PROVE  Edited(stored.doc, poll.answer.doc, stored.upto, poll.upto)'
    <3>1. Edited(stored.doc, poll.answer.doc, stored.upto, poll.upto)
      BY <1>1, <2>5 DEF CreditInv, DifferencesEdited, Reads
    <3> QED BY <1>1, <3>1 DEF Edited, Parts, Part, Edits
  <2> QED BY <2>3, <2>4, <2>5 DEF DifferencesEdited
<1>9. EditsInReach'
  BY <1>1 DEF CreditInv, EditsInReach, EditsSince, Base, Unbroken, Reads
<1> QED BY <1>5, <1>6, <1>7, <1>8, <1>9 DEF CreditInv

LEMMA BeginPollCredit == ASSUME TypeOK, CreditInv, BeginPoll PROVE CreditInv'
<1>1. /\ collector' = collector /\ log' = log /\ stored' = stored /\ now' = now /\ live' = live
      /\ lastSuccess' = lastSuccess /\ guard' = guard /\ poll = Idle
  BY DEF BeginPoll, NoRecord, World, State
<1>2. PICK answer \in {Ok(live)} \cup {a \in {Omitted} : collector = "device_details"} :
        poll' = [step |-> "reading", began |-> now, answer |-> answer,
                 upto |-> Len(log), observed |-> now]
  BY DEF BeginPoll
<1>3. /\ poll'.began = now /\ poll'.observed = now /\ poll'.upto = Len(log)
      /\ poll'.answer = answer
  BY <1>2
<1>4. /\ poll'.answer.kind = "ok" => live # None /\ poll'.answer.doc = live
      /\ poll'.answer.kind = "gone" => live = None
      /\ poll'.answer.kind = "omitted" => collector = "device_details"
  BY <1>2, <1>3 DEF Ok, Omitted
<1>5. /\ now \in Nat /\ lastSuccess \in Nat /\ Len(log) \in Nat /\ ReadTime \in Nat
      /\ DOMAIN log = 1..Len(log)
      /\ stored # None => stored.upto \in Nat
  BY Numbers
<1>6. Base' = Base /\ Unbroken' = Unbroken  BY <1>1 DEF Base, Unbroken
<1>7. LogInOrder'  BY <1>1 DEF CreditInv, LogInOrder
<1>8. PollInTime'
  <2>1. lastSuccess <= now /\ Base <= Len(log) /\ \A k \in DOMAIN log : log[k].at <= now
    BY DEF CreditInv, PollInTime, LogInOrder
  <2>2. now <= now /\ now - now <= ReadTime /\ Len(log) <= Len(log)  BY <1>5
  <2>3. \A k \in DOMAIN log : k <= Len(log)  BY <1>5
  <2> QED BY <1>1, <1>3, <1>6, <2>1, <2>2, <2>3 DEF PollInTime
<1>9. RemovedForGood'
  <2>1. live' # None => Undeleted(Len(log))'
    BY <1>1 DEF CreditInv, RemovedForGood, Undeleted
  <2>2. stored' # None => Undeleted(stored.upto)'
    BY <1>1 DEF CreditInv, RemovedForGood, Undeleted
  <2>3. Reads("ok")' => Undeleted(poll.upto)'
    BY <1>1, <1>3, <1>4 DEF CreditInv, RemovedForGood, Undeleted, Reads
  <2>4. Reads("gone")' => live' = None  BY <1>1, <1>4 DEF Reads
  <2>5. collector' = "device_details" => stored' # None /\ ~ Reads("gone")'
    <3> SUFFICES ASSUME collector = "device_details" PROVE stored # None /\ ~ Reads("gone")'
      BY <1>1
    <3>1. live \in Docs(collector)  BY DetailsAreThere
    <3>2. live # None  BY <3>1, DocsAreNotNone DEF TypeOK
    <3>3. ~ Reads("gone")'  BY <1>1, <2>4, <3>2
    <3> QED BY <3>3 DEF CreditInv, RemovedForGood
  <2>6. collector' = "devices" => ~ Reads("omitted")'  BY <1>1, <1>4 DEF Reads
  <2> QED BY <2>1, <2>2, <2>3, <2>4, <2>5, <2>6 DEF RemovedForGood
<1>10. DifferencesEdited'
  <2>1. ASSUME stored' # None, stored'.upto > 0, live' # None
        PROVE  Edited(stored.doc, live, stored.upto, Len(log))'
    <3>1. Edited(stored.doc, live, stored.upto, Len(log))
      BY <1>1, <2>1 DEF CreditInv, DifferencesEdited
    <3> QED BY <1>1, <3>1 DEF Edited, Parts, Part, Edits
  <2>2. ASSUME Reads("ok")'
        PROVE  Edited(poll.answer.doc, live, poll.upto, Len(log))'
    <3>1. poll'.answer.doc = live'  BY <1>1, <1>4, <2>2 DEF Reads
    <3> QED BY <3>1 DEF Edited
  <2>3. ASSUME Reads("ok")', stored' # None, stored'.upto > 0
        PROVE  Edited(stored.doc, poll.answer.doc, stored.upto, poll.upto)'
    <3>1. poll'.answer.doc = live /\ live # None  BY <1>4, <2>3 DEF Reads
    <3>2. Edited(stored.doc, live, stored.upto, Len(log))
      BY <1>1, <2>3, <3>1 DEF CreditInv, DifferencesEdited
    <3> QED BY <1>1, <1>3, <3>1, <3>2 DEF Edited, Parts, Part, Edits
  <2> QED BY <2>1, <2>2, <2>3 DEF DifferencesEdited
<1>11. EditsInReach'
  <2>1. Reads("ok")' => live # None  BY <1>4 DEF Reads
  <2>2. Unbroken' /\ (live' # None \/ Reads("ok")') => EditsSince(Base, lastSuccess - Skew)'
    BY <1>1, <1>6, <2>1 DEF CreditInv, EditsInReach, EditsSince
  <2> QED BY <1>1, <2>2 DEF CreditInv, EditsInReach, EditsSince
<1> QED BY <1>7, <1>8, <1>9, <1>10, <1>11 DEF CreditInv

LEMMA EndReadCredit == ASSUME TypeOK, CreditInv, EndRead PROVE CreditInv'
<1>1. /\ collector' = collector /\ log' = log /\ stored' = stored /\ now' = now /\ live' = live
      /\ lastSuccess' = lastSuccess /\ guard' = guard
      /\ poll.step = "reading" /\ poll' = [poll EXCEPT !.step = "fetched", !.observed = now]
  BY DEF EndRead, NoRecord, World, State
<1>2. poll # Idle  BY <1>1 DEF Idle
<1>3. /\ poll \in Polls /\ now \in Nat /\ poll.began \in Nat /\ poll.observed \in Nat
  BY <1>2, Numbers
<1>4. /\ poll'.step = "fetched" /\ poll'.observed = now /\ poll'.began = poll.began
      /\ poll'.upto = poll.upto /\ poll'.answer = poll.answer
  BY <1>1, <1>3 DEF Polls
<1>5. poll' # Idle  BY <1>4 DEF Idle
<1>6. \A kind : Reads(kind)' = Reads(kind)  BY <1>2, <1>4, <1>5 DEF Reads
<1>7. Base' = Base /\ Unbroken' = Unbroken  BY <1>1 DEF Base, Unbroken
<1>8. LogInOrder'  BY <1>1 DEF CreditInv, LogInOrder
<1>9. PollInTime'
  <2>1. poll.began <= now
    <3>1. poll.began <= poll.observed /\ poll.observed <= now
      BY <1>2 DEF CreditInv, PollInTime
    <3> QED BY <1>3, <3>1
  <2>2. now <= now  BY <1>3
  <2>3. now - poll.began <= ReadTime  BY <1>1, <1>2 DEF CreditInv, PollInTime
  <2> QED BY <1>1, <1>2, <1>4, <1>7, <2>1, <2>2, <2>3 DEF CreditInv, PollInTime
<1>10. RemovedForGood'
  BY <1>1, <1>2, <1>4, <1>5 DEF CreditInv, RemovedForGood, Undeleted, Reads
<1>11. DifferencesEdited'
  <2>1. ASSUME stored' # None, stored'.upto > 0, live' # None
        PROVE  Edited(stored.doc, live, stored.upto, Len(log))'
    <3>1. Edited(stored.doc, live, stored.upto, Len(log))
      BY <1>1, <2>1 DEF CreditInv, DifferencesEdited
    <3> QED BY <1>1, <3>1 DEF Edited, Parts, Part, Edits
  <2>2. ASSUME Reads("ok")', poll'.upto > 0, live' # None
        PROVE  Edited(poll.answer.doc, live, poll.upto, Len(log))'
    <3>1. Edited(poll.answer.doc, live, poll.upto, Len(log))
      BY <1>1, <1>4, <1>6, <2>2 DEF CreditInv, DifferencesEdited
    <3>2. poll'.answer.doc = poll.answer.doc  BY <1>4
    <3>3. log' = log /\ live' = live /\ collector' = collector /\ poll'.upto = poll.upto
      BY <1>1, <1>4
    <3> QED BY <3>1, <3>2, <3>3 DEF Edited, Parts, Part, Edits
  <2>3. ASSUME Reads("ok")', stored' # None, stored'.upto > 0
        PROVE  Edited(stored.doc, poll.answer.doc, stored.upto, poll.upto)'
    <3>1. Edited(stored.doc, poll.answer.doc, stored.upto, poll.upto)
      BY <1>1, <1>6, <2>3 DEF CreditInv, DifferencesEdited
    <3> QED BY <1>1, <1>4, <3>1 DEF Edited, Parts, Part, Edits
  <2> QED BY <2>1, <2>2, <2>3 DEF DifferencesEdited
<1>12. EditsInReach'
  BY <1>1, <1>2, <1>4, <1>5 DEF CreditInv, EditsInReach, EditsSince, Base, Unbroken, Reads
<1> QED BY <1>8, <1>9, <1>10, <1>11, <1>12 DEF CreditInv

LEMMA FailPollCredit == ASSUME TypeOK, CreditInv, FailPoll PROVE CreditInv'
<1>1. /\ collector' = collector /\ log' = log /\ now' = now /\ live' = live /\ poll' = poll
      /\ lastSuccess' = lastSuccess /\ poll = Idle
      /\ guard' = [guard EXCEPT !.failures = Min({guard.failures + 1, FailureCap}), !.error = "other"]
      /\ stored' = IF stored = None THEN None
                   ELSE [stored EXCEPT !.broken = stored.broken \/ (guard.error = "guard")]
  BY DEF FailPoll, NoRecord, World
<1>2. guard'.mark = guard.mark /\ guard'.error = "other"
  <2>1. guard \in [failures : 0..FailureCap, error : {"", "other", "guard"}, mark : Nat \cup {Never}]
    BY DEF TypeOK
  <2> QED BY <1>1, <2>1
<1>3. /\ stored = None => stored' = None
      /\ stored # None => /\ stored' # None /\ stored'.doc = stored.doc /\ stored'.upto = stored.upto
                          /\ stored'.missing = stored.missing /\ stored'.late = stored.late
                          /\ ~ stored'.broken => ~ stored.broken /\ guard.error # "guard"
  <2>1. CASE stored = None  BY <1>1, <2>1
  <2>2. CASE stored # None
    <3>1. stored \in Snapshot(collector) /\ collector \in Collectors  BY <2>2 DEF TypeOK
    <3> DEFINE broken == stored.broken \/ guard.error = "guard"
    <3>2. stored' = [stored EXCEPT !.broken = broken]  BY <1>1, <2>2
    <3>3. broken \in BOOLEAN  BY <3>1 DEF Snapshot
    <3>4. ~ broken => ~ stored.broken /\ guard.error # "guard"  OBVIOUS
    <3> HIDE DEF broken
    <3>5. /\ stored' \in Snapshot(collector) /\ stored'.doc = stored.doc
          /\ stored'.upto = stored.upto /\ stored'.broken = broken
          /\ stored'.missing = stored.missing /\ stored'.late = stored.late
      BY <3>1, <3>2, <3>3 DEF Snapshot
    <3>6. stored' # None  BY <3>1, <3>5, NoSnapshot
    <3> QED BY <2>2, <3>4, <3>5, <3>6
  <2> QED BY <2>1, <2>2
<1>4. \A kind : ~ Reads(kind) /\ ~ Reads(kind)'  BY <1>1 DEF Reads
<1>5. Base' = Base /\ (Unbroken' => Unbroken)  BY <1>3 DEF Base, Unbroken
<1>6. LogInOrder'  BY <1>1 DEF CreditInv, LogInOrder
<1>7. PollInTime'  BY <1>1, <1>5 DEF CreditInv, PollInTime
<1>8. RemovedForGood'
  <2>1. live' # None => Undeleted(Len(log))'
    BY <1>1 DEF CreditInv, RemovedForGood, Undeleted
  <2>2. stored' # None => Undeleted(stored.upto)'
    BY <1>1, <1>3 DEF CreditInv, RemovedForGood, Undeleted
  <2>3. collector' = "device_details" => stored' # None
    BY <1>1, <1>3 DEF CreditInv, RemovedForGood
  <2> QED BY <1>4, <2>1, <2>2, <2>3 DEF RemovedForGood
<1>9. DifferencesEdited'
  <2>1. ASSUME stored' # None, stored'.upto > 0, live' # None
        PROVE  Edited(stored.doc, live, stored.upto, Len(log))'
    <3>1. stored # None /\ stored'.upto = stored.upto /\ stored'.doc = stored.doc  BY <1>3, <2>1
    <3>2. Edited(stored.doc, live, stored.upto, Len(log))
      BY <1>1, <2>1, <3>1 DEF CreditInv, DifferencesEdited
    <3>3. log' = log /\ live' = live /\ collector' = collector  BY <1>1
    <3> QED BY <3>1, <3>2, <3>3 DEF Edited, Parts, Part, Edits
  <2> QED BY <1>4, <2>1 DEF DifferencesEdited
<1>10. EditsInReach'
  <2>1. Unbroken' /\ live' # None => EditsSince(Base, lastSuccess - Skew)'
    BY <1>1, <1>5 DEF CreditInv, EditsInReach, EditsSince
  <2>2. ASSUME stored' # None, ~ stored'.broken
        PROVE  /\ stored'.missing = 0 => EditsSince(stored.upto, lastSuccess - Skew)'
               /\ stored'.missing = 1 /\ guard'.mark = Never =>
                    stored'.late \/ EditsSince(stored.upto, lastSuccess - Lookback - Skew)'
               /\ stored'.missing = 1 /\ guard'.mark # Never =>
                    EditsSince(stored.upto, guard.mark - Skew)'
    <3>1. /\ stored # None /\ ~ stored.broken /\ guard.error # "guard"
          /\ stored'.upto = stored.upto /\ stored'.missing = stored.missing
          /\ stored'.late = stored.late
      BY <1>3, <2>2
    <3>2. log' = log /\ lastSuccess' = lastSuccess  BY <1>1
    <3> QED BY <1>2, <3>1, <3>2 DEF CreditInv, EditsInReach, EditsSince
  <2>3. guard'.mark <= lastSuccess'  BY <1>1, <1>2 DEF CreditInv, EditsInReach
  <2> QED BY <1>2, <1>4, <2>1, <2>2, <2>3 DEF EditsInReach
<1> QED BY <1>6, <1>7, <1>8, <1>9, <1>10 DEF CreditInv

\* The row after an answer, field by field.
LEMMA RowFields ==
  ASSUME TypeOK, poll.step = "fetched", NEW held \in BOOLEAN
  PROVE  /\ Answered("ok") => /\ Row(held).doc = poll.answer.doc /\ Row(held).missing = 0
                              /\ Row(held).upto = poll.upto /\ Row(held).broken = FALSE
         /\ Removal => Row(held) = None
         /\ Answered("gone") /\ stored # None /\ ~ Removal =>
              /\ Row(held).doc = stored.doc /\ Row(held).upto = stored.upto
              /\ Row(held).broken = stored.broken
              /\ Row(held).missing = (IF held THEN 0 ELSE 1)
              /\ stored.late \/ poll.observed - lastSuccess > Lookback => Row(held).late
         /\ Answered("omitted") /\ stored # None =>
              /\ Row(held).doc = stored.doc /\ Row(held).upto = stored.upto
              /\ Row(held).broken = TRUE
         /\ ~ Answered("ok") /\ stored = None => Row(held) = None
<1>0. stored # None => stored \in Snapshot(collector)  BY DEF TypeOK
<1>1. Answered("ok") => /\ Row(held).doc = poll.answer.doc /\ Row(held).missing = 0
                        /\ Row(held).upto = poll.upto /\ Row(held).broken = FALSE
  <2> SUFFICES ASSUME Answered("ok")
               PROVE  /\ Row(held).doc = poll.answer.doc /\ Row(held).missing = 0
                      /\ Row(held).upto = poll.upto /\ Row(held).broken = FALSE
    OBVIOUS
  <2>1. Row(held) = [doc |-> poll.answer.doc, missing |-> 0, upto |-> poll.upto,
                     late |-> FALSE, broken |-> FALSE]
    BY DEF Row, Answered
  <2> QED BY <2>1
<1>2. Removal => Row(held) = None  BY RowIs
<1>3. ~ Answered("ok") /\ stored = None => Row(held) = None  BY RowIs
<1>4. ASSUME Answered("gone"), stored # None, ~ Removal
      PROVE  /\ Row(held).doc = stored.doc /\ Row(held).upto = stored.upto
             /\ Row(held).broken = stored.broken
             /\ Row(held).missing = (IF held THEN 0 ELSE 1)
             /\ stored.late \/ poll.observed - lastSuccess > Lookback => Row(held).late
  <2> DEFINE late == stored.late \/ (poll.observed - lastSuccess > Lookback)
             missing == IF held THEN 0 ELSE 1
  <2>1. Row(held) = [stored EXCEPT !.missing = missing, !.late = late]
    BY <1>4 DEF Row, Answered
  <2>2. stored \in Snapshot(collector)  BY <1>0, <1>4
  <2> HIDE DEF late, missing
  <2>3. /\ Row(held).doc = stored.doc /\ Row(held).upto = stored.upto
        /\ Row(held).broken = stored.broken
        /\ Row(held).missing = missing /\ Row(held).late = late
    BY <2>1, <2>2 DEF Snapshot
  <2> QED BY <2>3 DEF late, missing
<1>5. ASSUME Answered("omitted"), stored # None
      PROVE  /\ Row(held).doc = stored.doc /\ Row(held).upto = stored.upto
             /\ Row(held).broken = TRUE
  <2>1. Row(held) = [stored EXCEPT !.broken = TRUE]  BY <1>5 DEF Row, Answered
  <2>2. stored \in Snapshot(collector)  BY <1>0, <1>5
  <2> QED BY <2>1, <2>2 DEF Snapshot
<1> QED BY <1>1, <1>2, <1>3, <1>4, <1>5

\* What a poll does to the state, and what it reads.
LEMMA ApplyIs ==
  ASSUME TypeOK, CreditInv, NEW held \in BOOLEAN, Apply(held)
  PROVE  /\ poll.step = "fetched" /\ poll # Idle /\ poll' = Idle
         /\ stored' = Row(held) /\ lastSuccess' = poll.observed
         /\ guard' = Health(held, Row(held))
         /\ collector' = collector /\ now' = now /\ live' = live /\ log' = log
         /\ held => Answered("gone")
         /\ \A kind : Reads(kind) <=> Answered(kind)
         /\ \A kind : ~ Reads(kind)'
         /\ Answered("ok") \/ Answered("gone") \/ Answered("omitted")
         /\ Answered("omitted") => stored # None
         /\ collector = "device_details" => ~ Answered("gone")
<1>1. /\ poll.step = "fetched" /\ poll' = Idle
      /\ stored' = Row(held) /\ lastSuccess' = poll.observed
      /\ guard' = Health(held, Row(held))
      /\ collector' = collector /\ now' = now /\ live' = live /\ log' = log
      /\ held => Answered("gone")
  BY DEF Apply, MayGuard, World
<1>2. poll # Idle  BY <1>1 DEF Idle
<1>3. \A kind : Reads(kind) <=> Answered(kind)  BY <1>2 DEF Reads, Answered
<1>4. \A kind : ~ Reads(kind)'  BY <1>1 DEF Reads
<1>5. Answered("ok") \/ Answered("gone") \/ Answered("omitted")
  BY <1>1, AnswerIs DEF Answered
<1>6. collector \in {"devices", "device_details"}  BY DEF TypeOK, Collectors
<1>7. /\ Answered("omitted") => stored # None
      /\ collector = "device_details" => ~ Answered("gone")
  BY <1>3, <1>6 DEF CreditInv, RemovedForGood
<1> QED BY <1>1, <1>2, <1>3, <1>4, <1>5, <1>7

\* The times and positions of a poll that is applied.
LEMMA ApplyTimes ==
  ASSUME TypeOK, CreditInv, poll # Idle
  PROVE  /\ lastSuccess \in Nat /\ poll.observed \in Nat /\ poll.began \in Nat /\ poll.upto \in Nat
         /\ Len(log) \in Nat /\ Base \in Nat /\ now \in Nat
         /\ lastSuccess <= poll.began /\ poll.began <= poll.observed /\ poll.observed <= now
         /\ lastSuccess <= poll.observed
         /\ Base <= poll.upto /\ poll.upto <= Len(log)
         /\ DOMAIN log = 1..Len(log)
         /\ \A k \in DOMAIN log : /\ k \in Nat /\ k > 0 /\ log[k].at \in Nat
                                  /\ k <= poll.upto => log[k].at <= poll.began
                                  /\ ~ (k <= poll.upto) => poll.began <= log[k].at
         /\ poll.observed - Skew <= poll.began
<1>1. /\ now \in Nat /\ lastSuccess \in Nat /\ Len(log) \in Nat /\ DOMAIN log = 1..Len(log)
      /\ \A k \in DOMAIN log : log[k].at \in Nat
      /\ Base \in Nat /\ poll.began \in Nat /\ poll.observed \in Nat /\ poll.upto \in Nat
      /\ Skew \in Nat /\ ReadTime \in Nat /\ ReadTime <= Skew
  BY Numbers
<1>2. /\ lastSuccess <= poll.began /\ poll.began <= poll.observed /\ poll.observed <= now
      /\ poll.observed - poll.began <= ReadTime
      /\ Base <= poll.upto /\ poll.upto <= Len(log)
      /\ \A k \in DOMAIN log : IF k <= poll.upto THEN log[k].at <= poll.began
                               ELSE poll.began <= log[k].at
  BY DEF CreditInv, PollInTime
<1>3. lastSuccess <= poll.observed  BY <1>1, <1>2
<1>4. poll.observed - Skew <= poll.began  BY <1>1, <1>2
<1>5. \A k \in DOMAIN log : k \in Nat /\ k > 0  BY <1>1
<1> QED BY <1>1, <1>2, <1>3, <1>4, <1>5

LEMMA ApplyInTime ==
  ASSUME TypeOK, CreditInv, NEW held \in BOOLEAN, Apply(held)
  PROVE  LogInOrder' /\ PollInTime'
<1>1. /\ poll.step = "fetched" /\ poll # Idle /\ poll' = Idle
      /\ stored' = Row(held) /\ lastSuccess' = poll.observed
      /\ now' = now /\ log' = log
      /\ Answered("ok") \/ Answered("gone") \/ Answered("omitted")
      /\ Answered("omitted") => stored # None
  BY ApplyIs
<1>2. /\ poll.observed <= now /\ Base <= poll.upto /\ poll.upto <= Len(log)
      /\ Base \in Nat /\ Len(log) \in Nat /\ poll.upto \in Nat
  BY <1>1, ApplyTimes
<1>3. LogInOrder'  BY <1>1, <1>2 DEF CreditInv, LogInOrder
<1>4. Base' \in {0, Base, poll.upto}
  <2>1. CASE stored' = None  BY <2>1 DEF Base
  <2>2. CASE stored' # None
    <3>1. Base' = stored'.upto  BY <2>2 DEF Base
    <3>2. stored # None => Base = stored.upto  BY DEF Base
    <3>3. CASE Answered("ok")  BY <1>1, <3>1, <3>3, RowFields
    <3>4. CASE Answered("omitted")  BY <1>1, <3>1, <3>2, <3>4, RowFields
    <3>5. CASE Answered("gone")
      <4>1. ~ Answered("ok")  BY <3>5 DEF Answered
      <4>2. stored # None /\ ~ Removal  BY <1>1, <2>2, <4>1, RowFields
      <4> QED BY <1>1, <3>1, <3>2, <3>5, <4>2, RowFields
    <3> QED BY <1>1, <3>3, <3>4, <3>5
  <2> QED BY <2>1, <2>2
<1>5. Base' <= Len(log')  BY <1>1, <1>2, <1>4
<1>6. PollInTime'  BY <1>1, <1>5 DEF PollInTime
<1> QED BY <1>3, <1>6

LEMMA ApplyRemoved ==
  ASSUME TypeOK, CreditInv, NEW held \in BOOLEAN, Apply(held)
  PROVE  RemovedForGood' /\ DifferencesEdited'
<1>1. /\ poll.step = "fetched" /\ poll # Idle /\ stored' = Row(held)
      /\ collector' = collector /\ now' = now /\ live' = live /\ log' = log
      /\ \A kind : Reads(kind) <=> Answered(kind)
      /\ \A kind : ~ Reads(kind)'
      /\ Answered("ok") \/ Answered("gone") \/ Answered("omitted")
      /\ Answered("omitted") => stored # None
      /\ collector = "device_details" => ~ Answered("gone")
  BY ApplyIs
<1>2. live' # None => Undeleted(Len(log))'
  BY <1>1 DEF CreditInv, RemovedForGood, Undeleted
<1>3. stored' # None => \/ /\ Answered("ok")
                           /\ stored'.doc = poll.answer.doc /\ stored'.upto = poll.upto
                        \/ /\ stored # None
                           /\ stored'.doc = stored.doc /\ stored'.upto = stored.upto
  <2> SUFFICES ASSUME stored' # None
               PROVE  \/ /\ Answered("ok")
                         /\ stored'.doc = poll.answer.doc /\ stored'.upto = poll.upto
                      \/ /\ stored # None
                         /\ stored'.doc = stored.doc /\ stored'.upto = stored.upto
    OBVIOUS
  <2>1. CASE Answered("ok")  BY <1>1, <2>1, RowFields
  <2>2. CASE Answered("omitted")  BY <1>1, <2>2, RowFields
  <2>3. CASE Answered("gone")
    <3>1. ~ Answered("ok")  BY <2>3 DEF Answered
    <3>2. stored # None /\ ~ Removal  BY <1>1, <3>1, RowFields
    <3> QED BY <1>1, <2>3, <3>2, RowFields
  <2> QED BY <1>1, <2>1, <2>2, <2>3
<1>4. stored' # None => Undeleted(stored.upto)'
  <2> SUFFICES ASSUME stored' # None PROVE Undeleted(stored.upto)'  OBVIOUS
  <2>1. CASE Answered("ok") /\ stored'.upto = poll.upto
    BY <1>1, <2>1 DEF CreditInv, RemovedForGood, Undeleted
  <2>2. CASE stored # None /\ stored'.upto = stored.upto
    BY <1>1, <2>2 DEF CreditInv, RemovedForGood, Undeleted
  <2> QED BY <1>3, <2>1, <2>2
<1>5. collector' = "device_details" => stored' # None
  <2> SUFFICES ASSUME collector = "device_details" PROVE stored' # None  BY <1>1
  <2>1. collector \in Collectors  BY DEF TypeOK
  <2>2. Answered("ok") \/ Answered("omitted")  BY <1>1
  <2>3. ~ Removal  BY <1>1 DEF Removal
  <2>4. stored # None  BY DEF CreditInv, RemovedForGood
  <2>5. stored' \in Snapshot(collector)  BY <1>1, <2>2, <2>3, <2>4, RowIs
  <2> QED BY <2>1, <2>5, NoSnapshot
<1>6. RemovedForGood'  BY <1>1, <1>2, <1>4, <1>5 DEF RemovedForGood
<1>7. ASSUME stored' # None, stored'.upto > 0, live' # None
      PROVE  Edited(stored.doc, live, stored.upto, Len(log))'
  <2>1. CASE Answered("ok") /\ stored'.doc = poll.answer.doc /\ stored'.upto = poll.upto
    <3>1. Edited(poll.answer.doc, live, poll.upto, Len(log))
      BY <1>1, <1>7, <2>1 DEF CreditInv, DifferencesEdited
    <3>2. log' = log /\ live' = live /\ collector' = collector  BY <1>1
    <3> QED BY <2>1, <3>1, <3>2 DEF Edited, Parts, Part, Edits
  <2>2. CASE stored # None /\ stored'.doc = stored.doc /\ stored'.upto = stored.upto
    <3>1. Edited(stored.doc, live, stored.upto, Len(log))
      BY <1>1, <1>7, <2>2 DEF CreditInv, DifferencesEdited
    <3>2. log' = log /\ live' = live /\ collector' = collector  BY <1>1
    <3> QED BY <2>2, <3>1, <3>2 DEF Edited, Parts, Part, Edits
  <2> QED BY <1>3, <1>7, <2>1, <2>2
<1>8. DifferencesEdited'  BY <1>1, <1>7 DEF DifferencesEdited
<1> QED BY <1>6, <1>8

LEMMA HealthFields ==
  ASSUME NEW held \in BOOLEAN, held => Answered("gone"), NEW row
  PROVE  /\ held => /\ Health(held, row).error = "guard"
                    /\ Health(held, row).mark =
                         (IF guard.error = "guard" THEN guard.mark ELSE lastSuccess)
         /\ Answered("omitted") => Health(held, row) = guard
         /\ ~ held /\ ~ Answered("omitted") =>
              /\ Health(held, row).error = ""
              /\ Health(held, row).mark =
                   (IF row = None \/ row.missing = 0 THEN Never ELSE guard.mark)
<1>1. Answered("omitted") => ~ held  BY DEF Answered
<1>2. CASE held
  <2> DEFINE f == Min({guard.failures + 1, FailureCap})
             m == IF guard.error = "guard" THEN guard.mark ELSE lastSuccess
  <2>1. Health(held, row) = [failures |-> f, error |-> "guard", mark |-> m]
    BY <1>1, <1>2 DEF Health
  <2> HIDE DEF f, m
  <2>2. Health(held, row).error = "guard" /\ Health(held, row).mark = m  BY <2>1
  <2> QED BY <1>1, <1>2, <2>2 DEF m
<1>3. CASE Answered("omitted")  BY <1>1, <1>3 DEF Health
<1>4. CASE ~ held /\ ~ Answered("omitted")
  <2>1. Health(held, row).error = ""  BY <1>4 DEF Health
  <2>2. Health(held, row).mark = (IF row = None \/ row.missing = 0 THEN Never ELSE guard.mark)
    BY <1>4 DEF Health
  <2> QED BY <1>4, <2>1, <2>2
<1> QED BY <1>2, <1>3, <1>4

\* What the answer does not tell of yet was entered after it.
LEMMA AfterTheAnswer ==
  ASSUME TypeOK, CreditInv, poll # Idle, NEW l \in Nat, poll.upto <= l
  PROVE  EditsSince(l, poll.observed - Skew)
<1> SUFFICES ASSUME NEW k \in DOMAIN log, l < k PROVE poll.observed - Skew <= log[k].at
  BY DEF EditsSince
<1>1. /\ poll.observed \in Nat /\ poll.began \in Nat /\ poll.upto \in Nat /\ Skew \in Nat
      /\ k \in Nat /\ log[k].at \in Nat
      /\ ~ (k <= poll.upto) => poll.began <= log[k].at
      /\ poll.observed - Skew <= poll.began
  BY ApplyTimes, Numbers
<1>2. ~ (k <= poll.upto)  BY <1>1
<1> QED BY <1>1, <1>2

LEMMA SinceEarlier ==
  ASSUME TypeOK, NEW l, NEW t \in Int, NEW s \in Int, s <= t, EditsSince(l, t)
  PROVE  EditsSince(l, s)
<1> SUFFICES ASSUME NEW k \in DOMAIN log, l < k PROVE s <= log[k].at
  BY DEF EditsSince
<1>1. t <= log[k].at /\ log[k].at \in Nat  BY Numbers DEF EditsSince
<1> QED BY <1>1

LEMMA ApplyInReach ==
  ASSUME TypeOK, CreditInv, NEW held \in BOOLEAN, Apply(held)
  PROVE  EditsInReach'
<1>1. /\ poll.step = "fetched" /\ poll # Idle /\ stored' = Row(held)
      /\ guard' = Health(held, Row(held)) /\ lastSuccess' = poll.observed
      /\ collector' = collector /\ now' = now /\ live' = live /\ log' = log
      /\ \A kind : Reads(kind) <=> Answered(kind)
      /\ \A kind : ~ Reads(kind)'
      /\ held => Answered("gone")
      /\ Answered("ok") \/ Answered("gone") \/ Answered("omitted")
      /\ Answered("omitted") => stored # None
  BY ApplyIs
<1>2. /\ lastSuccess \in Nat /\ poll.observed \in Nat /\ poll.upto \in Nat
      /\ lastSuccess <= poll.observed /\ Base <= poll.upto /\ Base \in Nat
  BY <1>1, ApplyTimes
<1>3. /\ Skew \in Nat /\ Lookback \in Nat /\ guard.mark \in Nat \cup {Never}
      /\ stored # None => stored.missing \in {0, 1} /\ stored.upto \in Nat
  BY Numbers
<1>4. guard.mark \in Int /\ guard.mark <= lastSuccess /\ Never \in Int /\ Never < 0
  BY <1>3 DEF CreditInv, EditsInReach, Never
<1>5. guard.error = "guard" => guard.mark # Never  BY DEF CreditInv, EditsInReach
<1>6. /\ held => /\ guard'.error = "guard"
                 /\ guard'.mark = (IF guard.error = "guard" THEN guard.mark ELSE lastSuccess)
      /\ Answered("omitted") => guard' = guard
      /\ ~ held /\ ~ Answered("omitted") =>
           /\ guard'.error = ""
           /\ guard'.mark = (IF stored' = None \/ stored'.missing = 0 THEN Never ELSE guard.mark)
  BY <1>1, HealthFields
<1>7. /\ Answered("gone") => ~ Answered("ok") /\ ~ Answered("omitted")
      /\ Answered("ok") => ~ Answered("omitted") /\ ~ held
      /\ Answered("omitted") => ~ held
  BY <1>1 DEF Answered
<1>8. guard'.mark <= lastSuccess' /\ (guard'.error = "guard" => guard'.mark # Never)
  <2>1. guard'.mark \in {guard.mark, lastSuccess, Never}  BY <1>6, <1>7
  <2>2. guard'.mark <= lastSuccess'  BY <1>1, <1>2, <1>4, <2>1
  <2>3. ASSUME guard'.error = "guard" PROVE guard'.mark # Never
    <3>1. lastSuccess # Never  BY <1>2, <1>4
    <3>2. CASE held  BY <1>5, <1>6, <3>1, <3>2
    <3>3. CASE Answered("omitted")  BY <1>5, <1>6, <2>3, <3>3
    <3> QED BY <1>6, <2>3, <3>2, <3>3
  <2> QED BY <2>2, <2>3
<1>9. Answered("ok") => EditsSince(poll.upto, poll.observed - Skew)
  <2>1. poll.upto <= poll.upto  BY <1>2
  <2> QED BY <1>1, <1>2, <2>1, AfterTheAnswer
<1>10. ASSUME Unbroken', live' # None PROVE EditsSince(Base, lastSuccess - Skew)'
  <2>1. CASE Answered("ok")
    <3>1. Base' = poll.upto
      <4>1. stored' # None
        <5>1. stored' \in Snapshot(collector)  BY <1>1, <2>1, RowIs
        <5> QED BY <5>1, NoSnapshot DEF TypeOK
      <4>2. stored'.upto = poll.upto  BY <1>1, <2>1, RowFields
      <4> QED BY <4>1, <4>2 DEF Base
    <3> QED BY <1>1, <1>9, <2>1, <3>1 DEF EditsSince
  <2>2. CASE Answered("gone")
    <3>1. poll.upto = 0  BY <1>1, <1>10, <2>2 DEF CreditInv, RemovedForGood
    <3>2. Base' \in Nat
      <4>1. stored # None => Base = stored.upto  BY DEF Base
      <4>2. stored' # None => stored # None /\ ~ Removal  BY <1>1, <1>7, <2>2, RowFields
      <4>3. stored' # None => stored'.upto = stored.upto  BY <1>1, <2>2, <4>2, RowFields
      <4> QED BY <1>3, <4>2, <4>3 DEF Base
    <3>3. poll.upto <= Base'  BY <3>1, <3>2
    <3> DEFINE l == Base'
    <3>4. l \in Nat /\ poll.upto <= l  BY <3>2, <3>3
    <3>5. EditsSince(l, poll.observed - Skew)
      <4> HIDE DEF l
      <4> QED BY <1>1, <3>4, AfterTheAnswer
    <3> QED BY <1>1, <3>5 DEF EditsSince
  <2>3. CASE Answered("omitted")
    <3>1. stored # None  BY <1>1, <2>3
    <3>2. stored'.broken = TRUE  BY <1>1, <2>3, <3>1, RowFields
    <3>3. stored' # None
      <4>1. ~ Answered("ok") /\ ~ Removal  BY <2>3 DEF Answered, Removal
      <4>2. stored' \in Snapshot(collector)  BY <1>1, <3>1, <4>1, RowIs
      <4> QED BY <4>2, NoSnapshot DEF TypeOK
    <3> QED BY <1>10, <3>2, <3>3 DEF Unbroken
  <2> QED BY <1>1, <2>1, <2>2, <2>3
<1>11. ASSUME stored' # None, ~ stored'.broken
       PROVE  /\ stored'.missing = 0 /\ guard'.error # "guard" =>
                   EditsSince(stored.upto, lastSuccess - Skew)'
              /\ stored'.missing = 0 /\ guard'.error = "guard" =>
                   EditsSince(stored.upto, guard.mark - Skew)'
              /\ stored'.missing = 1 /\ guard'.mark = Never =>
                   stored'.late \/ EditsSince(stored.upto, lastSuccess - Lookback - Skew)'
              /\ stored'.missing = 1 /\ guard'.mark # Never =>
                   EditsSince(stored.upto, guard.mark - Skew)'
  <2>1. CASE Answered("ok")
    <3>1. stored'.missing = 0 /\ stored'.upto = poll.upto  BY <1>1, <2>1, RowFields
    <3>2. guard'.error # "guard"  BY <1>6, <1>7, <2>1
    <3>3. EditsSince(stored.upto, lastSuccess - Skew)'  BY <1>1, <1>9, <2>1, <3>1 DEF EditsSince
    <3> QED BY <3>1, <3>2, <3>3
  <2>2. CASE Answered("gone")
    <3>1. stored # None /\ ~ Removal  BY <1>1, <1>7, <1>11, <2>2, RowFields
    <3>2. stored.missing = 0  BY <1>3, <2>2, <3>1 DEF Removal
    <3>3. /\ stored'.upto = stored.upto /\ ~ stored.broken
          /\ stored'.missing = (IF held THEN 0 ELSE 1)
          /\ stored.late \/ poll.observed - lastSuccess > Lookback => stored'.late
      BY <1>1, <1>11, <2>2, <3>1, RowFields
    <3>4. /\ guard.error # "guard" => EditsSince(stored.upto, lastSuccess - Skew)
          /\ guard.error = "guard" => EditsSince(stored.upto, guard.mark - Skew)
      BY <3>1, <3>2, <3>3 DEF CreditInv, EditsInReach
    <3>5. CASE held
      <4>1. stored'.missing = 0 /\ guard'.error = "guard"  BY <1>6, <3>3, <3>5
      <4>2. EditsSince(stored.upto, guard'.mark - Skew)  BY <1>6, <3>4, <3>5
      <4>3. EditsSince(stored.upto, guard.mark - Skew)'
        BY <1>1, <3>3, <4>2 DEF EditsSince
      <4> QED BY <4>1, <4>3
    <3>6. CASE ~ held
      <4>1. stored'.missing = 1 /\ guard'.mark = guard.mark
        <5>1. stored'.missing = 1  BY <3>3, <3>6
        <5>2. ~ Answered("omitted")  BY <1>7, <2>2
        <5>3. guard'.mark = (IF stored' = None \/ stored'.missing = 0 THEN Never ELSE guard.mark)
          BY <1>6, <3>6, <5>2
        <5>4. guard'.mark = guard.mark  BY <1>11, <5>1, <5>3
        <5> QED BY <5>1, <5>4
      <4>2. ASSUME guard.mark = Never, ~ stored'.late
            PROVE  EditsSince(stored.upto, lastSuccess - Lookback - Skew)'
        <5>1. EditsSince(stored.upto, lastSuccess - Skew)  BY <1>5, <3>4, <4>2
        <5>2. /\ poll.observed - Lookback - Skew \in Int /\ lastSuccess - Skew \in Int
              /\ poll.observed - Lookback - Skew <= lastSuccess - Skew
          BY <1>2, <1>3, <3>3, <4>2
        <5>3. EditsSince(stored.upto, poll.observed - Lookback - Skew)
          BY <5>1, <5>2, SinceEarlier
        <5> QED BY <1>1, <3>3, <5>3 DEF EditsSince
      <4>3. EditsSince(stored.upto, guard.mark - Skew)
        <5>1. /\ guard.mark - Skew \in Int /\ lastSuccess - Skew \in Int
              /\ guard.mark - Skew <= lastSuccess - Skew
          BY <1>2, <1>3, <1>4
        <5>2. guard.error # "guard" => EditsSince(stored.upto, guard.mark - Skew)
          BY <3>4, <5>1, SinceEarlier
        <5> QED BY <3>4, <5>2
      <4>4. EditsSince(stored.upto, guard.mark - Skew)'
        BY <1>1, <3>3, <4>1, <4>3 DEF EditsSince
      <4> QED BY <4>1, <4>2, <4>4
    <3> QED BY <3>5, <3>6
  <2>3. CASE Answered("omitted")
    <3>1. stored'.broken = TRUE  BY <1>1, <2>3, RowFields
    <3> QED BY <1>11, <3>1
  <2> QED BY <1>1, <2>1, <2>2, <2>3
<1> QED BY <1>1, <1>8, <1>10, <1>11 DEF EditsInReach

LEMMA ApplyCredit ==
  ASSUME TypeOK, CreditInv, NEW held \in BOOLEAN, Apply(held)
  PROVE  CreditInv'
BY ApplyInTime, ApplyRemoved, ApplyInReach DEF CreditInv

LEMMA InitCredit == Init => CreditInv
<1> SUFFICES ASSUME Init PROVE CreditInv  OBVIOUS
<1>0. TypeOK  BY InitInv DEF Inv
<1>1. now = 0 /\ log = <<>> /\ lastSuccess = 0 /\ poll = Idle  BY DEF Init
<1>2. guard.mark = Never /\ guard.error = ""
  <2>1. guard = [failures |-> 0, error |-> "", mark |-> Never]  BY DEF Init
  <2> QED BY <2>1
<1>3. DOMAIN log = {} /\ Len(log) = 0
  <2>1. Len(log) = 0  BY <1>1
  <2>2. DOMAIN log = 1..Len(log)  BY <1>0, Numbers
  <2>3. 1..0 = {}  OBVIOUS
  <2> QED BY <2>1, <2>2, <2>3
<1>4. stored # None => stored.upto = 0
  <2>1. stored = IF view = None THEN None
                 ELSE [doc |-> view, missing |-> 0, upto |-> 0, late |-> FALSE, broken |-> FALSE]
    BY DEF Init
  <2> QED BY <2>1
<1>5. Base = 0  BY <1>4 DEF Base
<1>6. \A kind : ~ Reads(kind)  BY <1>1 DEF Reads
<1>7. LogInOrder
  <2>1. lastSuccess <= now  BY <1>1
  <2> QED BY <1>3, <2>1 DEF LogInOrder
<1>8. PollInTime
  <2>1. Base <= Len(log)  BY <1>3, <1>5
  <2> QED BY <1>1, <2>1 DEF PollInTime
<1>9. \A n : Undeleted(n)  BY <1>3 DEF Undeleted
<1>10. collector = "device_details" => stored # None
  <2> SUFFICES ASSUME collector = "device_details" PROVE stored # None  OBVIOUS
  <2>1. PICK drift \in Drifts : collector = drift[1] /\ view = drift[2]  BY DEF Init
  <2>2. drift \in {"device_details"} \X DetailDocs \X DetailDocs
    <3>1. ~ (drift \in {"devices"} \X (DeviceDocs \cup {None}) \X (DeviceDocs \cup {None}))
      BY <2>1
    <3> QED BY <3>1, ChangesAssumption
  <2>3. view \in Docs(collector)  BY <2>1, <2>2 DEF Docs
  <2>4. view # None  BY <1>0, <2>3, DocsAreNotNone DEF TypeOK
  <2>5. FieldsExplainSnapshots  BY InitInv DEF Inv
  <2> QED BY <2>4, <2>5 DEF FieldsExplainSnapshots
<1>11. RemovedForGood  BY <1>6, <1>9, <1>10 DEF RemovedForGood
<1>12. DifferencesEdited  BY <1>4, <1>6 DEF DifferencesEdited
<1>13. \A l, t : EditsSince(l, t)  BY <1>3 DEF EditsSince
<1>14. EditsInReach
  <2>1. guard.mark <= lastSuccess
    <3>1. guard.mark = -1 /\ lastSuccess = 0  BY <1>1, <1>2 DEF Never
    <3> QED BY <3>1
  <2> QED BY <1>2, <1>13, <2>1 DEF EditsInReach
<1> QED BY <1>7, <1>8, <1>11, <1>12, <1>14 DEF CreditInv

LEMMA StepCredit ==
  ASSUME NullIsNoList
  PROVE  TypeOK /\ CreditInv /\ [Next]_vars => CreditInv'
<1> SUFFICES ASSUME TypeOK, CreditInv, [Next]_vars PROVE CreditInv'  OBVIOUS
<1>1. ASSUME Tick PROVE CreditInv'  BY <1>1, TickCredit
<1>2. ASSUME NEW tags \in SUBSET {"tag"}, Join(tags) PROVE CreditInv'  BY <1>2, JoinCredit
<1>3. ASSUME Remove PROVE CreditInv'  BY <1>3, RemoveCredit
<1>4. ASSUME Approve PROVE CreditInv'  BY <1>4, ApproveCredit
<1>5. ASSUME SetAttribute PROVE CreditInv'  BY <1>5, SetAttributeCredit
<1>6. ASSUME Upgrade PROVE CreditInv'  BY <1>6, UpgradeCredit
<1>7. ASSUME NEW failed \in BOOLEAN, Retag(failed) PROVE CreditInv'  BY <1>7, RetagCredit
<1>8. EditedIds \subseteq Ids  BY ChangesAssumption
<1>9. ASSUME NEW id \in EditedIds, UpdateShare(id) PROVE CreditInv'
  BY <1>8, <1>9, UpdateShareCredit
<1>10. ASSUME NEW id \in EditedIds, Unshare(id) PROVE CreditInv'
  BY <1>8, <1>10, UnshareCredit
<1>11. ASSUME NEW id \in EditedIds, NEW exit \in BOOLEAN, Share(id, exit) PROVE CreditInv'
  BY <1>8, <1>11, ShareCredit
<1>12. ASSUME BeginPoll PROVE CreditInv'  BY <1>12, BeginPollCredit
<1>13. ASSUME FailPoll PROVE CreditInv'  BY <1>13, FailPollCredit
<1>14. ASSUME EndRead PROVE CreditInv'  BY <1>14, EndReadCredit
<1>15. ASSUME NEW held \in BOOLEAN, Apply(held) PROVE CreditInv'  BY <1>15, ApplyCredit
<1>16. CASE UNCHANGED vars
  <2>1. /\ collector' = collector /\ now' = now /\ live' = live /\ log' = log
        /\ stored' = stored /\ lastSuccess' = lastSuccess /\ guard' = guard /\ poll' = poll
    BY <1>16 DEF vars
  <2>2. RemovedForGood' /\ DifferencesEdited' /\ EditsInReach'  BY <2>1, SameWorld
  <2>3. LogInOrder'  BY <2>1 DEF CreditInv, LogInOrder
  <2>4. Base' = Base  BY <2>1 DEF Base
  <2>5. PollInTime'  BY <2>1, <2>4 DEF CreditInv, PollInTime
  <2> QED BY <2>2, <2>3, <2>5 DEF CreditInv
<1>17. CASE Next
  BY <1>1, <1>2, <1>3, <1>4, <1>5, <1>6, <1>7, <1>9, <1>10, <1>11, <1>12, <1>13,
     <1>14, <1>15, <1>17 DEF Next
<1> QED BY <1>16, <1>17

----------------------------------------------------------------------------
(* Who is credited: the paths that are shown                               *)

\* Two documents differ at finitely many paths.
LEMMA DiffIsFinite ==
  ASSUME NEW old \in DetailDocs, NEW new \in DetailDocs
  PROVE  IsFiniteSet(Diff(old, new))
<1> DEFINE S == Ids \X ({""} \cup Subfields)
           f == [x \in S |-> <<"deviceInvites", x[1], x[2]>>]
           T == {<<"deviceInvites", x[1], x[2]>> : x \in S}
           pA == <<"postureAttributes", 0, "">>
           pD == <<"deviceInvites", 0, "">>
           D == Diff(old, new)
<1>1. IsFiniteSet(S)
  <2>1. IsFiniteSet({""} \cup Subfields)
    <3> DEFINE A == {""} \cup {"accepted"}
    <3> DEFINE B == A \cup {"allowExitNode"}
    <3>1. IsFiniteSet({""})  BY FS_Singleton
    <3>2. IsFiniteSet(A)  BY <3>1, FS_AddElement
    <3>3. IsFiniteSet(B)
      <4> HIDE DEF A
      <4> QED BY <3>2, FS_AddElement
    <3>4. IsFiniteSet(B \cup {"lastEmailSentAt"})
      <4> HIDE DEF B
      <4> QED BY <3>3, FS_AddElement
    <3>5. {""} \cup Subfields = B \cup {"lastEmailSentAt"}  BY DEF Subfields
    <3> QED BY <3>4, <3>5
  <2>2. IsFiniteSet(Ids)  BY ChangesAssumption
  <2> QED BY <2>1, <2>2, FS_Product
<1>2. IsFiniteSet(T)
  <2>1. f \in [S -> T]  OBVIOUS
  <2>2. \A t \in T : \E x \in S : f[x] = t  OBVIOUS
  <2> HIDE DEF f, S, T
  <2>3. f \in Surjection(S, T)  BY <2>1, <2>2, Fun_IsSurj
  <2> QED BY <1>1, <2>3, FS_Surjection
<1>3. IsFiniteSet((T \cup {pA}) \cup {pD})
  <2> HIDE DEF T, pA, pD
  <2>1. IsFiniteSet(T \cup {pA})  BY <1>2, FS_AddElement
  <2> DEFINE U == T \cup {pA}
  <2> HIDE DEF U
  <2>2. IsFiniteSet(U \cup {pD})  BY <2>1, FS_AddElement DEF U
  <2> QED BY <2>2 DEF U
<1>4. \A p \in D : p \in (T \cup {pA}) \cup {pD}
  <2>1. CASE ArrayIdentity(old.deviceInvites, new.deviceInvites)
    <3>1. \A p \in D : \/ p = pA
                       \/ \E id \in Ids : \/ p = <<"deviceInvites", id, "">>
                                          \/ \E s \in Subfields : p = <<"deviceInvites", id, s>>
      BY <2>1, DetailPaths DEF ElementwisePaths
    <3>2. \A id \in Ids, s \in {""} \cup Subfields : <<"deviceInvites", id, s>> \in T
      <4> TAKE id \in Ids, s \in {""} \cup Subfields
      <4> DEFINE x == <<id, s>>
      <4>1. x \in S /\ x[1] = id /\ x[2] = s  OBVIOUS
      <4>2. \A y \in S : <<"deviceInvites", y[1], y[2]>> \in T  OBVIOUS
      <4> HIDE DEF x, S, T
      <4>3. <<"deviceInvites", x[1], x[2]>> \in T  BY <4>1, <4>2
      <4> QED BY <4>1, <4>3
    <3> HIDE DEF D, T
    <3> SUFFICES ASSUME NEW p \in D PROVE p \in T \cup {pA}  OBVIOUS
    <3>3. CASE p = pA  BY <3>3
    <3>4. CASE \E id \in Ids, s \in {""} \cup Subfields : p = <<"deviceInvites", id, s>>
      BY <3>2, <3>4
    <3> QED BY <3>1, <3>3, <3>4
  <2>2. CASE ~ ArrayIdentity(old.deviceInvites, new.deviceInvites)
    <3>1. \A p \in D : p \in {pA, pD}  BY <2>2, DetailPaths
    <3> QED BY <3>1
  <2> QED BY <2>1, <2>2
<1>5. D \in SUBSET ((T \cup {pA}) \cup {pD})
  <2> HIDE DEF D, T
  <2> QED BY <1>4
<1> QED
  <2> HIDE DEF D, T
  <2>1. IsFiniteSet(D)  BY <1>3, <1>5, FS_Subset
  <2> QED BY <2>1 DEF D

\* Every path of a difference of details, and the one that comes last.
LEMMA PathIs ==
  ASSUME NEW old \in DetailDocs, NEW new \in DetailDocs, NEW p \in Diff(old, new)
  PROVE  /\ p[1] = "postureAttributes" \/ p[1] = "deviceInvites"
         /\ p[1] = "postureAttributes" => p = <<"postureAttributes", 0, "">>
         /\ p[2] = 0 => p = <<"postureAttributes", 0, "">> \/ p = <<"deviceInvites", 0, "">>
         /\ p[2] # 0 =>
              /\ ArrayIdentity(old.deviceInvites, new.deviceInvites)
              /\ p[2] \in Ids
              /\ p = <<"deviceInvites", p[2], "">>
                 \/ \E s \in Subfields : p = <<"deviceInvites", p[2], s>>
<1>1. \A id \in Ids : id # 0  BY ChangesAssumption
<1>2. CASE ~ ArrayIdentity(old.deviceInvites, new.deviceInvites)
  <2>1. p = <<"postureAttributes", 0, "">> \/ p = <<"deviceInvites", 0, "">>
    BY <1>2, DetailPaths
  <2>2. CASE p = <<"postureAttributes", 0, "">>  BY <2>2
  <2>3. CASE p = <<"deviceInvites", 0, "">>  BY <2>3
  <2> QED BY <2>1, <2>2, <2>3
<1>3. CASE ArrayIdentity(old.deviceInvites, new.deviceInvites)
  <2>1. \/ p = <<"postureAttributes", 0, "">>
        \/ \E id \in Ids : \/ p = <<"deviceInvites", id, "">>
                           \/ \E s \in Subfields : p = <<"deviceInvites", id, s>>
    <3>1. \A q \in Diff(old, new) :
            \/ q = <<"postureAttributes", 0, "">>
            \/ \E id \in Ids : \/ q = <<"deviceInvites", id, "">>
                               \/ \E s \in Subfields : q = <<"deviceInvites", id, s>>
      BY <1>3, DetailPaths DEF ElementwisePaths
    <3> QED BY <3>1
  <2>2. CASE p = <<"postureAttributes", 0, "">>  BY <2>2
  <2>3. ASSUME NEW id \in Ids, NEW s \in {""} \cup Subfields, p = <<"deviceInvites", id, s>>
        PROVE  /\ p[1] = "deviceInvites" /\ p[2] # 0 /\ p[2] \in Ids
               /\ p = <<"deviceInvites", p[2], "">>
                 \/ \E t \in Subfields : p = <<"deviceInvites", p[2], t>>
    <3>1. p[1] = "deviceInvites" /\ p[2] = id  BY <2>3
    <3> QED BY <1>1, <2>3, <3>1
  <2>4. CASE \E id \in Ids : \/ p = <<"deviceInvites", id, "">>
                             \/ \E s \in Subfields : p = <<"deviceInvites", id, s>>
    <3>1. /\ p[1] = "deviceInvites" /\ p[2] # 0 /\ p[2] \in Ids
          /\ p = <<"deviceInvites", p[2], "">>
             \/ \E t \in Subfields : p = <<"deviceInvites", p[2], t>>
      BY <2>3, <2>4
    <3> QED BY <1>3, <3>1
  <2> QED BY <2>1, <2>2, <2>4
<1> QED BY <1>2, <1>3

LEMMA RankedLast == Rank["deviceInvites"] < Rank["postureAttributes"]
<1> DEFINE R(n) == CHOOSE i \in DOMAIN Alphabet : Alphabet[i] = n
<1>1. DOMAIN Alphabet = 1..9  BY DEF Alphabet
<1>2. /\ Alphabet[1] = "" /\ Alphabet[2] = "accepted" /\ Alphabet[3] = "allowExitNode"
      /\ Alphabet[4] = "authorized" /\ Alphabet[5] = "clientVersion"
      /\ Alphabet[6] = "deviceInvites" /\ Alphabet[7] = "lastEmailSentAt"
      /\ Alphabet[8] = "postureAttributes" /\ Alphabet[9] = "tags"
  BY DEF Alphabet
<1>3. \A i \in 1..9 : \/ i = 1 \/ i = 2 \/ i = 3 \/ i = 4 \/ i = 5 \/ i = 6 \/ i = 7
                      \/ i = 8 \/ i = 9
  OBVIOUS
<1>4. \A i \in 1..9 : Alphabet[i] = "deviceInvites" => i = 6
  <2> TAKE i \in 1..9
  <2> QED BY <1>2, <1>3
<1>5. \A i \in 1..9 : Alphabet[i] = "postureAttributes" => i = 8
  <2> TAKE i \in 1..9
  <2> QED BY <1>2, <1>3
<1>6. 6 \in 1..9 /\ 8 \in 1..9  OBVIOUS
<1>7. R("deviceInvites") = 6  BY <1>1, <1>2, <1>4, <1>6
<1>8. R("postureAttributes") = 8  BY <1>1, <1>2, <1>5, <1>6
<1>9. Rank["deviceInvites"] = R("deviceInvites")
  <2>1. "deviceInvites" \in {Alphabet[i] : i \in DOMAIN Alphabet}  BY <1>1, <1>2, <1>6
  <2> QED BY <2>1 DEF Rank
<1>10. Rank["postureAttributes"] = R("postureAttributes")
  <2>1. "postureAttributes" \in {Alphabet[i] : i \in DOMAIN Alphabet}  BY <1>1, <1>2, <1>6
  <2> QED BY <2>1 DEF Rank
<1> HIDE DEF R
<1> QED BY <1>7, <1>8, <1>9, <1>10

LEMMA OneMoreFits == \A a, b, m \in Nat : a - 1 <= b /\ b < m => a <= m
OBVIOUS

\* The posture attributes come last, so they are shown only when all paths are.
LEMMA LastPathShown ==
  ASSUME NEW old \in DetailDocs, NEW new \in DetailDocs,
         <<"postureAttributes", 0, "">> \in Kept(Diff(old, new))
  PROVE  Kept(Diff(old, new)) = Diff(old, new)
<1> DEFINE D == Diff(old, new)
           pA == <<"postureAttributes", 0, "">>
           before == {q \in D : Precedes(q, pA)}
<1>1. IsFiniteSet(D)  BY DiffIsFinite
<1>2. \A q \in D : q # pA => q[1] = "deviceInvites"  BY PathIs
<1>3. Rank["deviceInvites"] < Rank["postureAttributes"]  BY RankedLast
<1>4. \A q \in D : q # pA => Precedes(q, pA)  BY <1>2, <1>3 DEF Precedes
<1>5. D \ {pA} \in SUBSET before  BY <1>4
<1>6. before \in SUBSET D  OBVIOUS
<1> HIDE DEF D, before
<1>7. IsFiniteSet(before)  BY <1>1, <1>6, FS_Subset
<1>8. Cardinality(D \ {pA}) <= Cardinality(before)  BY <1>5, <1>7, FS_Subset
<1>9. Cardinality(D) \in Nat /\ Cardinality(before) \in Nat  BY <1>1, <1>7, FS_CardinalityType
<1>10. CASE ~ (Cardinality(D) <= MaxFields)
  <2>1. Kept(D) = {p \in D : Cardinality({q \in D : Precedes(q, p)}) < MaxFields}
    BY <1>10 DEF Kept
  <2>2. pA \in Kept(D)  BY DEF D
  <2>3. pA \in D /\ Cardinality(before) < MaxFields  BY <2>1, <2>2 DEF before
  <2>4. Cardinality(D \ {pA}) = Cardinality(D) - 1  BY <1>1, <2>3, FS_RemoveElement
  <2>5. MaxFields \in Nat  BY ChangesAssumption
  <2>6. Cardinality(D) - 1 <= Cardinality(before)  BY <1>8, <2>4, Zenon
  <2>7. Cardinality(D) <= MaxFields  BY <1>9, <2>3, <2>5, <2>6, OneMoreFits, Zenon
  <2> QED BY <1>10, <2>7
<1>11. CASE Cardinality(D) <= MaxFields
  <2>1. Kept(D) = D  BY <1>11 DEF Kept
  <2> QED BY <2>1 DEF D
<1> QED BY <1>10, <1>11

----------------------------------------------------------------------------
(* Who is credited: the search                                             *)

\* The entries that may be credited.
Candidates(c, change, start, notAfter) ==
  {k \in DOMAIN log : log[k].at \in start..notAfter /\ Explains(c, change, log[k])}

LEMMA InBest ==
  ASSUME NEW c, NEW change, NEW start, NEW notAfter, NEW k \in Best(c, change, start, notAfter)
  PROVE  /\ k \in Candidates(c, change, start, notAfter)
         /\ \A j \in Candidates(c, change, start, notAfter) :
              \/ KindRank(change, log[k]) > KindRank(change, log[j])
              \/ /\ KindRank(change, log[k]) = KindRank(change, log[j])
                 /\ log[k].at >= log[j].at
BY DEF Best, Candidates

LEMMA KindRankIs ==
  ASSUME NEW change, NEW e
  PROVE  KindRank(change, e) \in {0, 1}
BY DEF KindRank

\* The last of the candidates of the highest rank is credited.
LEMMA BestExists ==
  ASSUME TypeOK, LogInOrder, NEW c, NEW change, NEW start, NEW notAfter,
         Candidates(c, change, start, notAfter) # {}
  PROVE  Best(c, change, start, notAfter) # {}
<1> DEFINE C == Candidates(c, change, start, notAfter)
           R(k) == KindRank(change, log[k])
<1>1. /\ C \in SUBSET DOMAIN log /\ C # {}
      /\ DOMAIN log = 1..Len(log) /\ Len(log) \in Nat
      /\ \A k \in DOMAIN log : log[k].at \in Nat
  BY Numbers DEF Candidates
<1>2. \A k : R(k) \in {0, 1}  BY KindRankIs
<1>3. \A j, k \in DOMAIN log : j < k => log[j].at < log[k].at  BY DEF LogInOrder
<1>4. Best(c, change, start, notAfter) =
        {k \in C : \A j \in C : R(k) > R(j) \/ (R(k) = R(j) /\ log[k].at >= log[j].at)}
  BY DEF Best, Candidates
<1> HIDE DEF C, R
<1>5. PICK m \in C : \A j \in C : R(m) >= R(j)
  <2>1. CASE \E m \in C : R(m) = 1  BY <1>2, <2>1
  <2>2. CASE ~ \E m \in C : R(m) = 1
    <3>1. \A m \in C : R(m) = 0  BY <1>2, <2>2
    <3>2. PICK m \in C : TRUE  BY <1>1
    <3> QED BY <3>1, <3>2
  <2> QED BY <2>1, <2>2
<1> DEFINE H == {k \in C : R(k) = R(m)}
           N == {Len(log) - k : k \in H}
<1>6. PICK k \in H : \A j \in H : j <= k
  <2>1. \A j \in H : j \in 1..Len(log)  BY <1>1
  <2>2. N \in SUBSET Nat /\ N # {}
    <3>1. m \in H  OBVIOUS
    <3>2. \A j \in 1..Len(log) : Len(log) - j \in Nat  BY <1>1
    <3> HIDE DEF H
    <3> QED BY <2>1, <3>1, <3>2
  <2>3. PICK x \in N : \A y \in N : x <= y
    <3> HIDE DEF N
    <3> QED BY <2>2, LeastOfNaturals
  <2>4. PICK k \in H : x = Len(log) - k  BY <2>3
  <2>5. ASSUME NEW j \in H PROVE j <= k
    <3>1. Len(log) - j \in N  BY <2>5
    <3>2. Len(log) - k <= Len(log) - j  BY <2>3, <2>4, <3>1
    <3>3. j \in Nat /\ k \in Nat /\ Len(log) \in Nat  BY <1>1, <2>1, <2>5
    <3> HIDE DEF H, N
    <3> QED BY <3>2, <3>3
  <2> QED BY <2>5
<1>7. k \in C /\ R(k) = R(m)  OBVIOUS
<1>8. ASSUME NEW j \in C PROVE R(k) > R(j) \/ (R(k) = R(j) /\ log[k].at >= log[j].at)
  <2>1. CASE R(j) = R(m)
    <3>1. j \in H  BY <2>1
    <3>2. j <= k  BY <1>6, <3>1
    <3>3. j \in DOMAIN log /\ k \in DOMAIN log /\ j \in Nat /\ k \in Nat  BY <1>1, <1>7
    <3>4. log[j].at \in Nat /\ log[k].at \in Nat  BY <1>1, <3>3
    <3>5. j < k \/ j = k  BY <3>2, <3>3
    <3>6. log[k].at >= log[j].at  BY <1>3, <3>3, <3>4, <3>5
    <3> QED BY <1>7, <2>1, <3>6
  <2>2. CASE R(j) # R(m)
    <3>1. R(m) >= R(j) /\ R(m) \in {0, 1} /\ R(j) \in {0, 1}  BY <1>2, <1>5
    <3>2. R(m) > R(j)  BY <2>2, <3>1
    <3> QED BY <1>7, <3>2
  <2> QED BY <2>1, <2>2
<1> QED BY <1>4, <1>7, <1>8

\* What a record holds besides its change.
LEMMA RecordFields ==
  ASSUME NEW held \in BOOLEAN, Apply(held), record' # None
  PROVE  LET best == Credits(collector, Change, WindowStart, poll.observed)
         IN  /\ record'.complete /\ best # {} => record'.credit \in best
             /\ record'.credit # 0 => record'.credit \in best
             /\ record'.start = WindowStart /\ record'.oldest = Oldest
             /\ record'.after = Base /\ record'.upto = poll.upto
             /\ record'.observed = poll.observed
             /\ record'.beyond = (/\ stored # None
                                  /\ stored.broken \/ (stored.late /\ guard.mark = Never))
<1> DEFINE best == Credits(collector, Change, WindowStart, poll.observed)
           after == IF stored = None THEN 0 ELSE stored.upto
           severity == Classify(collector, Change.kind, Change.old, Change.new)
           beyond == /\ stored # None
                     /\ stored.broken \/ (stored.late /\ guard.mark = Never)
           Recorded(complete, credit) ==
             [change |-> Change, complete |-> complete, credit |-> credit,
              severity |-> severity,
              start |-> WindowStart, oldest |-> Oldest, after |-> after,
              upto |-> poll.upto, observed |-> poll.observed, beyond |-> beyond]
<1>1. PICK complete \in BOOLEAN : \E credit \in IF complete /\ best # {} THEN best ELSE {0} :
        record' = Recorded(complete, credit)
  BY DEF Apply
<1>2. PICK credit \in IF complete /\ best # {} THEN best ELSE {0} :
        record' = Recorded(complete, credit)
  BY <1>1
<1>3. after = Base  BY DEF Base
<1> HIDE DEF best, after, severity, beyond
<1>4. /\ record'.complete = complete /\ record'.credit = credit
      /\ record'.start = WindowStart /\ record'.oldest = Oldest
      /\ record'.after = after /\ record'.upto = poll.upto
      /\ record'.observed = poll.observed /\ record'.beyond = beyond
  BY <1>2
<1> HIDE DEF Recorded
<1>5. /\ record'.complete /\ best # {} => record'.credit \in best
      /\ record'.credit # 0 => record'.credit \in best
  BY <1>2, <1>4
<1> QED BY <1>3, <1>4, <1>5 DEF best, beyond

\* The change of an answer in every case.
LEMMA ChangeForm ==
  ASSUME TypeOK, CreditInv, poll.step = "fetched", Change # None
  PROVE  \/ /\ Change.kind = "created" /\ Answered("ok") /\ stored = None
            /\ Change.paths = {} /\ Change.shown = {}
         \/ /\ Change.kind = "removed" /\ Removal /\ collector = "devices" /\ stored # None
            /\ Change.paths = {} /\ Change.shown = {}
         \/ /\ Change.kind = "changed" /\ Answered("ok") /\ stored # None
            /\ stored.doc \in Docs(collector) /\ poll.answer.doc \in Docs(collector)
            /\ Change.paths = Diff(stored.doc, poll.answer.doc)
            /\ Change.shown = Kept(Change.paths)
            /\ Change.shown \subseteq Change.paths /\ Change.shown # {}
<1>0. collector \in Collectors  BY DEF TypeOK
<1>1. CASE Answered("ok") /\ stored = None
  <2>1. Change = [kind |-> "created", old |-> None, new |-> poll.answer.doc,
                  paths |-> {}, shown |-> {}]
    BY <1>1, ChangeIs
  <2> QED BY <1>1, <2>1
<1>2. CASE Removal
  <2>1. Change = [kind |-> "removed", old |-> stored.doc, new |-> None,
                  paths |-> {}, shown |-> {}]
    BY <1>2, ChangeIs
  <2>2. poll # Idle  BY DEF Idle
  <2>3. Reads("gone")  BY <1>2, <2>2 DEF Reads, Removal, Answered
  <2>4. collector = "devices"  BY <1>0, <2>3 DEF Collectors, CreditInv, RemovedForGood
  <2> QED BY <1>2, <2>1, <2>4 DEF Removal
<1>3. CASE Answered("ok") /\ stored # None
  <2> DEFINE D == Diff(stored.doc, poll.answer.doc)
  <2>1. stored.doc # poll.answer.doc  BY <1>3, ChangeIs
  <2>2. Change = [kind |-> "changed", old |-> stored.doc, new |-> poll.answer.doc,
                  paths |-> D, shown |-> Kept(D)]
    BY <1>3, <2>1, ChangeIs
  <2>3. stored \in Snapshot(collector)  BY <1>3 DEF TypeOK
  <2>4. stored.doc \in Docs(collector)  BY <2>3 DEF Snapshot
  <2>5. poll.answer.doc \in Docs(collector)  BY <1>3, AnswerIs DEF Answered
  <2>6. D \in SUBSET Paths /\ D # {}  BY <1>0, <2>1, <2>4, <2>5, DiffIsComplete
  <2> HIDE DEF D
  <2>7. Kept(D) # {} /\ Kept(D) \subseteq D  BY <2>6, KeptNonempty
  <2>8. Change.kind = "changed" /\ Change.paths = D /\ Change.shown = Kept(D)  BY <2>2
  <2> QED BY <1>3, <2>4, <2>5, <2>7, <2>8 DEF D
<1>4. CASE ~ Answered("ok") /\ ~ Removal  BY <1>4, ChangeIs
<1> QED BY <1>1, <1>2, <1>3, <1>4

LEMMA DevicePaths ==
  ASSUME NEW old \in DeviceDocs, NEW new \in DeviceDocs, NEW p \in Diff(old, new)
  PROVE  p[1] \in {"authorized", "clientVersion", "tags"} /\ p[2] = 0
         /\ p = <<p[1], 0, "">>
<1>1. \/ p = <<"authorized", 0, "">> \/ p = <<"clientVersion", 0, "">> \/ p = <<"tags", 0, "">>
  BY DeviceDiff
<1>2. CASE p = <<"authorized", 0, "">>  BY <1>2
<1>3. CASE p = <<"clientVersion", 0, "">>  BY <1>3
<1>4. CASE p = <<"tags", 0, "">>  BY <1>4
<1> QED BY <1>1, <1>2, <1>3, <1>4

\* The ids of invites among paths.
LEMMA InviteIdsAre ==
  ASSUME NEW paths
  PROVE  /\ \A p \in paths : p[2] # 0 => p[2] \in InviteIds(paths)
         /\ \A id \in InviteIds(paths) : id # 0 /\ \E p \in paths : p[2] = id
         /\ InviteIds(paths) = {} <=> \A p \in paths : p[2] = 0
BY DEF InviteIds

\* Which entries explain a change of fields.
LEMMA ExplainsChanged ==
  ASSUME NEW c, NEW change, NEW e, change.kind = "changed", ~ e.failed
  PROVE  /\ c = "device_details" /\ e.type = "INVITE" =>
              (Explains(c, change, e) <=> ShareEntryFits(change.shown, e))
         /\ e.type = "NODE" /\ change.shown # change.paths =>
              (Explains(c, change, e) <=> InviteIds(change.shown) = {})
         /\ e.type = "NODE" /\ change.shown = change.paths =>
              (Explains(c, change, e) <=>
                 \E p \in change.shown : \/ p[1] = "authorized" /\ e.action = "APPROVE"
                                         \/ e.property \in PropertyOf(p[1]))
<1>1. EntryFitsKind(change, e) <=>
         IF change.shown # change.paths THEN InviteIds(change.shown) = {}
         ELSE \E p \in change.shown : \/ p[1] = "authorized" /\ e.action = "APPROVE"
                                      \/ e.property \in PropertyOf(p[1])
  BY DEF EntryFitsKind
<1>2. e.type = "NODE" => (Explains(c, change, e) <=> EntryFitsKind(change, e))
  BY DEF Explains, ShareTarget
<1>3. c = "device_details" /\ e.type = "INVITE" =>
        (Explains(c, change, e) <=> ShareEntryFits(change.shown, e))
  BY DEF Explains, ShareTarget
<1> QED BY <1>1, <1>2, <1>3

LEMMA PropertiesAre ==
  /\ PropertyOf("tags") = {"ACL_TAGS"} /\ PropertyOf("postureAttributes") = {"ATTRIBUTES"}
  /\ \A f : f # "tags" /\ f # "postureAttributes" => PropertyOf(f) = {}
BY DEF PropertyOf

\* An edit that brought a shown part of the change about explains it.
LEMMA TouchExplains ==
  ASSUME TypeOK, CreditInv, poll.step = "fetched", Change # None,
         NEW k \in DOMAIN log, Touches(log[k], Change, Change.shown)
  PROVE  Explains(collector, Change, log[k])
<1> DEFINE e == log[k]
           ch == Change
<1>0. collector \in {"devices", "device_details"}  BY DEF TypeOK, Collectors
<1>1. /\ e.type = "INVITE" => e.target \in {e.did, 0}
      /\ e.action = "APPROVE" \/ e.property # "" => e.type = "NODE"
  BY DEF CreditInv, LogInOrder
<1>2. ~ e.failed  BY DEF Touches
<1>3. \/ ch.kind = "created" /\ e.action = "CREATE" /\ e.type = "NODE"
      \/ ch.kind = "removed" /\ e.action = "DELETE" /\ e.type = "NODE"
      \/ e.action = "APPROVE" /\ \E p \in ch.shown : p[1] = "authorized"
      \/ e.property = "ACL_TAGS" /\ \E p \in ch.shown : p[1] = "tags"
      \/ e.property = "ATTRIBUTES" /\ \E p \in ch.shown : p[1] = "postureAttributes"
      \/ e.type = "INVITE" /\ e.did \in InviteIds(ch.shown)
  BY DEF Touches
<1>4. CASE (ch.kind = "created" \/ ch.kind = "removed") /\ ch.shown = {}
  <2>1. InviteIds({}) = {}  BY DEF InviteIds
  <2>2. \/ ch.kind = "created" /\ e.action = "CREATE" /\ e.type = "NODE"
        \/ ch.kind = "removed" /\ e.action = "DELETE" /\ e.type = "NODE"
    BY <1>3, <1>4, <2>1
  <2> QED BY <1>2, <2>2 DEF Explains, ShareTarget, EntryFitsKind
<1>5. CASE /\ ch.kind = "changed"
           /\ stored.doc \in Docs(collector) /\ poll.answer.doc \in Docs(collector)
           /\ ch.paths = Diff(stored.doc, poll.answer.doc)
           /\ ch.shown = Kept(ch.paths)
           /\ ch.shown \subseteq ch.paths
  <2> DEFINE old == stored.doc
             new == poll.answer.doc
  <2>1. CASE collector = "devices"
    <3>1. old \in DeviceDocs /\ new \in DeviceDocs  BY <1>5, <2>1 DEF Docs
    <3>2. \A p \in ch.shown : p[1] \in {"authorized", "clientVersion", "tags"} /\ p[2] = 0
      BY <1>5, <3>1, DevicePaths
    <3> HIDE DEF ch, e
    <3>3. InviteIds(ch.shown) = {}  BY <3>2, InviteIdsAre
    <3>4. \/ e.action = "APPROVE" /\ \E p \in ch.shown : p[1] = "authorized"
          \/ e.property = "ACL_TAGS" /\ \E p \in ch.shown : p[1] = "tags"
      BY <1>3, <1>5, <3>2, <3>3
    <3>5. e.type = "NODE"
      <4>1. "ACL_TAGS" # ""  OBVIOUS
      <4> QED BY <1>1, <3>4, <4>1
    <3>6. \E p \in ch.shown : \/ p[1] = "authorized" /\ e.action = "APPROVE"
                              \/ e.property \in PropertyOf(p[1])
      BY <3>4, PropertiesAre
    <3>7. Explains(collector, ch, e)  BY <1>2, <1>5, <3>3, <3>5, <3>6, ExplainsChanged
    <3> QED BY <3>7 DEF ch, e
  <2>2. CASE collector = "device_details"
    <3>1. old \in DetailDocs /\ new \in DetailDocs  BY <1>5, <2>2 DEF Docs
    <3>2. \A p \in ch.shown : /\ p[1] = "postureAttributes" \/ p[1] = "deviceInvites"
                              /\ p[1] = "postureAttributes" => p = <<"postureAttributes", 0, "">>
      BY <1>5, <3>1, PathIs
    <3>3. <<"postureAttributes", 0, "">> \in ch.shown => ch.shown = ch.paths
      BY <1>5, <3>1, LastPathShown
    <3> HIDE DEF ch, e
    <3>4. \/ e.property = "ATTRIBUTES" /\ \E p \in ch.shown : p[1] = "postureAttributes"
          \/ e.type = "INVITE" /\ e.did \in InviteIds(ch.shown)
      BY <1>3, <1>5, <3>2
    <3>5. CASE e.property = "ATTRIBUTES" /\ \E p \in ch.shown : p[1] = "postureAttributes"
      <4>1. PICK p \in ch.shown : p[1] = "postureAttributes"  BY <3>5
      <4>2. ch.shown = ch.paths  BY <3>2, <3>3, <4>1
      <4>3. e.type = "NODE"
        <5>1. "ATTRIBUTES" # ""  OBVIOUS
        <5> QED BY <1>1, <3>5, <5>1
      <4>4. e.property \in PropertyOf(p[1])  BY <3>5, <4>1, PropertiesAre
      <4>5. Explains(collector, ch, e)  BY <1>2, <1>5, <4>2, <4>3, <4>4, ExplainsChanged
      <4> QED BY <4>5 DEF ch, e
    <3>6. CASE e.type = "INVITE" /\ e.did \in InviteIds(ch.shown)
      <4>1. ShareEntryFits(ch.shown, e)  BY <1>1, <3>6 DEF ShareEntryFits
      <4>2. Explains(collector, ch, e)  BY <1>2, <1>5, <2>2, <3>6, <4>1, ExplainsChanged
      <4> QED BY <4>2 DEF ch, e
    <3> QED BY <3>4, <3>5, <3>6
  <2> QED BY <1>0, <2>1, <2>2
<1> QED BY <1>4, <1>5, ChangeForm

LEMMA MaxOfTwo ==
  ASSUME NEW x \in Int, NEW y \in Int
  PROVE  Max({x, y}) = IF x >= y THEN x ELSE y
<1>1. CASE x >= y
  <2>1. \A m \in {x, y} : (\A z \in {x, y} : m >= z) => m = x  BY <1>1
  <2>2. \A z \in {x, y} : x >= z  BY <1>1
  <2> QED BY <1>1, <2>1, <2>2 DEF Max
<1>2. CASE ~ (x >= y)
  <2>1. \A m \in {x, y} : (\A z \in {x, y} : m >= z) => m = y  BY <1>2
  <2>2. \A z \in {x, y} : y >= z  BY <1>2
  <2> QED BY <1>2, <2>1, <2>2 DEF Max
<1> QED BY <1>1, <1>2

\* From where the search starts: the last success, or where the guard first held.
LEMMA WindowStartIs ==
  ASSUME TypeOK, CreditInv
  PROVE  /\ Oldest \in Int /\ WindowStart \in Int
         /\ ~ Removal => WindowStart = Max({Oldest, lastSuccess - Skew})
         /\ Removal /\ guard.mark = Never =>
              WindowStart = Max({Oldest, lastSuccess - Skew - Lookback})
         /\ Removal /\ guard.mark # Never =>
              WindowStart = Max({Oldest, guard.mark - Skew - Lookback})
<1>1. /\ now \in Nat /\ lastSuccess \in Nat /\ guard.mark \in Nat \cup {Never}
      /\ Skew \in Nat /\ Lookback \in Nat
  BY Numbers
<1>2. MaxWindow \in Nat /\ Never \in Int  BY ChangesAssumption DEF Never
<1>3. Oldest \in Int  BY <1>1, <1>2 DEF Oldest
<1>4. guard.mark <= lastSuccess  BY DEF CreditInv, EditsInReach
<1> DEFINE marks == {t \in {guard.mark} : Removal /\ t # Never}
           since == Min({lastSuccess} \cup marks)
           back == IF Removal THEN Lookback ELSE 0
           x == since - Skew - back
<1>5. since = IF Removal /\ guard.mark # Never THEN guard.mark ELSE lastSuccess
  <2>1. CASE Removal /\ guard.mark # Never
    <3>1. {lastSuccess} \cup marks = {guard.mark, lastSuccess}  BY <2>1
    <3>2. guard.mark \in Int /\ lastSuccess \in Int  BY <1>1, <1>2
    <3>3. Min({guard.mark, lastSuccess}) = guard.mark
      <4> HIDE DEF marks
      <4> DEFINE m == guard.mark
      <4>1. Min({m, lastSuccess}) = IF m <= lastSuccess THEN m ELSE lastSuccess
        <5>1. m \in Int  BY <3>2
        <5> HIDE DEF m
        <5> QED BY <3>2, <5>1, MinOfTwo
      <4> QED BY <1>4, <4>1
    <3> HIDE DEF marks
    <3> QED BY <2>1, <3>1, <3>3
  <2>2. CASE ~ (Removal /\ guard.mark # Never)
    <3>1. {lastSuccess} \cup marks = {lastSuccess, lastSuccess}  BY <2>2
    <3>2. Min({lastSuccess, lastSuccess}) = lastSuccess
      <4> HIDE DEF marks
      <4>1. lastSuccess \in Int  BY <1>1
      <4> QED BY <4>1, MinOfTwo
    <3> HIDE DEF marks
    <3> QED BY <2>2, <3>1, <3>2
  <2> QED BY <2>1, <2>2
<1>6. WindowStart = Max({Oldest, x})  BY DEF WindowStart
<1> HIDE DEF since
<1>7. since \in Int  BY <1>1, <1>2, <1>5
<1>8. x \in Int  BY <1>1, <1>7
<1>9. WindowStart \in Int
  <2> HIDE DEF x
  <2>1. Max({Oldest, x}) = IF Oldest >= x THEN Oldest ELSE x  BY <1>3, <1>8, MaxOfTwo
  <2> QED BY <1>3, <1>6, <1>8, <2>1
<1>10. ~ Removal => x = lastSuccess - Skew  BY <1>1, <1>5
<1>11. Removal /\ guard.mark = Never => x = lastSuccess - Skew - Lookback  BY <1>5
<1>12. Removal /\ guard.mark # Never => x = guard.mark - Skew - Lookback  BY <1>5
<1> HIDE DEF x
<1> QED BY <1>3, <1>6, <1>9, <1>10, <1>11, <1>12

\* An edit that the stored snapshot does not reflect is not before the search.
LEMMA WindowReaches ==
  ASSUME TypeOK, CreditInv, poll.step = "fetched", Change # None,
         ~ (stored # None /\ (stored.broken \/ (stored.late /\ guard.mark = Never))),
         NEW k \in DOMAIN log, Base < k, Oldest <= log[k].at
  PROVE  WindowStart <= log[k].at
<1> DEFINE at == log[k].at
<1>1. /\ now \in Nat /\ lastSuccess \in Nat /\ guard.mark \in Nat \cup {Never}
      /\ Skew \in Nat /\ Lookback \in Nat /\ at \in Nat
  BY Numbers
<1>2. Never \in Int  BY DEF Never
<1>3. Oldest \in Int  BY WindowStartIs
<1>4. ASSUME NEW x \in Int, WindowStart = Max({Oldest, x}), x <= at PROVE WindowStart <= at
  <2>1. WindowStart = IF Oldest >= x THEN Oldest ELSE x  BY <1>3, <1>4, MaxOfTwo
  <2>2. Oldest <= at  OBVIOUS
  <2> QED BY <1>4, <2>1, <2>2
<1>5. CASE Answered("ok")
  <2>1. ~ Removal  BY <1>5 DEF Answered, Removal
  <2>2. WindowStart = Max({Oldest, lastSuccess - Skew})  BY <2>1, WindowStartIs
  <2>3. poll # Idle  BY DEF Idle
  <2>4. Reads("ok") /\ Unbroken  BY <1>5, <2>3 DEF Reads, Answered, Unbroken
  <2>5. EditsSince(Base, lastSuccess - Skew)  BY <2>4 DEF CreditInv, EditsInReach
  <2>6. lastSuccess - Skew <= at  BY <2>5 DEF EditsSince
  <2>7. lastSuccess - Skew \in Int  BY <1>1
  <2> QED BY <1>4, <2>2, <2>6, <2>7
<1>6. CASE Removal
  <2>1. stored # None /\ stored.missing = 1 /\ ~ stored.broken  BY <1>6 DEF Removal
  <2>2. Base = stored.upto  BY <2>1 DEF Base
  <2>3. CASE guard.mark = Never
    <3>1. WindowStart = Max({Oldest, lastSuccess - Skew - Lookback})  BY <1>6, <2>3, WindowStartIs
    <3>2. EditsSince(stored.upto, lastSuccess - Lookback - Skew)
      BY <2>1, <2>3 DEF CreditInv, EditsInReach
    <3>3. lastSuccess - Lookback - Skew <= at  BY <2>2, <3>2 DEF EditsSince
    <3>4. /\ lastSuccess - Skew - Lookback \in Int /\ lastSuccess - Skew - Lookback <= at
      BY <1>1, <3>3
    <3> QED BY <1>4, <3>1, <3>4
  <2>4. CASE guard.mark # Never
    <3>1. WindowStart = Max({Oldest, guard.mark - Skew - Lookback})  BY <1>6, <2>4, WindowStartIs
    <3>2. EditsSince(stored.upto, guard.mark - Skew)  BY <2>1, <2>4 DEF CreditInv, EditsInReach
    <3>3. guard.mark - Skew <= at  BY <2>2, <3>2 DEF EditsSince
    <3>4. guard.mark - Skew - Lookback \in Int /\ guard.mark - Skew - Lookback <= at
      BY <1>1, <1>2, <3>3
    <3> QED BY <1>4, <3>1, <3>4
  <2> QED BY <2>3, <2>4
<1> QED BY <1>5, <1>6, ChangeForm

\* An entry of before the fetch that explains the change leaves one to credit,
\* and then only those of before the fetch are credited.
LEMMA CandidateIsCredited ==
  ASSUME TypeOK, CreditInv, poll.step = "fetched", NEW k \in DOMAIN log,
         k <= poll.upto, WindowStart <= log[k].at, Explains(collector, Change, log[k])
  PROVE  LET before == Best(collector, Change, WindowStart, poll.observed)
         IN  /\ k \in Candidates(collector, Change, WindowStart, poll.observed)
             /\ before # {}
             /\ Credits(collector, Change, WindowStart, poll.observed) = before
<1>1. poll # Idle  BY DEF Idle
<1>2. /\ log[k].at <= poll.began /\ poll.began <= poll.observed
      /\ log[k].at \in Nat /\ poll.began \in Nat /\ poll.observed \in Nat
  BY <1>1, ApplyTimes
<1>3. WindowStart \in Int  BY WindowStartIs
<1>4. log[k].at \in WindowStart..poll.observed
  <2> DEFINE at == log[k].at
  <2>1. at \in Int /\ WindowStart <= at /\ at <= poll.observed  BY <1>2
  <2> HIDE DEF at
  <2>2. at \in WindowStart..poll.observed  BY <1>2, <1>3, <2>1
  <2> QED BY <2>2 DEF at
<1>5. k \in Candidates(collector, Change, WindowStart, poll.observed)
  BY <1>4 DEF Candidates
<1>6. LogInOrder  BY DEF CreditInv
<1>7. Best(collector, Change, WindowStart, poll.observed) # {}  BY <1>5, <1>6, BestExists
<1> QED BY <1>5, <1>7 DEF Credits

LEMMA ApplyNamed ==
  ASSUME TypeOK, CreditInv, NEW held \in BOOLEAN, Apply(held)
  PROVE  EditorsAreNamed'
<1> SUFFICES ASSUME record' # None, record'.complete, ~ record'.beyond,
                    Editors(record)' # {}
             PROVE  record'.credit # 0
  BY DEF EditorsAreNamed
<1>1. /\ poll.step = "fetched" /\ poll # Idle /\ log' = log  BY ApplyIs
<1>2. Change # None /\ record'.change = Change  BY RecordIs
<1>3. /\ record'.complete /\ Credits(collector, Change, WindowStart, poll.observed) # {} =>
           record'.credit \in Credits(collector, Change, WindowStart, poll.observed)
      /\ record'.oldest = Oldest /\ record'.after = Base /\ record'.upto = poll.upto
      /\ record'.beyond = (stored # None /\ (stored.broken \/ (stored.late /\ guard.mark = Never)))
  BY RecordFields
<1>4. PICK k \in Base + 1..poll.upto : /\ log[k].at >= Oldest
                                       /\ Touches(log[k], Change, Change.shown)
  <2>1. Editors(record)' = {k \in Base + 1..poll.upto :
                              log[k].at >= Oldest /\ Touches(log[k], Change, Change.shown)}
    BY <1>1, <1>2, <1>3 DEF Editors, Touches
  <2> QED BY <2>1
<1>5. k \in DOMAIN log /\ Base < k /\ k <= poll.upto
  <2>1. /\ Base \in Nat /\ poll.upto \in Nat /\ poll.upto <= Len(log) /\ Len(log) \in Nat
        /\ DOMAIN log = 1..Len(log)
    BY <1>1, ApplyTimes
  <2> QED BY <2>1
<1>6. WindowStart <= log[k].at
  <2>1. Oldest <= log[k].at
    <3>1. Oldest \in Int /\ log[k].at \in Nat  BY <1>5, WindowStartIs, Numbers
    <3> QED BY <1>4, <3>1
  <2>2. ~ (stored # None /\ (stored.broken \/ (stored.late /\ guard.mark = Never)))
    BY <1>3
  <2> QED BY <1>1, <1>2, <1>5, <2>1, <2>2, WindowReaches
<1>7. Explains(collector, Change, log[k])  BY <1>1, <1>2, <1>4, <1>5, TouchExplains
<1>8. record'.credit \in Best(collector, Change, WindowStart, poll.observed)
  <2>1. LET before == Best(collector, Change, WindowStart, poll.observed)
        IN  before # {} /\ Credits(collector, Change, WindowStart, poll.observed) = before
    BY <1>1, <1>5, <1>6, <1>7, CandidateIsCredited
  <2> QED BY <1>3, <2>1
<1>9. record'.credit \in DOMAIN log  BY <1>8, InBest DEF Candidates
<1>10. 0 \notin DOMAIN log
  <2>1. DOMAIN log = 1..Len(log) /\ Len(log) \in Nat  BY Numbers
  <2> QED BY <2>1
<1> QED BY <1>9, <1>10

\* A path below an invite means that the invite differs.
LEMMA InviteDiffers ==
  ASSUME NEW old \in DetailDocs, NEW new \in DetailDocs, NEW p \in Diff(old, new), p[2] # 0
  PROVE  p[2] \in Ids /\ Part(old, <<"deviceInvites", p[2]>>) # Part(new, <<"deviceInvites", p[2]>>)
<1> DEFINE a == old.deviceInvites
           b == new.deviceInvites
           id == p[2]
           PA == {e \in Listed(a) : e.id = id}
           PB == {e \in Listed(b) : e.id = id}
<1>1. /\ ArrayIdentity(a, b) /\ id \in Ids
      /\ p = <<"deviceInvites", id, "">> \/ \E s \in Subfields : p = <<"deviceInvites", id, s>>
  BY PathIs
<1>2. a \in Lists /\ b \in Lists /\ ElementwisePaths(Diff(old, new), a, b)
  BY <1>1, DetailPaths
<1>3. Part(old, <<"deviceInvites", id>>) = PA /\ Part(new, <<"deviceInvites", id>>) = PB
  BY DEF Part
<1> HIDE DEF a, b, id
<1>4. ASSUME PA = PB
      PROVE  /\ Element(a, id) = Missing <=> Element(b, id) = Missing
             /\ Element(a, id) # Missing => Element(a, id) = Element(b, id)
  <2>1. IdentifiedBy(Listed(b))  BY <1>1 DEF ArrayIdentity
  <2>2. ASSUME Element(a, id) # Missing
        PROVE  Element(b, id) = Element(a, id)
    <3>1. Element(a, id) \in Listed(a) /\ Element(a, id).id = id  BY <1>2, <2>2, ElementIs
    <3>2. Element(a, id) \in Listed(b)  BY <1>4, <3>1
    <3>3. Element(b, Element(a, id).id) = Element(a, id)  BY <1>2, <2>1, <3>2, ElementIs
    <3> QED BY <3>1, <3>3
  <2>3. ASSUME Element(b, id) # Missing
        PROVE  Element(a, id) # Missing
    <3>1. Element(b, id) \in Listed(b) /\ Element(b, id).id = id  BY <1>2, <2>3, ElementIs
    <3>2. Element(b, id) \in Listed(a)  BY <1>4, <3>1
    <3>3. IdentifiedBy(Listed(a))  BY <1>1 DEF ArrayIdentity
    <3>4. Element(a, Element(b, id).id) = Element(b, id)  BY <1>2, <3>2, <3>3, ElementIs
    <3> QED BY <2>3, <3>1, <3>4
  <2> QED BY <2>2, <2>3
<1>5. PA # PB
  <2> SUFFICES ASSUME PA = PB PROVE FALSE  OBVIOUS
  <2>1. CASE p = <<"deviceInvites", id, "">>
    <3>1. <<"deviceInvites", id, "">> \in Diff(old, new)  BY <2>1
    <3>2. ~ (Element(a, id) = Missing <=> Element(b, id) = Missing)
      BY <1>1, <1>2, <3>1 DEF ElementwisePaths
    <3> HIDE DEF PA, PB
    <3> QED BY <1>4, <3>2
  <2>2. ASSUME NEW s \in Subfields, p = <<"deviceInvites", id, s>> PROVE FALSE
    <3>1. <<"deviceInvites", id, s>> \in Diff(old, new)  BY <2>2
    <3>2. /\ Element(a, id) # Missing /\ Element(b, id) # Missing
          /\ Element(a, id)[s] # Element(b, id)[s]
      BY <1>1, <1>2, <3>1 DEF ElementwisePaths
    <3> HIDE DEF PA, PB
    <3> QED BY <1>4, <3>2
  <2> QED BY <1>1, <2>1, <2>2
<1> HIDE DEF PA, PB
<1>6. id \in Ids /\ Part(old, <<"deviceInvites", id>>) # Part(new, <<"deviceInvites", id>>)
  BY <1>1, <1>3, <1>5
<1> QED BY <1>6 DEF id

\* When an edit of before the stored snapshot would explain a change of fields, so
\* does one of after it: what it edited is among the paths, and so was edited again.
LEMMA LaterEditExplains ==
  ASSUME TypeOK, CreditInv, poll.step = "fetched", Change # None, Change.kind = "changed",
         stored.upto > 0, NEW c \in DOMAIN log, Explains(collector, Change, log[c])
  PROVE  \E k \in DOMAIN log : /\ stored.upto < k /\ k <= poll.upto
                               /\ Explains(collector, Change, log[k])
<1> DEFINE ch == Change
           old == stored.doc
           new == poll.answer.doc
           D == Diff(old, new)
           pA == <<"postureAttributes", 0, "">>
           pD == <<"deviceInvites", 0, "">>
<1>0. collector \in {"devices", "device_details"}  BY DEF TypeOK, Collectors
<1>1. /\ Answered("ok") /\ stored # None
      /\ old \in Docs(collector) /\ new \in Docs(collector)
      /\ ch.paths = D /\ ch.shown = Kept(D) /\ ch.shown \subseteq D /\ ch.shown # {}
  BY ChangeForm
<1>2. Edited(old, new, stored.upto, poll.upto)
  <2>1. poll # Idle  BY DEF Idle
  <2>2. Reads("ok")  BY <1>1, <2>1 DEF Reads, Answered
  <2> QED BY <1>1, <2>2 DEF CreditInv, DifferencesEdited
<1>3. ~ log[c].failed /\ log[c].type \in {"NODE", "INVITE"}
      /\ (collector = "devices" => log[c].type = "NODE")
  <2>1. log[c] \in Entries  BY Numbers
  <2> QED BY <2>1 DEF Explains, Entries
<1>4. ASSUME NEW x \in Parts, Part(old, x) # Part(new, x),
             \A k \in DOMAIN log : Edits(log[k], x) => Explains(collector, ch, log[k])
      PROVE  \E k \in DOMAIN log : /\ stored.upto < k /\ k <= poll.upto
                                   /\ Explains(collector, ch, log[k])
  <2>1. \E k \in DOMAIN log : stored.upto < k /\ k <= poll.upto /\ Edits(log[k], x)
    BY <1>2, <1>4 DEF Edited
  <2> QED BY <1>4, <2>1
<1>5. \A k \in DOMAIN log : log[k].action = "APPROVE" \/ log[k].property # "" => log[k].type = "NODE"
  BY DEF CreditInv, LogInOrder
<1>6. \A k \in DOMAIN log : log[k].type = "INVITE" => log[k].target \in {log[k].did, 0}
  BY DEF CreditInv, LogInOrder
<1>7. CASE collector = "devices"
  <2>1. old \in DeviceDocs /\ new \in DeviceDocs  BY <1>1, <1>7 DEF Docs
  <2>2. \A p \in D : p[1] \in {"authorized", "clientVersion", "tags"} /\ p[2] = 0
                     /\ p = <<p[1], 0, "">>
    BY <2>1, DevicePaths
  <2>3. /\ \A p \in D : p[1] = "authorized" => old.authorized # new.authorized
        /\ \A p \in D : p[1] = "tags" => old.tags # new.tags
    <3> SUFFICES ASSUME NEW p \in D
                 PROVE  /\ p[1] = "authorized" => old.authorized # new.authorized
                        /\ p[1] = "tags" => old.tags # new.tags
      OBVIOUS
    <3>1. \/ p = <<"authorized", 0, "">> /\ old.authorized # new.authorized
          \/ p = <<"clientVersion", 0, "">>
          \/ p = <<"tags", 0, "">> /\ old.tags # new.tags
      BY <2>1, DeviceDiff
    <3> HIDE DEF D
    <3>2. CASE p = <<"authorized", 0, "">> /\ old.authorized # new.authorized  BY <3>2
    <3>3. CASE p = <<"clientVersion", 0, "">>  BY <3>3
    <3>4. CASE p = <<"tags", 0, "">> /\ old.tags # new.tags  BY <3>4
    <3> QED BY <3>1, <3>2, <3>3, <3>4
  <2> HIDE DEF ch, D, old, new
  <2>4. InviteIds(ch.shown) = {}  BY <1>1, <2>2, InviteIdsAre
  <2>5. CASE old.authorized # new.authorized
             /\ (ch.shown # ch.paths \/ \E p \in ch.shown : p[1] = "authorized")
    <3> DEFINE x == <<"authorized", 0>>
    <3>1. x \in Parts /\ Part(old, x) = old.authorized /\ Part(new, x) = new.authorized
          /\ x[1] = "authorized"
      BY <1>7 DEF Parts, Part
    <3>2. ASSUME NEW k \in DOMAIN log, Edits(log[k], x) PROVE Explains(collector, ch, log[k])
      <4> DEFINE e == log[k]
      <4>1. ~ e.failed /\ e.action = "APPROVE"  BY <3>1, <3>2 DEF Edits
      <4>2. e.type = "NODE"  BY <1>5, <4>1
      <4>3. ch.shown = ch.paths =>
              \E p \in ch.shown : \/ p[1] = "authorized" /\ e.action = "APPROVE"
                                  \/ e.property \in PropertyOf(p[1])
        BY <2>5, <4>1
      <4>4. ch.kind = "changed"  BY DEF ch
      <4> HIDE DEF e
      <4>5. Explains(collector, ch, e)  BY <2>4, <4>1, <4>2, <4>3, <4>4, ExplainsChanged
      <4> QED BY <4>5 DEF e
    <3> HIDE DEF x
    <3>3. Part(old, x) # Part(new, x)  BY <2>5, <3>1
    <3> QED BY <1>4, <3>1, <3>2, <3>3 DEF ch
  <2>6. CASE old.tags # new.tags
             /\ (ch.shown # ch.paths \/ \E p \in ch.shown : p[1] = "tags")
    <3> DEFINE x == <<"tags", 0>>
    <3>1. x \in Parts /\ Part(old, x) = old.tags /\ Part(new, x) = new.tags /\ x[1] = "tags"
      BY <1>7 DEF Parts, Part
    <3>2. ASSUME NEW k \in DOMAIN log, Edits(log[k], x) PROVE Explains(collector, ch, log[k])
      <4> DEFINE e == log[k]
      <4>1. ~ e.failed /\ e.property = "ACL_TAGS"  BY <3>1, <3>2 DEF Edits
      <4>2. e.type = "NODE"
        <5>1. "ACL_TAGS" # ""  OBVIOUS
        <5> QED BY <1>5, <4>1, <5>1
      <4>3. ch.shown = ch.paths =>
              \E p \in ch.shown : \/ p[1] = "authorized" /\ e.action = "APPROVE"
                                  \/ e.property \in PropertyOf(p[1])
        BY <2>6, <4>1, PropertiesAre
      <4>4. ch.kind = "changed"  BY DEF ch
      <4> HIDE DEF e
      <4>5. Explains(collector, ch, e)  BY <2>4, <4>1, <4>2, <4>3, <4>4, ExplainsChanged
      <4> QED BY <4>5 DEF e
    <3> HIDE DEF x
    <3>3. Part(old, x) # Part(new, x)  BY <2>6, <3>1
    <3> QED BY <1>4, <3>1, <3>2, <3>3 DEF ch
  <2>7. CASE ch.shown # ch.paths
    <3>1. old.authorized # new.authorized \/ old.tags # new.tags
      <4> SUFFICES ASSUME old.authorized = new.authorized, old.tags = new.tags PROVE FALSE
        OBVIOUS
      <4>1. \A p \in D : p = <<"clientVersion", 0, "">>  BY <2>2, <2>3
      <4> QED BY <1>1, <2>7, <4>1
    <3> QED BY <2>5, <2>6, <2>7, <3>1
  <2>8. CASE ch.shown = ch.paths
    <3>1. ch.kind = "changed" /\ Explains(collector, ch, log[c])  BY DEF ch
    <3>2. \E p \in ch.shown : \/ p[1] = "authorized" /\ log[c].action = "APPROVE"
                              \/ log[c].property \in PropertyOf(p[1])
      BY <1>3, <1>7, <2>8, <3>1, ExplainsChanged
    <3>3. PICK p \in ch.shown : p[1] = "authorized" \/ p[1] = "tags"
      BY <1>1, <2>2, <3>2, PropertiesAre
    <3> QED BY <1>1, <2>3, <2>5, <2>6, <3>3
  <2> QED BY <2>7, <2>8
<1>8. CASE collector = "device_details"
  <2>1. old \in DetailDocs /\ new \in DetailDocs  BY <1>1, <1>8 DEF Docs
  <2>2. \A p \in D : /\ p[1] = "postureAttributes" \/ p[1] = "deviceInvites"
                     /\ p[1] = "postureAttributes" => p = pA
                     /\ p[2] = 0 => p = pA \/ p = pD
    BY <2>1, PathIs
  <2>3. pA \in D <=> old.postureAttributes # new.postureAttributes  BY <2>1, DetailPaths
  <2>4. pA \in Kept(D) => Kept(D) = D  BY <2>1, LastPathShown
  <2>5. pD \in D => \A p \in D : p \in {pA, pD}
    <3>1. ArrayIdentity(old.deviceInvites, new.deviceInvites) => pD \notin D
      BY <2>1, DetailPaths
    <3>2. ~ ArrayIdentity(old.deviceInvites, new.deviceInvites) => \A p \in D : p \in {pA, pD}
      BY <2>1, DetailPaths
    <3> QED BY <3>1, <3>2
  <2>6. \A p \in D : p[2] # 0 =>
           /\ p[2] \in Ids
           /\ Part(old, <<"deviceInvites", p[2]>>) # Part(new, <<"deviceInvites", p[2]>>)
    BY <2>1, InviteDiffers
  <2>7. pA[1] = "postureAttributes" /\ pA[2] = 0  OBVIOUS
  <2>8. ch.kind = "changed" /\ Explains(collector, ch, log[c])  OBVIOUS
  <2> HIDE DEF ch, D, old, new, pA, pD
  <2>9. CASE InviteIds(ch.shown) # {}
    <3>1. PICK p \in ch.shown : p[2] # 0  BY <2>9, InviteIdsAre
    <3> DEFINE id == p[2]
               x == <<"deviceInvites", id>>
    <3>2. id \in Ids /\ Part(old, x) # Part(new, x) /\ id \in InviteIds(ch.shown)
      BY <1>1, <2>6, <3>1, InviteIdsAre
    <3>3. x \in Parts /\ x[1] = "deviceInvites" /\ x[2] = id
      <4> HIDE DEF id
      <4>1. x \in {<<"deviceInvites", i>> : i \in Ids}  BY <3>2
      <4> QED BY <1>8, <4>1 DEF Parts
    <3> HIDE DEF id, x
    <3>4. ASSUME NEW k \in DOMAIN log, Edits(log[k], x) PROVE Explains(collector, ch, log[k])
      <4> DEFINE e == log[k]
      <4>1. ~ e.failed /\ e.type = "INVITE" /\ e.did = id  BY <3>3, <3>4 DEF Edits
      <4>2. e.target \in {e.did, 0}  BY <1>6, <4>1
      <4> HIDE DEF e
      <4>3. ShareEntryFits(ch.shown, e)  BY <2>9, <3>2, <4>1, <4>2 DEF ShareEntryFits
      <4>4. Explains(collector, ch, e)  BY <1>8, <2>8, <4>1, <4>3, ExplainsChanged
      <4> QED BY <4>4 DEF e
    <3> QED BY <1>4, <3>2, <3>3, <3>4 DEF ch
  <2>10. CASE pA \in D /\ InviteIds(ch.shown) = {}
              /\ (ch.shown # ch.paths \/ pA \in ch.shown)
    <3> DEFINE x == <<"postureAttributes", 0>>
    <3>1. x \in Parts /\ Part(old, x) = old.postureAttributes
          /\ Part(new, x) = new.postureAttributes /\ x[1] = "postureAttributes"
      BY <1>8 DEF Parts, Part
    <3>2. ASSUME NEW k \in DOMAIN log, Edits(log[k], x) PROVE Explains(collector, ch, log[k])
      <4> DEFINE e == log[k]
      <4>1. ~ e.failed /\ e.property = "ATTRIBUTES"  BY <3>1, <3>2 DEF Edits
      <4>2. e.type = "NODE"
        <5>1. "ATTRIBUTES" # ""  OBVIOUS
        <5> QED BY <1>5, <4>1, <5>1
      <4>3. ch.shown = ch.paths =>
              \E p \in ch.shown : \/ p[1] = "authorized" /\ e.action = "APPROVE"
                                  \/ e.property \in PropertyOf(p[1])
        BY <2>7, <2>10, <4>1, PropertiesAre
      <4> HIDE DEF e
      <4>4. Explains(collector, ch, e)  BY <2>8, <2>10, <4>1, <4>2, <4>3, ExplainsChanged
      <4> QED BY <4>4 DEF e
    <3> HIDE DEF x
    <3>3. Part(old, x) # Part(new, x)  BY <2>3, <2>10, <3>1
    <3> QED BY <1>4, <3>1, <3>2, <3>3 DEF ch
  <2>11. CASE InviteIds(ch.shown) = {}
    <3>1. \A p \in ch.shown : p = pA \/ p = pD  BY <1>1, <2>2, <2>11, InviteIdsAre
    <3>2. log[c].type = "NODE"
      <4>1. log[c].type = "INVITE" => ShareEntryFits(ch.shown, log[c])
        BY <1>3, <1>8, <2>8, ExplainsChanged
      <4> QED BY <1>3, <2>11, <4>1 DEF ShareEntryFits
    <3>3. CASE ch.shown # ch.paths
      <4>1. pA \notin ch.shown  BY <1>1, <2>4, <3>3
      <4>2. pD \in ch.shown  BY <1>1, <3>1, <4>1
      <4>3. \A p \in D : p \in {pA, pD}  BY <1>1, <2>5, <4>2
      <4>4. pA \in D
        <5>1. PICK p \in D : p \notin ch.shown  BY <1>1, <3>3
        <5> QED BY <4>2, <4>3, <5>1
      <4> QED BY <2>10, <2>11, <3>3, <4>4
    <3>4. CASE ch.shown = ch.paths
      <4>1. \E p \in ch.shown : \/ p[1] = "authorized" /\ log[c].action = "APPROVE"
                                \/ log[c].property \in PropertyOf(p[1])
        BY <1>3, <2>8, <3>2, <3>4, ExplainsChanged
      <4>2. \A p \in ch.shown : p[1] = "postureAttributes" \/ p[1] = "deviceInvites"
        BY <1>1, <2>2
      <4>3. PICK p \in ch.shown : p[1] = "postureAttributes"  BY <4>1, <4>2, PropertiesAre
      <4>4. p = pA /\ pA \in D  BY <1>1, <2>2, <4>3
      <4> QED BY <2>10, <2>11, <4>4
    <3> QED BY <3>3, <3>4
  <2> QED BY <2>9, <2>11
<1> QED BY <1>0, <1>7, <1>8

\* What an entry that explains the change has to do with it.
LEMMA ExplainerTouches ==
  ASSUME TypeOK, CreditInv, poll.step = "fetched", Change # None,
         NEW c \in DOMAIN log, Explains(collector, Change, log[c])
  PROVE  /\ ~ log[c].failed
         /\ \/ Touches(log[c], Change, Change.paths)
            \/ NamesDeviceOnly(log[c], Change)
            \/ StandsInForCreation(log[c], Change)
            \/ FitsCutOffList(log[c], Change)
<1> DEFINE e == log[c]
           ch == Change
<1>1. /\ ~ e.failed
      /\ IF collector = "device_details" /\ e.type = "INVITE"
         THEN ShareEntryFits(ch.shown, e)
         ELSE e.type = "NODE" /\ EntryFitsKind(ch, e)
  BY DEF Explains, ShareTarget
<1>2. e.type = "INVITE" => e.target \in {e.did, 0}  BY DEF CreditInv, LogInOrder
<1>3. ch.shown \subseteq ch.paths  BY ChangeForm
<1>4. ch.kind \in {"created", "removed", "changed"}  BY ChangeForm
<1>5. Touches(e, ch, ch.paths) <=>
        \/ ch.kind = "created" /\ e.action = "CREATE" /\ e.type = "NODE"
        \/ ch.kind = "removed" /\ e.action = "DELETE" /\ e.type = "NODE"
        \/ e.action = "APPROVE" /\ \E p \in ch.paths : p[1] = "authorized"
        \/ e.property = "ACL_TAGS" /\ \E p \in ch.paths : p[1] = "tags"
        \/ e.property = "ATTRIBUTES" /\ \E p \in ch.paths : p[1] = "postureAttributes"
        \/ e.type = "INVITE" /\ e.did \in InviteIds(ch.paths)
  <2> HIDE DEF ch, e
  <2>1. \A fields, f : fields = {f} =>
          ((\E p \in ch.paths : p[1] \in fields) <=> \E p \in ch.paths : p[1] = f)
    OBVIOUS
  <2> QED BY <1>1, <2>1 DEF Touches
<1> SUFFICES \/ Touches(e, ch, ch.paths)
             \/ NamesDeviceOnly(e, ch)
             \/ StandsInForCreation(e, ch)
             \/ FitsCutOffList(e, ch)
  BY <1>1
<1> HIDE DEF ch, e
<1>6. CASE collector = "device_details" /\ e.type = "INVITE"
  <2>1. InviteIds(ch.shown) # {} /\ e.target \in InviteIds(ch.shown) \cup {0}
    BY <1>1, <1>6 DEF ShareEntryFits
  <2>2. InviteIds(ch.shown) \subseteq InviteIds(ch.paths)  BY <1>3 DEF InviteIds
  <2> QED BY <1>2, <1>5, <1>6, <2>1, <2>2 DEF NamesDeviceOnly
<1>7. CASE e.type = "NODE" /\ EntryFitsKind(ch, e)
  <2>1. CASE ch.kind = "created"
    <3>1. e.action \in {"CREATE", "APPROVE"}  BY <1>7, <2>1 DEF EntryFitsKind
    <3> QED BY <1>5, <1>7, <2>1, <3>1 DEF StandsInForCreation
  <2>2. CASE ch.kind = "removed"  BY <1>5, <1>7, <2>2 DEF EntryFitsKind
  <2>3. CASE ch.kind = "changed"
    <3>1. IF ch.shown # ch.paths THEN InviteIds(ch.shown) = {}
          ELSE \E p \in ch.shown : \/ p[1] = "authorized" /\ e.action = "APPROVE"
                                   \/ e.property \in PropertyOf(p[1])
      BY <1>7, <2>3 DEF EntryFitsKind
    <3>2. ASSUME NEW p \in ch.paths, \/ p[1] = "authorized" /\ e.action = "APPROVE"
                                     \/ e.property \in PropertyOf(p[1])
          PROVE  Touches(e, ch, ch.paths)
      <4>1. \/ p[1] = "authorized" /\ e.action = "APPROVE"
            \/ p[1] = "tags" /\ e.property = "ACL_TAGS"
            \/ p[1] = "postureAttributes" /\ e.property = "ATTRIBUTES"
        BY <3>2, PropertiesAre
      <4> QED BY <1>5, <4>1
    <3> QED BY <1>3, <1>7, <2>3, <3>1, <3>2 DEF FitsCutOffList
  <2> QED BY <1>4, <2>1, <2>2, <2>3
<1> QED BY <1>1, <1>6, <1>7

\* Nobody is credited whose edit the stored snapshot already reflects.
LEMMA CreditAfterBase ==
  ASSUME TypeOK, CreditInv, poll.step = "fetched", Change # None,
         NEW c \in Credits(collector, Change, WindowStart, poll.observed)
  PROVE  c > Base
<1> DEFINE before == Best(collector, Change, WindowStart, poll.observed)
           after == Best(collector, Change, WindowStart, poll.observed + Skew)
<1>0. poll # Idle  BY DEF Idle
<1>1. /\ Base \in Nat /\ poll.upto \in Nat /\ Base <= poll.upto /\ poll.observed \in Nat
      /\ \A k \in DOMAIN log : /\ k \in Nat /\ k > 0 /\ log[k].at \in Nat
                               /\ k <= poll.upto => log[k].at <= poll.began
      /\ Skew \in Nat
  BY <1>0, ApplyTimes, Numbers
<1>2. c \in before \/ c \in after  BY DEF Credits
<1>3. WindowStart \in Int  BY WindowStartIs
<1>4. c \in DOMAIN log /\ WindowStart <= log[c].at /\ Explains(collector, Change, log[c])
  <2>1. c \in DOMAIN log /\ Explains(collector, Change, log[c])
        /\ (log[c].at \in WindowStart..poll.observed
            \/ log[c].at \in WindowStart..(poll.observed + Skew))
    BY <1>2, InBest DEF Candidates
  <2>2. poll.observed + Skew \in Int /\ poll.observed \in Int  BY <1>1
  <2>3. \A s, t \in Int : \A a \in s..t : s <= a  OBVIOUS
  <2> QED BY <1>3, <2>1, <2>2, <2>3
<1> SUFFICES ASSUME c <= Base PROVE FALSE  BY <1>1, <1>4
<1>5. stored # None /\ Base = stored.upto /\ stored.upto > 0
  <2>1. c > 0 /\ c \in Nat  BY <1>1, <1>4
  <2>2. Base > 0  BY <1>1, <2>1
  <2>3. stored # None  BY <2>2 DEF Base
  <2> QED BY <2>2, <2>3 DEF Base
<1>6. Change.kind # "removed"
  <2> SUFFICES ASSUME Change.kind = "removed" PROVE FALSE  OBVIOUS
  <2>1. collector = "devices"  BY ChangeForm
  <2>2. log[c].type = "NODE" /\ log[c].action = "DELETE"
    BY <1>4, <2>1 DEF Explains, EntryFitsKind
  <2>3. Undeleted(stored.upto)  BY <1>5 DEF CreditInv, RemovedForGood
  <2> QED BY <1>4, <1>5, <2>2, <2>3 DEF Undeleted
<1>7. Change.kind = "changed"  BY <1>5, <1>6, ChangeForm
<1>8. PICK k \in DOMAIN log : /\ stored.upto < k /\ k <= poll.upto
                              /\ Explains(collector, Change, log[k])
  BY <1>4, <1>5, <1>7, LaterEditExplains
<1>9. log[c].at < log[k].at
  <2>1. c < k  BY <1>1, <1>4, <1>5, <1>8
  <2> QED BY <1>4, <1>8, <2>1 DEF CreditInv, LogInOrder
<1>10. WindowStart <= log[k].at  BY <1>1, <1>3, <1>4, <1>8, <1>9
<1>11. /\ k \in Candidates(collector, Change, WindowStart, poll.observed)
       /\ c \in before
  <2>1. LET b == Best(collector, Change, WindowStart, poll.observed)
        IN  /\ k \in Candidates(collector, Change, WindowStart, poll.observed)
            /\ Credits(collector, Change, WindowStart, poll.observed) = b
    BY <1>8, <1>10, CandidateIsCredited
  <2> QED BY <2>1
<1>12. \/ KindRank(Change, log[c]) > KindRank(Change, log[k])
       \/ KindRank(Change, log[c]) = KindRank(Change, log[k]) /\ log[c].at >= log[k].at
  BY <1>11, InBest
<1>13. KindRank(Change, log[c]) = 0 /\ KindRank(Change, log[k]) = 0  BY <1>7 DEF KindRank
<1> QED BY <1>1, <1>4, <1>8, <1>9, <1>12, <1>13

LEMMA ApplySound ==
  ASSUME TypeOK, CreditInv, NEW held \in BOOLEAN, Apply(held)
  PROVE  OnlyEditorsCredited'
<1> DEFINE best == Credits(collector, Change, WindowStart, poll.observed)
           before == Best(collector, Change, WindowStart, poll.observed)
           c == record'.credit
           e == log[c]
           First == {k \in Base + 1..poll.upto : /\ log[k].at >= Oldest
                                                 /\ Touches(log[k], Change, Change.shown)
                                                 /\ log[k].at >= WindowStart}
<1> SUFFICES ASSUME record' # None, c # 0 PROVE OnlyEditorsCredited'
  BY DEF OnlyEditorsCredited
<1>1. poll.step = "fetched" /\ poll # Idle /\ log' = log  BY ApplyIs
<1>2. Change # None /\ record'.change = Change  BY RecordIs
<1>3. /\ c \in best
      /\ record'.start = WindowStart /\ record'.oldest = Oldest /\ record'.after = Base
      /\ record'.upto = poll.upto /\ record'.observed = poll.observed
  BY RecordFields
<1>4. c \in DOMAIN log /\ Explains(collector, Change, e)
  BY <1>3, InBest DEF Credits, Candidates
<1>5. /\ Base \in Nat /\ poll.upto \in Nat /\ poll.upto <= Len(log) /\ Len(log) \in Nat
      /\ DOMAIN log = 1..Len(log) /\ poll.observed \in Nat
      /\ \A k \in DOMAIN log : log[k].at \in Nat
  BY <1>1, ApplyTimes
<1>6. WindowStart \in Int  BY WindowStartIs
<1>7. ASSUME NEW k \in First
      PROVE  /\ k \in Candidates(collector, Change, WindowStart, poll.observed)
             /\ k \in DOMAIN log /\ Touches(log[k], Change, Change.shown)
             /\ before # {} /\ best = before
  <2>1. k \in DOMAIN log /\ k <= poll.upto  BY <1>5
  <2>2. WindowStart <= log[k].at  BY <1>5, <1>6, <2>1
  <2>3. Touches(log[k], Change, Change.shown)  OBVIOUS
  <2>4. Explains(collector, Change, log[k])  BY <1>1, <1>2, <2>1, <2>3, TouchExplains
  <2>5. LET b == Best(collector, Change, WindowStart, poll.observed)
        IN  /\ k \in Candidates(collector, Change, WindowStart, poll.observed)
            /\ b # {}
            /\ Credits(collector, Change, WindowStart, poll.observed) = b
    BY <1>1, <2>1, <2>2, <2>4, CandidateIsCredited
  <2> QED BY <2>1, <2>3, <2>5
<1>8. c > Base  BY <1>1, <1>2, <1>3, CreditAfterBase
<1>9. e.at > poll.observed => First = {}
  <2> SUFFICES ASSUME e.at > poll.observed, First # {} PROVE FALSE  OBVIOUS
  <2>1. c \in before  BY <1>3, <1>7
  <2>2. e.at \in WindowStart..poll.observed  BY <2>1, InBest DEF Candidates
  <2>3. \A a \in WindowStart..poll.observed : ~ (a > poll.observed)  BY <1>5, <1>6
  <2> HIDE DEF e
  <2> QED BY <2>2, <2>3
<1>10. StandsInForCreation(e, Change) => First = {}
  <2> SUFFICES ASSUME Change.kind = "created", e.action # "CREATE", First # {} PROVE FALSE
    BY DEF StandsInForCreation
  <2>1. PICK k \in First : TRUE  OBVIOUS
  <2>2. /\ k \in Candidates(collector, Change, WindowStart, poll.observed)
        /\ Touches(log[k], Change, Change.shown) /\ c \in before
    BY <1>3, <1>7, <2>1
  <2>3. Change.shown = {}  BY <1>1, <1>2, ChangeForm
  <2>4. log[k].action = "CREATE"
    <3>1. InviteIds({}) = {}  BY DEF InviteIds
    <3> QED BY <2>2, <2>3, <3>1 DEF Touches
  <2>5. KindRank(Change, log[k]) = 1 /\ KindRank(Change, log[c]) = 0  BY <2>4 DEF KindRank
  <2>6. \/ KindRank(Change, log[c]) > KindRank(Change, log[k])
        \/ KindRank(Change, log[c]) = KindRank(Change, log[k])
    BY <2>2, InBest
  <2> QED BY <2>5, <2>6
<1>11. /\ ~ e.failed
       /\ \/ Touches(e, Change, Change.paths)
          \/ NamesDeviceOnly(e, Change)
          \/ StandsInForCreation(e, Change)
          \/ FitsCutOffList(e, Change)
  BY <1>1, <1>2, <1>4, ExplainerTouches
<1> HIDE DEF best, before
<1>12. {k \in Editors(record)' : log'[k].at >= record'.start} = First
  BY <1>1, <1>2, <1>3 DEF Editors, Touches
<1>13. log'[c] = e /\ record'.credit = c  BY <1>1
<1> HIDE DEF First
<1> QED
  BY <1>1, <1>2, <1>3, <1>8, <1>9, <1>10, <1>11, <1>12, <1>13
  DEF OnlyEditorsCredited, Touches, NamesDeviceOnly, StandsInForCreation, FitsCutOffList

\* Only a poll that is applied records a change.
LEMMA NoRecordOtherwise ==
  ASSUME Next
  PROVE  record' = None \/ \E held \in BOOLEAN : Apply(held)
BY DEF Next, Tick, Join, Remove, Approve, SetAttribute, Upgrade, Retag, UpdateShare, Unshare,
       Share, EditShares, Logged, BeginPoll, FailPoll, EndRead, NoRecord

Credited == /\ Inv /\ CreditInv
            /\ EditorsAreNamed /\ OnlyEditorsCredited

LEMMA InitCredited == Init => Credited
<1>1. Init => record = None  BY DEF Init
<1> QED BY <1>1, InitInv, InitCredit DEF Credited, EditorsAreNamed, OnlyEditorsCredited

LEMMA StepCredited ==
  ASSUME NullIsNoList
  PROVE  Credited /\ [Next]_vars => Credited'
<1> SUFFICES ASSUME Credited, [Next]_vars PROVE Credited'  OBVIOUS
<1>1. TypeOK /\ Inv /\ CreditInv  BY DEF Credited, Inv
<1>2. Inv' /\ CreditInv'  BY <1>1, StepInv, StepCredit
<1>3. CASE record' = None
  BY <1>2, <1>3 DEF Credited, EditorsAreNamed, OnlyEditorsCredited
<1>4. ASSUME NEW held \in BOOLEAN, Apply(held) PROVE Credited'
  BY <1>1, <1>2, <1>4, ApplyNamed, ApplySound DEF Credited
<1>5. CASE UNCHANGED vars
  <2>1. record' = record /\ log' = log  BY <1>5 DEF vars
  <2>2. EditorsAreNamed' /\ OnlyEditorsCredited'
    BY <2>1 DEF Credited, EditorsAreNamed, OnlyEditorsCredited, Editors, Touches
  <2> QED BY <1>2, <2>2 DEF Credited
<1> QED BY <1>3, <1>4, <1>5, NoRecordOtherwise

\* A change that somebody made is credited to somebody: whatever the polls before it
\* failed at, however long they took, and however often the removal guard held.
THEOREM EditorsNamed ==
  ASSUME NullIsNoList PROVE Spec => []EditorsAreNamed
<1>1. Credited => EditorsAreNamed  BY DEF Credited
<1>2. Credited /\ [Next]_vars => Credited'  BY StepCredited
<1> QED BY <1>1, <1>2, InitCredited, PTL DEF Spec

\* Whoever is credited made a successful edit of the device after the snapshot that
\* the change is compared with: of a part that changed, or one of the three that fit
\* without (a share entry that names only the device, an approval for a creation out
\* of reach, any node entry for a list of fields that was cut off), and before the
\* fetch if an edit of what changed is in reach there.
THEOREM CreditSound ==
  ASSUME NullIsNoList PROVE Spec => []OnlyEditorsCredited
<1>1. Credited => OnlyEditorsCredited  BY DEF Credited
<1>2. Credited /\ [Next]_vars => Credited'  BY StepCredited
<1> QED BY <1>1, <1>2, InitCredited, PTL DEF Spec

=============================================================================
