------------------------------ MODULE RulesProofs ------------------------------
(***************************************************************************)
(* The rules hold of every input: archives, chats, settings and lists of   *)
(* any length.  The lemmas about orders and pages are those of             *)
(* EventStoreProofs.                                                       *)
(***************************************************************************)
EXTENDS Rules, EventStoreProofs

(* What Grow can make: items of the topic.                                  *)
Typed ==
    /\ topic \in Topics
    /\ writing \in IF topic = "chat" THEN {"DMY", "MDY", "ISO"} ELSE {"ISO"}
    /\ items \in Seq(ItemsOf[topic])

RulesInv == Typed

(* Every input is one that Grow can make.                                   *)
LEMMA RulesInvariance == RulesSpec => []RulesInv
<1>1. NoItems => RulesInv
  BY DEF NoItems, RulesInv, Typed
<1>2. RulesInv /\ [Grow]_inputs => RulesInv'
  <2> SUFFICES ASSUME RulesInv, [Grow]_inputs PROVE RulesInv'
    OBVIOUS
  <2>1. CASE UNCHANGED inputs
    BY <2>1 DEF RulesInv, Typed, inputs
  <2>2. ASSUME NEW x \in ItemsOf[topic], items' = Append(items, x), UNCHANGED <<topic, writing>>
        PROVE  RulesInv'
    <3>1. items \in Seq(ItemsOf[topic])
      BY DEF RulesInv, Typed
    <3>2. items' \in Seq(ItemsOf[topic])
      BY <2>2, <3>1, AppendProperties
    <3> QED
      BY <2>2, <3>2 DEF RulesInv, Typed
  <2> QED
    BY <2>1, <2>2 DEF Grow
<1> QED
  BY <1>1, <1>2, PTL DEF RulesSpec

-----------------------------------------------------------------------------
(* Greatest and least *)

(* Of finitely many integers one is the greatest (Max).                     *)
LEMMA MaxHolds ==
    ASSUME NEW S \in SUBSET Int, IsFiniteSet(S), S # {}
    PROVE  Max(S) \in S /\ \A y \in S : Max(S) >= y
<1> DEFINE above(x) == {y \in S : y > x}
           T == {Cardinality(above(x)) : x \in S}
<1>1. \A x \in S : IsFiniteSet(above(x)) /\ Cardinality(above(x)) \in Nat
  BY FS_Subset, FS_CardinalityType
<1>2. T \subseteq Nat /\ T # {}
  BY <1>1
<1>3. PICK n \in T : \A m \in T : <<m, n>> \notin OpToRel(<, Nat)
  BY <1>2, WFMin, NatLessThanWellFounded
<1>4. \A m \in T : ~(m < n)
  BY <1>2, <1>3 DEF OpToRel
<1>5. PICK x \in S : n = Cardinality(above(x))
  BY <1>3
<1>6. ASSUME NEW y \in S, y > x PROVE FALSE
  <2>1. above(y) \in SUBSET above(x) /\ y \in above(x) /\ y \notin above(y)
    <3>1. x \in Int /\ y \in Int /\ \A z \in S : z \in Int
      OBVIOUS
    <3>2. y \in above(x) /\ y \notin above(y)
      BY <1>6, <3>1
    <3>3. ASSUME NEW z \in above(y) PROVE z \in above(x)
      <4>1. z \in S /\ z > y
        OBVIOUS
      <4> QED
        BY <1>6, <3>1, <4>1
    <3> QED
      BY <3>2, <3>3
  <2>2. Cardinality(above(y)) <= Cardinality(above(x)) /\ Cardinality(above(x)) # Cardinality(above(y))
    BY <1>1, <2>1, FS_Subset
  <2> HIDE DEF above
  <2>3. Cardinality(above(y)) \in T
    BY <1>6
  <2> QED
    BY <1>1, <1>4, <1>5, <1>6, <2>2, <2>3
<1>7. \A y \in S : x >= y
  BY <1>6
<1> QED
  BY <1>7 DEF Max

(* Of finitely many integers one is the least (Min).                        *)
LEMMA MinHolds ==
    ASSUME NEW S \in SUBSET Int, IsFiniteSet(S), S # {}
    PROVE  Min(S) \in S /\ \A y \in S : Min(S) <= y
<1> DEFINE f == [x \in S |-> -x]
           N == {-x : x \in S}
<1>1. f \in Surjection(S, N)
  BY DEF Surjection
<1>2. N \in SUBSET Int /\ IsFiniteSet(N) /\ N # {}
  BY <1>1, FS_Surjection
<1>3. Max(N) \in N /\ \A y \in N : Max(N) >= y
  BY <1>2, MaxHolds
<1>4. PICK x \in S : Max(N) = -x
  BY <1>3
<1>5. ASSUME NEW y \in S PROVE x <= y
  <2>1. -x >= -y /\ x \in Int /\ y \in Int
    BY <1>3, <1>4
  <2> QED
    BY <2>1
<1> QED
  BY <1>5 DEF Min

(* The greatest and the least of what has one element.                      *)
LEMMA ExtremesOfOne ==
    ASSUME NEW x \in Int
    PROVE  Max({x}) = x /\ Min({x}) = x
BY DEF Max, Min

-----------------------------------------------------------------------------
(* Archives *)

(* A text is the largest and, among those, the first by name; it is the     *)
(* only one if names differ (LargestText).                                  *)
LEMMA OneLargestText ==
    ASSUME NEW texts, IsFiniteSet(texts), texts # {}, NEW ms,
           \A i \in texts : ms[i].size \in Int /\ ms[i].name \in Int
    PROVE  LET best == {i \in texts : \A j \in texts :
                          \/ ms[i].size > ms[j].size
                          \/ ms[i].size = ms[j].size /\ ms[i].name <= ms[j].name}
           IN \E a \in best :
                (\A i, j \in texts : i # j => ms[i].name # ms[j].name) => best = {a}
<1> DEFINE sizes == {ms[i].size : i \in texts}
           f == [i \in texts |-> ms[i].size]
           largest == {i \in texts : ms[i].size = Max(sizes)}
           names == {ms[i].name : i \in largest}
           g == [i \in largest |-> ms[i].name]
<1>1. sizes \in SUBSET Int /\ sizes # {} /\ f \in Surjection(texts, sizes)
  BY DEF Surjection
<1>2. Max(sizes) \in sizes /\ \A y \in sizes : Max(sizes) >= y
  BY <1>1, FS_Surjection, MaxHolds
<1>3. IsFiniteSet(largest) /\ largest # {}
  BY <1>2, FS_Subset
<1>4. names \in SUBSET Int /\ names # {} /\ g \in Surjection(largest, names)
  BY <1>3 DEF Surjection
<1>5. Min(names) \in names /\ \A y \in names : Min(names) <= y
  BY <1>3, <1>4, FS_Surjection, MinHolds
<1>6. PICK a \in largest : ms[a].name = Min(names)
  BY <1>5
<1>7. /\ a \in texts /\ ms[a].size = Max(sizes)
      /\ \A j \in texts : ms[a].size >= ms[j].size
      /\ \A j \in texts : ms[j].size = ms[a].size => ms[a].name <= ms[j].name
  BY <1>2, <1>5, <1>6
<1> HIDE DEF sizes, f, largest, names, g
<1>8. ASSUME NEW j \in texts
      PROVE  \/ ms[a].size > ms[j].size
             \/ ms[a].size = ms[j].size /\ ms[a].name <= ms[j].name
  <2>1. ms[a].size \in Int /\ ms[j].size \in Int /\ ms[a].size >= ms[j].size
    BY <1>7
  <2>2. ms[a].size > ms[j].size \/ ms[a].size = ms[j].size
    BY <2>1
  <2> QED
    BY <1>7, <2>2
<1>9. ASSUME \A i, j \in texts : i # j => ms[i].name # ms[j].name,
             NEW i \in texts, i # a,
             \/ ms[i].size > ms[a].size
             \/ ms[i].size = ms[a].size /\ ms[i].name <= ms[a].name
      PROVE  FALSE
  <2>1. ms[a].size >= ms[i].size
    BY <1>7
  <2>2. ms[i].size = ms[a].size /\ ms[i].name <= ms[a].name /\ ms[a].name <= ms[i].name
    BY <1>7, <1>9, <2>1
  <2> QED
    BY <1>7, <1>9, <2>2
<1> QED
  BY <1>7, <1>8, <1>9

(* A read of the same member gives the same, wherever the member is.        *)
LEMMA ReadAnywhere ==
    ASSUME NEW ms, NEW others, NEW i \in Nat \ {0}, NEW j \in Nat \ {0}, others[j] = ms[i]
    PROVE  LET r == Read(ms, i)
               s == Read(others, j)
           IN <<s.error, IF s.member = 0 THEN None ELSE others[s.member]>>
                = <<r.error, IF r.member = 0 THEN None ELSE ms[r.member]>>
<1>1. CASE ms[i].holds = "broken"
  BY <1>1 DEF Read, Failed
<1>2. CASE ms[i].holds = "huge"
  BY <1>2 DEF Read, Failed
<1>3. CASE ms[i].holds \notin {"broken", "huge"}
  BY <1>3 DEF Read, Found
<1> QED
  BY <1>1, <1>2, <1>3

(* What is picked does not depend on the order of the members.              *)
LEMMA AnyOrder == RulesInv => OneChatWhateverTheOrder
<1> SUFFICES ASSUME RulesInv, topic = "archive", OneCandidate,
                    NEW p \in Bijection(DOMAIN items, DOMAIN items)
             PROVE  Picked([i \in DOMAIN items |-> items[p[i]]]) = Picked(items)
  BY DEF OneChatWhateverTheOrder, About
<1> DEFINE D == DOMAIN items
           others == [i \in D |-> items[p[i]]]
           members == {i \in D : ~items[i].ignored}
           chats == {i \in members : items[i].shape = "chat"}
           texts == {i \in members : items[i].shape = "txt"}
           rest == {i \in members : Nameless(items[i]) /\ items[i].holds # "binary"}
           From(S) == {i \in D : p[i] \in S}
<1>1. /\ D = 1..Len(items) /\ Len(items) \in Nat /\ IsFiniteSet(D)
      /\ \A i \in D : i \in Nat \ {0} /\ items[i].name \in Int /\ items[i].size \in Int
  <2>1. items \in Seq(ItemsOf["archive"])
    BY DEF RulesInv, Typed
  <2>2. \A i \in 1..Len(items) : items[i] \in ItemsOf["archive"] /\ items[i].name \in Int /\ items[i].size \in Int
    BY <2>1, ItemsAssumption
  <2>3. IsFiniteSet(1..Len(items))
    BY <2>1, FS_Interval
  <2> QED
    BY <2>1, <2>2, <2>3
<1>2. /\ \A i \in D : p[i] \in D
      /\ \A i, j \in D : p[i] = p[j] => i = j
      /\ \A j \in D : \E i \in D : p[i] = j
  BY DEF Bijection, Injection, Surjection, IsInjective
<1>3. DOMAIN others = D /\ \A i \in D : others[i] = items[p[i]]
  OBVIOUS
<1>4. chats \in SUBSET D /\ texts \in SUBSET D /\ rest \in SUBSET D
  OBVIOUS
<1>5. /\ From(chats) = {i \in {j \in D : ~others[j].ignored} : others[i].shape = "chat"}
      /\ From(texts) = {i \in {j \in D : ~others[j].ignored} : others[i].shape = "txt"}
      /\ From(rest) = {i \in {j \in D : ~others[j].ignored} : Nameless(others[i]) /\ others[i].holds # "binary"}
  BY <1>2, <1>3
<1>6. ExtractZip(items) =
        CASE chats # {} -> Read(items, Min(chats))
          [] chats = {} /\ texts # {} -> Read(items, LargestText(items, texts))
          [] chats = {} /\ texts = {} /\ rest # {} -> Read(items, Min(rest))
          [] OTHER -> Failed("no_chat")
  BY DEF ExtractZip
<1>7. ExtractZip(others) =
        CASE From(chats) # {} -> Read(others, Min(From(chats)))
          [] From(chats) = {} /\ From(texts) # {} -> Read(others, LargestText(others, From(texts)))
          [] From(chats) = {} /\ From(texts) = {} /\ From(rest) # {} -> Read(others, Min(From(rest)))
          [] OTHER -> Failed("no_chat")
  BY <1>3, <1>5 DEF ExtractZip
<1>8. ASSUME NEW S \in SUBSET D
      PROVE  (From(S) = {} <=> S = {}) /\ From(S) \in SUBSET D
  <2>1. \A i \in From(S) : i \in D /\ p[i] \in S
    OBVIOUS
  <2>2. \A j \in S : \E i \in D : p[i] = j /\ i \in From(S)
    BY <1>2, SMTT(30)
  <2> HIDE DEF From, D
  <2> QED
    BY <2>1, <2>2
<1>9. ASSUME NEW S \in SUBSET D, NEW c, S = {c}
      PROVE  \E q \in D : From(S) = {q} /\ p[q] = c
  <2>1. PICK q \in D : p[q] = c
    BY <1>2, <1>9
  <2>2. \A i : i \in From(S) <=> i = q
    BY <1>2, <1>9, <2>1
  <2> HIDE DEF From, D
  <2> QED
    BY <2>1, <2>2
<1>10. ASSUME NEW i \in D, NEW q \in D, p[q] = i,
              ExtractZip(items) = Read(items, i), ExtractZip(others) = Read(others, q)
       PROVE  Picked(others) = Picked(items)
  <2>1. others[q] = items[i] /\ i \in Nat \ {0} /\ q \in Nat \ {0}
    BY <1>1, <1>3, <1>10
  <2> HIDE DEF others, D
  <2> QED
    BY <1>10, <2>1, ReadAnywhere DEF Picked
<1>11. chats = Shape("chat") /\ texts = Shape("txt") /\ rest \subseteq Shape("plain")
  BY DEF Shape, Nameless
<1> HIDE DEF D, others, members, chats, texts, rest, From
<1>12. CASE chats # {}
  <2>1. PICK c : chats = {c}
    <3>1. IsFiniteSet(chats) /\ Cardinality(chats) <= 1
      BY <1>1, <1>4, <1>11, FS_Subset DEF OneCandidate
    <3> QED
      BY <1>12, <3>1, FS_EmptySet, FS_CardinalityType, FS_Singleton
  <2>2. PICK q \in D : From(chats) = {q} /\ p[q] = c
    BY <1>4, <1>9, <2>1
  <2>3. c \in D /\ c \in Int /\ q \in Int
    BY <1>1, <1>4, <2>1
  <2>4. Min(chats) = c /\ Min(From(chats)) = q
    BY <2>1, <2>2, <2>3, ExtremesOfOne
  <2>5. ExtractZip(items) = Read(items, c) /\ ExtractZip(others) = Read(others, q)
    BY <1>6, <1>7, <1>12, <2>2, <2>4
  <2> QED
    BY <1>10, <2>2, <2>3, <2>5 DEF others, D
<1>13. CASE chats = {} /\ texts # {}
  <2> DEFINE best(ms, T) ==
               {i \in T : \A j \in T :
                  \/ ms[i].size > ms[j].size
                  \/ ms[i].size = ms[j].size /\ ms[i].name <= ms[j].name}
  <2>1. \E a \in texts : best(items, texts) = {a}
    <3>1. \A i, j \in texts : i # j => items[i].name # items[j].name
      BY <1>11 DEF OneCandidate
    <3>2. IsFiniteSet(texts)
      BY <1>1, <1>4, FS_Subset
    <3>3. \A i \in texts : items[i].size \in Int /\ items[i].name \in Int
      BY <1>1, <1>4
    <3>4. \E a \in best(items, texts) : best(items, texts) = {a}
      BY <1>13, <3>1, <3>2, <3>3, OneLargestText
    <3> QED
      BY <3>4
  <2>2. PICK a \in texts : best(items, texts) = {a}
    BY <2>1
  <2>3. best(others, From(texts)) = From(best(items, texts))
    BY <1>2, <1>3, <1>4 DEF From
  <2>4. PICK q \in D : From(best(items, texts)) = {q} /\ p[q] = a
    BY <1>4, <1>9, <2>2
  <2>5. a \in D /\ a \in Int /\ q \in Int
    BY <1>1, <1>4, <2>2
  <2>6. LargestText(items, texts) = Min(best(items, texts))
        /\ LargestText(others, From(texts)) = Min(best(others, From(texts)))
    BY DEF LargestText
  <2> HIDE DEF best
  <2>7. LargestText(items, texts) = a /\ LargestText(others, From(texts)) = q
    BY <2>2, <2>3, <2>4, <2>5, <2>6, ExtremesOfOne
  <2>8. From(texts) # {} /\ From(chats) = {}
    BY <1>4, <1>8, <1>13
  <2>9. ExtractZip(items) = Read(items, a) /\ ExtractZip(others) = Read(others, q)
    BY <1>6, <1>7, <1>13, <2>7, <2>8
  <2> QED
    BY <1>10, <2>4, <2>5, <2>9 DEF others, D
<1>14. CASE chats = {} /\ texts = {} /\ rest # {}
  <2>1. PICK c : rest = {c}
    <3>1. Cardinality(Shape("plain")) <= 1
      BY <1>11, <1>14 DEF OneCandidate
    <3>2. Shape("plain") \in SUBSET D
      BY DEF Shape, D
    <3>3. IsFiniteSet(Shape("plain"))
      BY <1>1, <3>2, FS_Subset
    <3>4. IsFiniteSet(rest) /\ Cardinality(rest) <= 1
      BY <1>11, <3>1, <3>3, FS_Subset, FS_CardinalityType
    <3> QED
      BY <1>14, <3>4, FS_EmptySet, FS_CardinalityType, FS_Singleton
  <2>2. PICK q \in D : From(rest) = {q} /\ p[q] = c
    BY <1>4, <1>9, <2>1
  <2>3. c \in D /\ c \in Int /\ q \in Int
    BY <1>1, <1>4, <2>1
  <2>4. Min(rest) = c /\ Min(From(rest)) = q
    BY <2>1, <2>2, <2>3, ExtremesOfOne
  <2>5. From(texts) = {} /\ From(chats) = {}
    BY <1>4, <1>8, <1>14
  <2>6. ExtractZip(items) = Read(items, c) /\ ExtractZip(others) = Read(others, q)
    BY <1>6, <1>7, <1>14, <2>2, <2>4, <2>5
  <2> QED
    BY <1>10, <2>2, <2>3, <2>6 DEF others, D
<1>15. CASE chats = {} /\ texts = {} /\ rest = {}
  <2>1. From(chats) = {} /\ From(texts) = {} /\ From(rest) = {}
    BY <1>4, <1>8, <1>15
  <2>2. ExtractZip(items) = Failed("no_chat") /\ ExtractZip(others) = Failed("no_chat")
    BY <1>6, <1>7, <1>15, <2>1
  <2> QED
    BY <2>2 DEF Picked, Failed, others, D
<1> QED
  BY <1>12, <1>13, <1>14, <1>15 DEF others, D

(* What is read is a text or a readable member without an extension, and    *)
(* without either there is no chat.                                         *)
LEMMA NoLeak == RulesInv => NothingElseLeaks
<1> SUFFICES ASSUME RulesInv, topic = "archive"
             PROVE  LET r == ExtractZip(items)
                        readable == {i \in DOMAIN items :
                                        /\ ~items[i].ignored
                                        /\ \/ items[i].shape \in {"chat", "txt"}
                                           \/ items[i].shape = "plain" /\ items[i].holds # "binary"}
                    IN /\ r.member # 0 => /\ r.member \in readable
                                          /\ items[r.member].holds \notin {"broken", "huge"}
                       /\ r.error = "no_chat" <=> readable = {}
  BY DEF NothingElseLeaks, About
<1> DEFINE D == DOMAIN items
           members == {i \in D : ~items[i].ignored}
           chats == {i \in members : items[i].shape = "chat"}
           texts == {i \in members : items[i].shape = "txt"}
           rest == {i \in members : Nameless(items[i]) /\ items[i].holds # "binary"}
           r == ExtractZip(items)
<1>1. /\ D \in SUBSET Int /\ IsFiniteSet(D)
      /\ \A i \in D : /\ items[i].name \in Int /\ items[i].size \in Int
                      /\ items[i].holds \in {"text", "binary", "broken", "huge"}
  <2>1. items \in Seq(ItemsOf["archive"])
    BY DEF RulesInv, Typed
  <2>2. \A i \in 1..Len(items) : items[i] \in ItemsOf["archive"]
    BY <2>1
  <2>3. IsFiniteSet(1..Len(items)) /\ DOMAIN items = 1..Len(items) /\ 1..Len(items) \in SUBSET Int
    BY <2>1, FS_Interval
  <2>4. \A x \in ItemsOf["archive"] : /\ x.name \in Int /\ x.size \in Int
                                      /\ x.holds \in {"text", "binary", "broken", "huge"}
    BY ItemsAssumption
  <2> QED
    BY <2>2, <2>3, <2>4
<1>2. /\ chats \in SUBSET Int /\ texts \in SUBSET Int /\ rest \in SUBSET Int
      /\ IsFiniteSet(chats) /\ IsFiniteSet(texts) /\ IsFiniteSet(rest)
  BY <1>1, FS_Subset
<1>3. r = CASE chats # {} -> Read(items, Min(chats))
            [] chats = {} /\ texts # {} -> Read(items, LargestText(items, texts))
            [] chats = {} /\ texts = {} /\ rest # {} -> Read(items, Min(rest))
            [] OTHER -> Failed("no_chat")
  BY DEF ExtractZip
<1>4. \A i : /\ Read(items, i).member # 0 => /\ Read(items, i).member = i
                                             /\ items[i].holds \notin {"broken", "huge"}
             /\ Read(items, i).error # "no_chat"
  BY DEF Read, Failed, Found
<1> DEFINE readable == {i \in D : /\ ~items[i].ignored
                                  /\ \/ items[i].shape \in {"chat", "txt"}
                                     \/ items[i].shape = "plain" /\ items[i].holds # "binary"}
<1>5. /\ chats \subseteq readable /\ texts \subseteq readable /\ rest \subseteq readable
      /\ chats = {} /\ texts = {} /\ rest = {} => readable = {}
  BY DEF Nameless
<1> HIDE DEF r, readable
<1>6. ASSUME NEW i \in readable, r = Read(items, i)
      PROVE  /\ r.member # 0 => r.member \in readable /\ items[r.member].holds \notin {"broken", "huge"}
             /\ r.error = "no_chat" <=> readable = {}
  BY <1>4, <1>6
<1>7. CASE chats # {}
  <2>1. Min(chats) \in readable
    <3> HIDE DEF chats
    <3> QED
      BY <1>2, <1>5, <1>7, MinHolds
  <2>2. r = Read(items, Min(chats))
    BY <1>3, <1>7
  <2> QED
    BY <1>6, <2>1, <2>2 DEF r, readable
<1>8. CASE chats = {} /\ texts # {}
  <2>1. LargestText(items, texts) \in texts
    <3> DEFINE best == {i \in texts : \A j \in texts :
                          \/ items[i].size > items[j].size
                          \/ items[i].size = items[j].size /\ items[i].name <= items[j].name}
    <3>1. \A i \in texts : items[i].size \in Int /\ items[i].name \in Int
      BY <1>1
    <3>2. best # {}
      BY <1>2, <1>8, <3>1, OneLargestText
    <3>3. best \in SUBSET Int /\ IsFiniteSet(best) /\ best \subseteq texts
      BY <1>2, FS_Subset
    <3>4. LargestText(items, texts) = Min(best)
      BY DEF LargestText
    <3> HIDE DEF best, texts
    <3> QED
      BY <3>2, <3>3, <3>4, MinHolds
  <2>2. LargestText(items, texts) \in readable
    BY <1>5, <2>1
  <2>3. r = Read(items, LargestText(items, texts))
    BY <1>3, <1>8
  <2> QED
    BY <1>6, <2>2, <2>3 DEF r, readable
<1>9. CASE chats = {} /\ texts = {} /\ rest # {}
  <2>1. Min(rest) \in readable
    <3> HIDE DEF rest
    <3> QED
      BY <1>2, <1>5, <1>9, MinHolds
  <2>2. r = Read(items, Min(rest))
    BY <1>3, <1>9
  <2> QED
    BY <1>6, <2>1, <2>2 DEF r, readable
<1>10. CASE chats = {} /\ texts = {} /\ rest = {}
  <2>1. r = Failed("no_chat") /\ readable = {}
    BY <1>3, <1>5, <1>10
  <2> QED
    BY <2>1 DEF Failed, r, readable
<1> QED
  BY <1>7, <1>8, <1>9, <1>10

-----------------------------------------------------------------------------
(* Chats *)

(* What an item of a chat is, and what its line says.                       *)
LEMMA ChatTyped ==
    ASSUME RulesInv, topic = "chat"
    PROVE  /\ DOMAIN items = 1..Len(items) /\ Len(items) \in Nat /\ IsFiniteSet(DOMAIN items)
           /\ DOMAIN Lines = DOMAIN items
           /\ writing \in {"DMY", "MDY", "ISO"}
           /\ \A i \in DOMAIN items : /\ items[i].what \in {"message", "other", "rogue"}
                                     /\ items[i].day \in DOMAIN Days
                                     /\ IsDate(Days[items[i].day])
                                     /\ Days[items[i].day] \in Int \X Int \X Int
<1>1. items \in Seq(ItemsOf["chat"]) /\ writing \in {"DMY", "MDY", "ISO"}
  BY DEF RulesInv, Typed
<1>2. DOMAIN items = 1..Len(items) /\ Len(items) \in Nat /\ IsFiniteSet(DOMAIN items)
  BY <1>1, FS_Interval
<1>3. DOMAIN Lines = DOMAIN items
  BY DEF Lines
<1>4. \A i \in DOMAIN items : items[i] \in [what : {"message", "other", "rogue"}, day : DOMAIN Days]
  BY <1>1, <1>2, ItemsAssumption
<1>5. \A x \in DOMAIN Days : IsDate(Days[x]) /\ Days[x] \in Int \X Int \X Int
  BY RulesAssumption
<1> QED
  BY <1>1, <1>2, <1>3, <1>4, <1>5

(* The number of a day is a number.                                         *)
LEMMA OrdinalIsNumber ==
    ASSUME NEW y \in Int, NEW m \in 1..12, NEW d \in Int
    PROVE  Ordinal(y, m, d) \in Int
<1>1. DaysBefore[m] \in Int
  <2>1. DaysBefore \in [1..12 -> Int]
    BY DEF DaysBefore
  <2> QED
    BY <2>1
<1>2. (y - 1) \div 4 \in Int /\ (y - 1) \div 100 \in Int /\ (y - 1) \div 400 \in Int
  OBVIOUS
<1>3. (IF m > 2 /\ Leap(y) THEN 1 ELSE 0) \in Int
  OBVIOUS
<1> HIDE DEF Leap
<1> QED
  BY <1>1, <1>2, <1>3 DEF Ordinal

(* Two digits of a year stand for the year.                                 *)
LEMMA TwoDigits ==
    ASSUME NEW y \in 1969..2068
    PROVE  NormaliseYear(y % 100) = y /\ NormaliseYear(y) = y
BY DEF NormaliseYear

(* A message read in the order in which it is written is of its day, a       *)
(* line that only the other order can read is of none (Resolve).            *)
LEMMA ReadAsWritten ==
    ASSUME RulesInv, topic = "chat", NEW order \in {"DMY", "MDY"},
           writing # "ISO" => order = writing, NEW i \in DOMAIN items
    PROVE  /\ TrueDay(i) \in Int
           /\ items[i].what = "message" => Resolve(Lines[i], order) = TrueDay(i)
           /\ items[i].what = "other" => Resolve(Lines[i], order) = NoDate
           /\ items[i].what = "rogue" /\ writing # "ISO" => Resolve(Lines[i], order) = NoDate
<1> DEFINE day == Days[items[i].day]
<1>1. /\ day[1] \in 1969..2068 /\ day[2] \in 1..12 /\ day[3] \in Int
      /\ day[3] >= 1 /\ day[3] <= MonthDays(day[1])[day[2]]
  <2>1. IsDate(day) /\ day \in Int \X Int \X Int
    BY ChatTyped
  <2>2. \A k \in 1..12 : MonthDays(day[1])[k] \in Int
    BY DEF MonthDays
  <2> HIDE DEF day
  <2>3. day[2] \in 1..12 /\ day[3] \in 1..MonthDays(day[1])[day[2]] /\ day[3] \in Int
    BY <2>1 DEF IsDate
  <2>4. MonthDays(day[1])[day[2]] \in Int
    BY <2>2, <2>3
  <2> QED
    BY <2>1, <2>3, <2>4 DEF IsDate
<1>2. TrueDay(i) = Ordinal(day[1], day[2], day[3])
  BY DEF TrueDay
<1>3. writing \in {"DMY", "MDY", "ISO"}
  BY ChatTyped
<1>4. NormaliseYear(day[1] % 100) = day[1] /\ NormaliseYear(day[1]) = day[1]
  BY <1>1, TwoDigits
<1> HIDE DEF day
<1>5. Ordinal(day[1], day[2], day[3]) \in Int
  <2>1. day[1] \in Int /\ day[2] \in 1..12 /\ day[3] \in Int
    BY <1>1
  <2> QED
    BY <2>1, OrdinalIsNumber
<1>6. ASSUME items[i].what = "message" PROVE Resolve(Lines[i], order) = TrueDay(i)
  <2>1. Lines[i] = Written(items[i].day)
    BY <1>6 DEF Lines
  <2>2. CASE writing = "DMY"
    <3>1. Lines[i] = LineDate(day[3], day[2], day[1] % 100, FALSE)
      BY <2>1, <2>2 DEF Written, day
    <3> QED
      BY <1>1, <1>2, <1>4, <2>2, <3>1 DEF Resolve, LineDate
  <2>3. CASE writing = "MDY"
    <3>1. Lines[i] = LineDate(day[2], day[3], day[1] % 100, FALSE)
      BY <2>1, <2>3 DEF Written, day
    <3> QED
      BY <1>1, <1>2, <1>4, <2>3, <3>1 DEF Resolve, LineDate
  <2>4. CASE writing = "ISO"
    <3>1. Lines[i] = LineDate(day[2], day[3], day[1], TRUE)
      BY <2>1, <2>4 DEF Written, day
    <3> QED
      BY <1>1, <1>2, <1>4, <3>1 DEF Resolve, LineDate
  <2> QED
    BY <1>3, <2>2, <2>3, <2>4
<1>7. ASSUME items[i].what = "other" PROVE Resolve(Lines[i], order) = NoDate
  BY <1>7 DEF Lines, Resolve, Continuation
<1>8. ASSUME items[i].what = "rogue", writing # "ISO" PROVE Resolve(Lines[i], order) = NoDate
  <2>1. Lines[i] = Rogue
    BY <1>8 DEF Lines
  <2>2. CASE writing = "DMY"
    BY <2>1, <2>2 DEF Rogue, Resolve, LineDate
  <2>3. CASE writing = "MDY"
    BY <2>1, <2>3 DEF Rogue, Resolve, LineDate
  <2> QED
    BY <1>3, <1>8, <2>2, <2>3
<1> QED
  BY <1>2, <1>5, <1>6, <1>7, <1>8

(* An honest vote finds the order in which the phone writes.                *)
LEMMA VoteDecides ==
    ASSUME RulesInv, topic = "chat", HonestVote
    PROVE  /\ InferDateOrder(Lines) \in {"DMY", "MDY"}
           /\ writing # "ISO" => InferDateOrder(Lines) = writing
           /\ writing = "ISO" => \A i \in DOMAIN items : items[i].what # "rogue"
<1> DEFINE votes == {i \in DOMAIN Lines : Lines[i].dated /\ ~Lines[i].iso}
           dmy == {i \in votes : Lines[i].a > 12}
           mdy == {i \in votes : Lines[i].b > 12}
           rogues == {i \in DOMAIN items : items[i].what = "rogue"}
           decisive == {i \in Messages : Days[items[i].day][3] > 12}
<1>1. InferDateOrder(Lines) = IF Cardinality(dmy) > Cardinality(mdy) THEN "DMY" ELSE "MDY"
  BY DEF InferDateOrder
<1>2. /\ DOMAIN Lines = DOMAIN items /\ IsFiniteSet(DOMAIN items)
      /\ writing \in {"DMY", "MDY", "ISO"}
      /\ \A i \in DOMAIN items : /\ items[i].what \in {"message", "other", "rogue"}
                                /\ Days[items[i].day][2] \in 1..12
  BY ChatTyped DEF IsDate
<1>3. \A i \in DOMAIN items :
        /\ items[i].what = "message" => Lines[i] = Written(items[i].day)
        /\ items[i].what = "other" => Lines[i] = Continuation
        /\ items[i].what = "rogue" => Lines[i] = Rogue
  BY DEF Lines
<1>4. IsFiniteSet(rogues) /\ IsFiniteSet(decisive) /\ IsFiniteSet(dmy) /\ IsFiniteSet(mdy)
  BY <1>2, FS_Subset DEF Messages
<1>5. /\ Cardinality(rogues) \in Nat /\ Cardinality(decisive) \in Nat
      /\ Cardinality(dmy) \in Nat /\ Cardinality(mdy) \in Nat
  BY <1>4, FS_CardinalityType
<1>6. CASE writing = "DMY"
  <2>1. ASSUME NEW i \in DOMAIN items
        PROVE  (i \in dmy <=> i \in decisive) /\ (i \in mdy <=> i \in rogues)
    <3>1. CASE items[i].what = "message"
      <4>1. Lines[i] = LineDate(Days[items[i].day][3], Days[items[i].day][2], Days[items[i].day][1] % 100, FALSE)
        BY <1>3, <1>6, <3>1 DEF Written
      <4> QED
        BY <1>2, <3>1, <4>1 DEF LineDate, Messages
    <3>2. CASE items[i].what = "other"
      BY <1>3, <3>2 DEF Continuation, Messages
    <3>3. CASE items[i].what = "rogue"
      BY <1>2, <1>3, <1>6, <3>3 DEF Rogue, LineDate, Messages
    <3> QED
      BY <1>2, <3>1, <3>2, <3>3
  <2>2. dmy = decisive /\ mdy = rogues
    BY <1>2, <2>1 DEF Messages
  <2>3. Cardinality(decisive) > Cardinality(rogues)
    BY <1>6 DEF HonestVote
  <2> HIDE DEF dmy, mdy, rogues, decisive
  <2> QED
    BY <1>1, <1>6, <2>2, <2>3
<1>7. CASE writing = "MDY"
  <2>1. ASSUME NEW i \in DOMAIN items
        PROVE  (i \in mdy <=> i \in decisive) /\ (i \in dmy <=> i \in rogues)
    <3>1. CASE items[i].what = "message"
      <4>1. Lines[i] = LineDate(Days[items[i].day][2], Days[items[i].day][3], Days[items[i].day][1] % 100, FALSE)
        BY <1>3, <1>7, <3>1 DEF Written
      <4> QED
        BY <1>2, <3>1, <4>1 DEF LineDate, Messages
    <3>2. CASE items[i].what = "other"
      BY <1>3, <3>2 DEF Continuation, Messages
    <3>3. CASE items[i].what = "rogue"
      BY <1>2, <1>3, <1>7, <3>3 DEF Rogue, LineDate, Messages
    <3> QED
      BY <1>2, <3>1, <3>2, <3>3
  <2>2. mdy = decisive /\ dmy = rogues
    BY <1>2, <2>1 DEF Messages
  <2>3. Cardinality(decisive) >= Cardinality(rogues)
    BY <1>7 DEF HonestVote
  <2> HIDE DEF dmy, mdy, rogues, decisive
  <2> QED
    BY <1>1, <1>5, <1>7, <2>2, <2>3
<1>8. CASE writing = "ISO"
  <2>1. Cardinality(rogues) = 0
    BY <1>8 DEF HonestVote
  <2>2. rogues = {}
    BY <1>4, <2>1, FS_EmptySet
  <2>3. \A i \in DOMAIN items : items[i].what # "rogue"
    BY <2>2
  <2> HIDE DEF dmy, mdy, rogues, decisive
  <2> QED
    BY <1>1, <1>8, <2>3
<1> QED
  BY <1>2, <1>6, <1>7, <1>8

(* Of an honest chat the lines of the newest days are kept.                 *)
LEMMA WindowRight == RulesInv => RightWindow
<1> SUFFICES ASSUME RulesInv, topic = "chat", HonestVote, Messages # {}
             PROVE  LET newest == Max({TrueDay(i) : i \in Messages})
                        own(i) == {j \in Messages : j <= i}
                    IN KeptLines(Lines) =
                         {i \in DOMAIN items : own(i) # {} => newest - TrueDay(Max(own(i))) < WindowDays}
  BY DEF RightWindow, About
<1> DEFINE order == InferDateOrder(Lines)
           day(i) == Resolve(Lines[i], order)
           dated == {i \in DOMAIN Lines : day(i) # NoDate}
           anchor == Max({day(i) : i \in dated})
           head(i) == {j \in dated : j <= i}
           days == {TrueDay(i) : i \in Messages}
           newest == Max(days)
           own(i) == {j \in Messages : j <= i}
<1>1. /\ DOMAIN Lines = DOMAIN items /\ DOMAIN items = 1..Len(items) /\ Len(items) \in Nat
      /\ IsFiniteSet(DOMAIN items)
      /\ \A i \in DOMAIN items : items[i].what \in {"message", "other", "rogue"}
      /\ writing \in {"DMY", "MDY", "ISO"}
  BY ChatTyped
<1>2. /\ order \in {"DMY", "MDY"}
      /\ writing # "ISO" => order = writing
      /\ writing = "ISO" => \A i \in DOMAIN items : items[i].what # "rogue"
  BY VoteDecides
<1>3. ASSUME NEW i \in DOMAIN items
      PROVE  /\ TrueDay(i) \in Int
             /\ items[i].what = "message" => day(i) = TrueDay(i)
             /\ items[i].what # "message" => day(i) = NoDate
  <2> HIDE DEF order
  <2>1. /\ TrueDay(i) \in Int
        /\ items[i].what = "message" => day(i) = TrueDay(i)
        /\ items[i].what = "other" => day(i) = NoDate
        /\ items[i].what = "rogue" /\ writing # "ISO" => day(i) = NoDate
    BY <1>2, ReadAsWritten
  <2> QED
    BY <1>1, <1>2, <2>1
<1>4. Messages \in SUBSET Int /\ IsFiniteSet(Messages)
  BY <1>1, FS_Subset DEF Messages
<1>5. dated = Messages
  BY <1>1, <1>3, WindowAssumption DEF Messages
<1>6. {day(i) : i \in dated} = days
  BY <1>1, <1>3, <1>5 DEF Messages
<1>7. \A d \in days : newest >= d /\ d \in Int /\ newest \in Int
  <2> DEFINE f == [i \in Messages |-> TrueDay(i)]
  <2>1. f \in Surjection(Messages, days) /\ days \in SUBSET Int
    BY <1>3 DEF Surjection, Messages
  <2>2. IsFiniteSet(days)
    BY <1>4, <2>1, FS_Surjection
  <2> HIDE DEF days, f
  <2> QED
    BY <2>1, <2>2, MaxHolds
<1>8. KeptLines(Lines) = {i \in DOMAIN items : own(i) # {} => InWindow(day(Max(own(i))), newest)}
  <2>1. KeptLines(Lines) =
          IF dated = {} THEN DOMAIN Lines
          ELSE {i \in DOMAIN Lines : head(i) # {} => InWindow(day(Max(head(i))), anchor)}
    BY DEF KeptLines
  <2>2. anchor = newest
    BY <1>6
  <2>3. \A i : head(i) = own(i)
    BY <1>5
  <2> HIDE DEF day, dated, anchor, head, newest, own
  <2> QED
    BY <1>1, <1>5, <2>1, <2>2, <2>3
<1>9. ASSUME NEW i \in DOMAIN items, own(i) # {}
      PROVE  InWindow(day(Max(own(i))), newest) <=> newest - TrueDay(Max(own(i))) < WindowDays
  <2>1. own(i) \in SUBSET Int /\ IsFiniteSet(own(i)) /\ own(i) \subseteq Messages
    BY <1>4, FS_Subset
  <2>2. Max(own(i)) \in Messages
    BY <1>9, <2>1, MaxHolds
  <2> DEFINE m == Max(own(i))
  <2> HIDE DEF m, own, newest, days
  <2>3. m \in Messages
    BY <2>2 DEF m
  <2>4. m \in DOMAIN items /\ items[m].what = "message" /\ TrueDay(m) \in days
    BY <2>3 DEF Messages, days
  <2>5. day(m) = TrueDay(m) /\ newest >= TrueDay(m) /\ TrueDay(m) \in Int /\ newest \in Int
    BY <1>3, <1>7, <2>4
  <2>6. InWindow(TrueDay(m), newest) <=> newest - TrueDay(m) < WindowDays
    BY <2>5, WindowAssumption DEF InWindow
  <2> QED
    BY <2>5, <2>6 DEF m
<1> HIDE DEF day, newest, own
<1>10. KeptLines(Lines) = {i \in DOMAIN items : own(i) # {} => newest - TrueDay(Max(own(i))) < WindowDays}
  BY <1>8, <1>9
<1> QED
  BY <1>10 DEF newest, own

(* A line is of a day or of none.                                           *)
LEMMA DayOrNone ==
    ASSUME RulesInv, topic = "chat", NEW order, NEW i \in DOMAIN items
    PROVE  Resolve(Lines[i], order) \in Int \cup {NoDate}
<1> DEFINE day == Days[items[i].day]
           line == Lines[i]
<1>1. day[1] \in Int /\ day[2] \in Int /\ day[3] \in Int
  BY ChatTyped
<1>2. items[i].what \in {"message", "other", "rogue"} /\ writing \in {"DMY", "MDY", "ISO"}
  BY ChatTyped
<1>3. CASE items[i].what = "other"
  BY <1>3 DEF Lines, Resolve, Continuation
<1>4. CASE items[i].what # "other"
  <2>1. line.a \in Int /\ line.b \in Int /\ line.year \in Int
    <3>1. CASE items[i].what = "rogue"
      BY <3>1 DEF Lines, Rogue, LineDate
    <3>2. CASE items[i].what = "message"
      <4>1. line = Written(items[i].day)
        BY <3>2 DEF Lines
      <4>2. CASE writing = "DMY"
        <5>1. line = LineDate(day[3], day[2], day[1] % 100, FALSE)
          BY <4>1, <4>2 DEF Written
        <5> HIDE DEF line, day
        <5> QED
          BY <1>1, <5>1 DEF LineDate
      <4>3. CASE writing = "MDY"
        <5>1. line = LineDate(day[2], day[3], day[1] % 100, FALSE)
          BY <4>1, <4>3 DEF Written
        <5> HIDE DEF line, day
        <5> QED
          BY <1>1, <5>1 DEF LineDate
      <4>4. CASE writing = "ISO"
        <5>1. line = LineDate(day[2], day[3], day[1], TRUE)
          BY <4>1, <4>4 DEF Written
        <5> HIDE DEF line, day
        <5> QED
          BY <1>1, <5>1 DEF LineDate
      <4> QED
        BY <1>2, <4>2, <4>3, <4>4
    <3> QED
      BY <1>2, <1>4, <3>1, <3>2
  <2> DEFINE y == NormaliseYear(line.year)
             month == IF line.iso \/ order = "MDY" THEN line.a ELSE line.b
             number == IF line.iso \/ order = "MDY" THEN line.b ELSE line.a
  <2>2. Resolve(line, order) \in {NoDate, Ordinal(y, month, number)}
        /\ (Resolve(line, order) # NoDate => month \in 1..12)
    BY DEF Resolve
  <2>3. y \in Int /\ number \in Int
    BY <2>1 DEF NormaliseYear
  <2> HIDE DEF y, month, number, line
  <2> QED
    BY <2>2, <2>3, OrdinalIsNumber DEF line
<1> QED
  BY <1>3, <1>4

(* The line of the newest day is always kept.                               *)
LEMMA NeverEmpty == RulesInv => SomethingKept
<1> SUFFICES ASSUME RulesInv, topic = "chat", items # <<>> PROVE KeptLines(Lines) # {}
  BY DEF SomethingKept, About
<1> DEFINE order == InferDateOrder(Lines)
           day(i) == Resolve(Lines[i], order)
           dated == {i \in DOMAIN Lines : day(i) # NoDate}
           days == {day(i) : i \in dated}
           anchor == Max(days)
           head(i) == {j \in dated : j <= i}
           kept == {i \in DOMAIN Lines : head(i) # {} => InWindow(day(Max(head(i))), anchor)}
<1>1. KeptLines(Lines) = IF dated = {} THEN DOMAIN Lines ELSE kept
  BY DEF KeptLines
<1>2. /\ DOMAIN Lines = DOMAIN items /\ DOMAIN items = 1..Len(items) /\ Len(items) \in Nat
      /\ IsFiniteSet(DOMAIN items)
  BY ChatTyped
<1>3. DOMAIN items # {}
  <2>1. items \in Seq(ItemsOf["chat"])
    BY DEF RulesInv, Typed
  <2>2. Len(items) \in Nat \ {0}
    BY <2>1, EmptySeq
  <2> QED
    BY <1>2, <2>2
<1>4. CASE dated = {}
  BY <1>1, <1>2, <1>3, <1>4
<1>5. CASE dated # {}
  <2> HIDE DEF order
  <2>1. \A i \in dated : day(i) \in Int
    BY <1>2, DayOrNone
  <2>2. IsFiniteSet(dated) /\ dated \in SUBSET Int
    BY <1>2, FS_Subset
  <2> DEFINE f == [i \in dated |-> day(i)]
  <2>3. f \in Surjection(dated, days) /\ days \in SUBSET Int /\ days # {}
    BY <1>5, <2>1 DEF Surjection
  <2> HIDE DEF f
  <2>4. IsFiniteSet(days)
    BY <2>2, <2>3, FS_Surjection
  <2>5. anchor \in days
    <3> HIDE DEF days
    <3> QED
      BY <2>3, <2>4, MaxHolds
  <2>6. PICK k \in dated : anchor = day(k)
    BY <2>5
  <2>7. k \in Int /\ k \in head(k) /\ \A j \in head(k) : j <= k /\ j \in Int
    BY <2>2
  <2>8. Max(head(k)) = k
    <3> HIDE DEF head
    <3> QED
      BY <2>7 DEF Max
  <2>9. InWindow(day(k), anchor)
    <3>1. day(k) \in Int
      BY <2>1
    <3> HIDE DEF day
    <3> QED
      BY <2>6, <3>1, WindowAssumption DEF InWindow
  <2>10. k \in kept
    <3>1. k \in DOMAIN Lines
      OBVIOUS
    <3> HIDE DEF head, day, anchor, dated
    <3> QED
      BY <2>8, <2>9, <3>1
  <2> HIDE DEF kept, dated
  <2> QED
    BY <1>1, <1>5, <2>10
<1> QED
  BY <1>4, <1>5

-----------------------------------------------------------------------------
(* Dates of events *)

(* The date kept of an event is the first of those its text names.          *)
LEMMA FirstDateNamed == RulesInv => EarliestOfNamed
<1> SUFFICES ASSUME RulesInv, topic = "date"
             PROVE  LET named == {items[i].date : i \in {j \in DOMAIN items : items[j].digit}} \ {NoDate}
                        d     == ParseEarliestDate(items)
                    IN IF named = {} THEN d = NoDate ELSE d \in named /\ \A n \in named : d <= n
  BY DEF EarliestOfNamed, About
<1> DEFINE named == {items[i].date : i \in {j \in DOMAIN items : items[j].digit}} \ {NoDate}
           parsed == {j \in DOMAIN items : Parseable(items[j])}
           f == [i \in parsed |-> items[i].date]
<1>1. named = {items[i].date : i \in parsed}
  BY DEF Parseable
<1>2. ParseEarliestDate(items) = IF named = {} THEN NoDate ELSE Min(named)
  BY <1>1 DEF ParseEarliestDate
<1>3. IsFiniteSet(DOMAIN items) /\ \A i \in DOMAIN items : items[i].date \in Int \cup {NoDate}
  <2>1. items \in Seq(ItemsOf["date"])
    BY DEF RulesInv, Typed
  <2>2. \A i \in 1..Len(items) : items[i] \in [digit : BOOLEAN, date : Int \cup {NoDate}]
    BY <2>1, ItemsAssumption
  <2>3. IsFiniteSet(1..Len(items))
    BY <2>1, FS_Interval
  <2> QED
    BY <2>1, <2>2, <2>3
<1>4. named \in SUBSET Int
  BY <1>3
<1>5. IsFiniteSet(named)
  <2>1. f \in Surjection(parsed, named) /\ IsFiniteSet(parsed)
    BY <1>1, <1>3, FS_Subset DEF Surjection
  <2> HIDE DEF f, parsed, named
  <2> QED
    BY <2>1, FS_Surjection
<1> HIDE DEF named
<1>6. named # {} => Min(named) \in named /\ \A n \in named : Min(named) <= n
  BY <1>4, <1>5, MinHolds
<1> QED
  BY <1>2, <1>6 DEF named

(* Whatever the archive, the chat or the text of a date, what the model is  *)
(* given and what is kept of its answer are those of the export.            *)
THEOREM WhatIsReadIsRight == RulesSpec => []ExportReadRight
<1>1. RulesInv => ExportReadRight
  BY AnyOrder, NoLeak, WindowRight, NeverEmpty, FirstDateNamed DEF ExportReadRight
<1> QED
  BY <1>1, RulesInvariance, PTL

-----------------------------------------------------------------------------
(* Orders and places *)

(* How many elements come before x.                                         *)
Place(S, before, x) == Cardinality({y \in S : <<y, x>> \in before})

(* Where no two elements tie, the number of those before an element is its  *)
(* place, and every place is taken.                                         *)
LEMMA EveryPlaceTaken ==
    ASSUME NEW S, IsFiniteSet(S), NEW before,
           \A x, y \in S : x # y => <<x, y>> \in before \/ <<y, x>> \in before,
           \A x, y \in S : <<x, y>> \in before => <<y, x>> \notin before,
           \A x, y, z \in S : <<x, y>> \in before /\ <<y, z>> \in before => <<x, z>> \in before
    PROVE  /\ Cardinality(S) \in Nat
           /\ \A x \in S : Place(S, before, x) \in 0..(Cardinality(S) - 1)
           /\ \A x, y \in S : <<x, y>> \in before => Place(S, before, x) < Place(S, before, y)
           /\ \A k \in 0..(Cardinality(S) - 1) : \E x \in S : Place(S, before, x) = k
<1> DEFINE below(x) == {y \in S : <<y, x>> \in before}
           place(x) == Cardinality(below(x))
           n == Cardinality(S)
           f == [x \in S |-> place(x)]
<1>1. n \in Nat
  BY FS_CardinalityType
<1>2. \A x \in S : IsFiniteSet(below(x)) /\ place(x) \in Nat
  <2> TAKE x \in S
  <2>1. below(x) \in SUBSET S
    OBVIOUS
  <2> QED
    BY <2>1, FS_Subset, FS_CardinalityType
<1>3. ASSUME NEW x \in S, NEW T \in SUBSET S, below(x) \subseteq T, x \in T
      PROVE  place(x) < Cardinality(T)
  <2>1. below(x) \cup {x} \in SUBSET T /\ x \notin below(x)
    BY <1>3
  <2>2. IsFiniteSet(T) /\ Cardinality(T) \in Nat
    BY FS_Subset, FS_CardinalityType
  <2>3. Cardinality(below(x) \cup {x}) = place(x) + 1
    BY <1>2, <2>1, FS_AddElement
  <2>4. Cardinality(below(x) \cup {x}) <= Cardinality(T)
    BY <2>1, <2>2, FS_Subset
  <2> HIDE DEF below
  <2> QED
    BY <1>2, <2>2, <2>3, <2>4
<1>4. ASSUME NEW x \in S PROVE place(x) \in 0..(n - 1)
  <2>1. below(x) \subseteq S /\ S \in SUBSET S
    OBVIOUS
  <2> HIDE DEF below
  <2>2. place(x) < n
    BY <1>3, <2>1
  <2> QED
    BY <1>1, <1>2, <2>2
<1>5. ASSUME NEW x \in S, NEW y \in S, <<x, y>> \in before PROVE place(x) < place(y)
  <2>1. below(x) \subseteq below(y) /\ x \in below(y) /\ below(y) \in SUBSET S
    BY <1>5
  <2> QED
    BY <1>3, <2>1
<1> HIDE DEF below
<1>6. f \in Injection(S, 0..(n - 1))
  <2>1. \A x, y \in S : x # y => f[x] # f[y]
    <3> SUFFICES ASSUME NEW x \in S, NEW y \in S, x # y PROVE place(x) # place(y)
      OBVIOUS
    <3>1. place(x) < place(y) \/ place(y) < place(x)
      BY <1>5
    <3> QED
      BY <1>2, <3>1
  <2>2. f \in [S -> 0..(n - 1)]
    BY <1>4
  <2> HIDE DEF f
  <2> QED
    BY <2>1, <2>2 DEF Injection, IsInjective
<1>7. IsFiniteSet(0..(n - 1)) /\ Cardinality(0..(n - 1)) = n
  <2>1. 0 \in Int /\ n - 1 \in Int
    BY <1>1
  <2>2. IsFiniteSet(0..(n - 1))
        /\ Cardinality(0..(n - 1)) = IF 0 > n - 1 THEN 0 ELSE n - 1 - 0 + 1
    BY <2>1, FS_Interval
  <2> QED
    BY <1>1, <2>2
<1>8. f \in Surjection(S, 0..(n - 1))
  <2> HIDE DEF f
  <2> QED
    BY <1>6, <1>7, FS_Injection
<1>9. \A k \in 0..(n - 1) : \E x \in S : place(x) = k
  BY <1>8 DEF Surjection
<1>10. \A x : Place(S, before, x) = place(x)
  BY DEF Place, below
<1> HIDE DEF place
<1> QED
  BY <1>1, <1>4, <1>5, <1>9, <1>10

(* Of two elements one comes before the other.                              *)
NoTies(S, before) ==
    /\ \A x, y \in S : x # y => <<x, y>> \in before \/ <<y, x>> \in before
    /\ \A x, y \in S : <<x, y>> \in before => <<y, x>> \notin before

(* Without ties there is one order at most.                                 *)
LEMMA SameOrder ==
    ASSUME NEW S, IsFiniteSet(S), NEW before, NoTies(S, before),
           NEW t \in OrdersOf(S, before), NEW u \in OrdersOf(S, before)
    PROVE  t = u
<1>1. \A k \in 1..Cardinality(S) : t[k] = u[k]
  BY OneOrder DEF NoTies
<1>2. t \in [1..Cardinality(S) -> S] /\ u \in [1..Cardinality(S) -> S]
  BY DEF OrdersOf, SetToSeqs
<1>3. /\ t = [k \in 1..Cardinality(S) |-> t[k]] /\ u = [k \in 1..Cardinality(S) |-> u[k]]
      /\ [k \in 1..Cardinality(S) |-> t[k]] = [k \in 1..Cardinality(S) |-> u[k]]
  BY <1>1, <1>2
<1> QED
  BY <1>3

(* So there is an order (OrdersOf).                                         *)
LEMMA OrderExists ==
    ASSUME NEW S, IsFiniteSet(S), NEW before,
           \A x, y \in S : x # y => <<x, y>> \in before \/ <<y, x>> \in before,
           \A x, y \in S : <<x, y>> \in before => <<y, x>> \notin before,
           \A x, y, z \in S : <<x, y>> \in before /\ <<y, z>> \in before => <<x, z>> \in before
    PROVE  \E s : OrdersOf(S, before) = {s}
<1> DEFINE place(x) == Place(S, before, x)
           n == Cardinality(S)
           s == [k \in 1..n |-> CHOOSE x \in S : place(x) = k - 1]
<1>1. /\ n \in Nat
      /\ \A x \in S : place(x) \in 0..(n - 1)
      /\ \A x, y \in S : <<x, y>> \in before => place(x) < place(y)
      /\ \A k \in 0..(n - 1) : \E x \in S : place(x) = k
  BY EveryPlaceTaken
<1> HIDE DEF place, n
<1>2. ASSUME NEW k \in 1..n PROVE s[k] \in S /\ place(s[k]) = k - 1
  <2>1. k - 1 \in 0..(n - 1)
    BY <1>1
  <2>2. \E x \in S : place(x) = k - 1
    BY <1>1, <2>1
  <2> QED
    BY <2>2
<1>3. DOMAIN s = 1..n /\ s \in [1..n -> S]
  BY <1>2
<1> HIDE DEF s
<1>4. s \in OrdersOf(S, before)
  <2>1. \A i, j \in 1..n : i # j => s[i] # s[j]
    BY <1>1, <1>2
  <2>2. s \in SetToSeqs(S)
    BY <1>3, <2>1 DEF SetToSeqs, n
  <2>3. Len(s) = n
    BY <1>1, <1>3
  <2>4. \A i, j \in 1..n : i < j => <<s[j], s[i]>> \notin before
    <3> SUFFICES ASSUME NEW i \in 1..n, NEW j \in 1..n, i < j, <<s[j], s[i]>> \in before PROVE FALSE
      OBVIOUS
    <3>1. place(s[j]) < place(s[i]) /\ place(s[j]) = j - 1 /\ place(s[i]) = i - 1
      BY <1>1, <1>2
    <3> QED
      BY <1>1, <3>1
  <2> QED
    BY <2>2, <2>3, <2>4 DEF OrdersOf
<1>5. \A t \in OrdersOf(S, before) : t = s
  BY <1>4, SameOrder DEF NoTies
<1> QED
  BY <1>4, <1>5

(* The numbers of a set one after the other (Ascending).                    *)
LEMMA AscendingHolds ==
    ASSUME NEW S \in SUBSET Int, IsFiniteSet(S)
    PROVE  /\ Cardinality(S) \in Nat
           /\ Ascending(S) \in [1..Cardinality(S) -> S]
           /\ \A i \in S : Rank(S, i) \in 1..Cardinality(S) /\ Ascending(S)[Rank(S, i)] = i
           /\ \A k \in 1..Cardinality(S) : Rank(S, Ascending(S)[k]) = k
           /\ \A i, j \in S : i < j => Rank(S, i) < Rank(S, j)
           /\ \A k, l \in 1..Cardinality(S) : k < l => Ascending(S)[k] < Ascending(S)[l]
<1> DEFINE before == {x \in S \X S : x[1] < x[2]}
           place(x) == Place(S, before, x)
           n == Cardinality(S)
<1>1. \A x, y \in S : <<x, y>> \in before <=> x < y
  OBVIOUS
<1>2. \A x \in S : x \in Int
  OBVIOUS
<1>3. /\ n \in Nat
      /\ \A x \in S : place(x) \in 0..(n - 1)
      /\ \A x, y \in S : <<x, y>> \in before => place(x) < place(y)
      /\ \A k \in 0..(n - 1) : \E x \in S : place(x) = k
  <2> HIDE DEF before
  <2>1. \A x, y \in S : x # y => <<x, y>> \in before \/ <<y, x>> \in before
    <3> SUFFICES ASSUME NEW x \in S, NEW y \in S, x # y
                 PROVE  <<x, y>> \in before \/ <<y, x>> \in before
      OBVIOUS
    <3>1. x < y \/ y < x
      BY <1>2
    <3> QED
      BY <1>1, <3>1
  <2>2. \A x, y \in S : <<x, y>> \in before => <<y, x>> \notin before
    <3> SUFFICES ASSUME NEW x \in S, NEW y \in S, x < y PROVE ~(y < x)
      BY <1>1
    <3> QED
      BY <1>2
  <2>3. \A x, y, z \in S : <<x, y>> \in before /\ <<y, z>> \in before => <<x, z>> \in before
    <3> SUFFICES ASSUME NEW x \in S, NEW y \in S, NEW z \in S, x < y, y < z PROVE x < z
      BY <1>1
    <3> QED
      BY <1>2
  <2> QED
    BY <2>1, <2>2, <2>3, EveryPlaceTaken
<1>4. ASSUME NEW x \in S PROVE Rank(S, x) = place(x) + 1
  <2> DEFINE B == {y \in S : <<y, x>> \in before}
             A == {y \in S : y <= x}
  <2>1. A = B \cup {x} /\ x \notin B /\ B \in SUBSET S
    <3> HIDE DEF before
    <3>1. ASSUME NEW y \in S PROVE y <= x <=> <<y, x>> \in before \/ y = x
      <4>1. y <= x <=> y < x \/ y = x
        BY <1>2
      <4> QED
        BY <1>1, <4>1
    <3>2. <<x, x>> \notin before
      <4>1. ~(x < x)
        BY <1>2
      <4> QED
        BY <1>1, <4>1
    <3> QED
      BY <3>1, <3>2
  <2>2. IsFiniteSet(B)
    BY <2>1, FS_Subset
  <2> HIDE DEF A, B
  <2>3. Cardinality(A) = Cardinality(B) + 1
    BY <2>1, <2>2, FS_AddElement
  <2> QED
    BY <2>3 DEF A, B, Rank, Place
<1> HIDE DEF before, place, n
<1>5. ASSUME NEW k \in 1..n PROVE Nth(S, k) \in S /\ Rank(S, Nth(S, k)) = k
  <2>1. k - 1 \in 0..(n - 1)
    BY <1>3
  <2>2. PICK x \in S : place(x) = k - 1
    BY <1>3, <2>1
  <2>3. Rank(S, x) = k
    BY <1>4, <2>2
  <2> QED
    BY <2>3 DEF Nth
<1>6. \A x, y \in S : x # y => Rank(S, x) # Rank(S, y)
  <2> SUFFICES ASSUME NEW x \in S, NEW y \in S, x # y PROVE Rank(S, x) # Rank(S, y)
    OBVIOUS
  <2>1. x < y \/ y < x
    BY <1>2
  <2>2. <<x, y>> \in before \/ <<y, x>> \in before
    BY <1>1, <2>1
  <2>3. place(x) < place(y) \/ place(y) < place(x)
    BY <1>3, <2>2
  <2>4. place(x) \in Int /\ place(y) \in Int
    BY <1>3
  <2> QED
    BY <1>4, <2>3, <2>4
<1>7. ASSUME NEW x \in S PROVE Rank(S, x) \in 1..n /\ Nth(S, Rank(S, x)) = x
  <2>1. Rank(S, x) \in 1..n
    BY <1>3, <1>4
  <2> QED
    BY <1>5, <1>6, <2>1
<1>8. \A x, y \in S : x < y => Rank(S, x) < Rank(S, y)
  <2> SUFFICES ASSUME NEW x \in S, NEW y \in S, x < y PROVE Rank(S, x) < Rank(S, y)
    OBVIOUS
  <2>1. <<x, y>> \in before
    BY <1>1
  <2>2. place(x) < place(y) /\ place(x) \in Int /\ place(y) \in Int
    BY <1>3, <2>1
  <2> QED
    BY <1>4, <2>2
<1>9. Ascending(S) = [k \in 1..n |-> Nth(S, k)]
  BY DEF Ascending, n
<1>10. ASSUME NEW k \in 1..n, NEW l \in 1..n, k < l PROVE Nth(S, k) < Nth(S, l)
  <2>1. Nth(S, k) \in Int /\ Nth(S, l) \in Int
    BY <1>2, <1>5
  <2>2. Nth(S, k) # Nth(S, l)
    BY <1>5, <1>10
  <2>3. ~(Nth(S, l) < Nth(S, k))
    <3> SUFFICES ASSUME Nth(S, l) < Nth(S, k) PROVE FALSE
      OBVIOUS
    <3>1. Rank(S, Nth(S, l)) < Rank(S, Nth(S, k))
      BY <1>5, <1>8
    <3> QED
      BY <1>3, <1>5, <1>10, <3>1
  <2> QED
    BY <2>1, <2>2, <2>3
<1> QED
  BY <1>3, <1>5, <1>7, <1>8, <1>9, <1>10 DEF n

(* A quotient and a remainder, and the only ones.                           *)
LEMMA Quotient ==
    ASSUME NEW a \in Nat, NEW b \in Nat \ {0}
    PROVE  /\ a \div b \in Nat /\ a % b \in 0..(b - 1) /\ (a \div b) * b \in Nat
           /\ a = ((a \div b) * b) + (a % b)
           /\ \A q \in Nat, r \in 0..(b - 1) : a = q * b + r => q = a \div b /\ r = a % b
<1> DEFINE k == a \div b
           rest == a % b
<1>1. k \in Int /\ rest \in 0..(b - 1) /\ a = b * k + rest
  OBVIOUS
<1> HIDE DEF k, rest
<1>2. k >= 0
  <2>1. ASSUME k <= -1 PROVE FALSE
    <3>1. b * k <= -b
      BY <1>1, <2>1
    <3> QED
      BY <1>1, <3>1
  <2> QED
    BY <1>1, <2>1
<1>3. k \in Nat /\ k * b \in Nat /\ a = k * b + rest
  BY <1>1, <1>2
<1>4. ASSUME NEW q \in Nat, NEW r \in 0..(b - 1), a = q * b + r PROVE q = k /\ r = rest
  <2>1. ASSUME NEW x \in Nat, NEW y \in Nat, NEW v \in 0..(b - 1), NEW w \in 0..(b - 1),
               x * b + v = y * b + w, x < y
        PROVE  FALSE
    <3>1. (x + 1) * b <= y * b /\ (x + 1) * b \in Nat /\ x * b \in Nat /\ y * b \in Nat
      <4>1. x + 1 \in Nat /\ x + 1 <= y /\ b \in Nat /\ x <= x
        BY <2>1
      <4> QED
        BY <4>1, TimesGrows
    <3>2. (x + 1) * b = x * b + b
      BY <2>1
    <3> QED
      BY <2>1, <3>1, <3>2
  <2>2. ~(q < k) /\ ~(k < q)
    BY <1>1, <1>3, <1>4, <2>1
  <2>3. q = k
    BY <1>3, <2>2
  <2>4. q * b = k * b
    BY <2>3
  <2> QED
    BY <1>1, <1>3, <1>4, <2>3, <2>4
<1> QED
  BY <1>1, <1>3, <1>4 DEF k, rest

(* The place of an element of a list on its page.                           *)
PlaceOnPage(k) == ((k - 1) % PageSize) + 1

(* Each place of a list is on its page, at its place there, and the pages   *)
(* have no other places.                                                    *)
LEMMA OnItsPage ==
    ASSUME NEW T, NEW s \in Seq(T)
    PROVE  /\ Len(s) \in Nat /\ TotalPages(Len(s)) \in Nat \ {0}
           /\ \A k \in 1..Len(s) :
                /\ PageOf(k) \in 1..TotalPages(Len(s)) /\ PlaceOnPage(k) \in 1..PageSize
                /\ PlaceOnPage(k) \in 1..Len(Window(s, PageOf(k)))
                /\ Window(s, PageOf(k))[PlaceOnPage(k)] = s[k]
           /\ \A p \in Nat \ {0} :
                /\ Window(s, p) \in Seq(T) /\ Len(Window(s, p)) <= PageSize
                /\ \A j \in 1..Len(Window(s, p)) :
                     \E k \in 1..Len(s) : PageOf(k) = p /\ PlaceOnPage(k) = j /\ Window(s, p)[j] = s[k]
<1> DEFINE n == Len(s)
<1>1. n \in Nat /\ PageSize \in Nat \ {0}
  BY PageSizeAssumption
<1> HIDE DEF n
<1>2. TotalPages(n) \in Nat \ {0} /\ n <= TotalPages(n) * PageSize
  BY <1>1, TotalPagesHold
<1>3. ASSUME NEW k \in 1..n
      PROVE  /\ PageOf(k) \in 1..TotalPages(n) /\ PlaceOnPage(k) \in 1..PageSize
             /\ PlaceOnPage(k) \in 1..Len(Window(s, PageOf(k)))
             /\ Window(s, PageOf(k))[PlaceOnPage(k)] = s[k]
  <2> DEFINE q == (k - 1) \div PageSize
             r == (k - 1) % PageSize
             d == q * PageSize
             e == (q + 1) * PageSize
  <2>1. k - 1 \in Nat /\ k \in Nat
    BY <1>1
  <2>2. q \in Nat /\ r \in 0..(PageSize - 1) /\ d \in Nat /\ k - 1 = d + r
    BY <1>1, <2>1, Quotient
  <2>3. PageOf(k) = q + 1 /\ PlaceOnPage(k) = r + 1
    BY DEF PageOf, PlaceOnPage
  <2> HIDE DEF q, r
  <2>4. e = d + PageSize
    BY <1>1, <2>2
  <2>5. q + 1 <= TotalPages(n)
    <3> SUFFICES ASSUME TotalPages(n) <= q PROVE FALSE
      BY <1>2, <2>2
    <3>1. TotalPages(n) * PageSize <= d
      BY <1>1, <1>2, <2>2, TimesGrows
    <3> HIDE DEF d
    <3>2. TotalPages(n) * PageSize \in Nat
      BY <1>1, <1>2
    <3> QED
      BY <1>1, <1>2, <2>1, <2>2, <3>1, <3>2
  <2>6. /\ Len(Window(s, q + 1)) = IF e < n THEN PageSize ELSE IF d < n THEN n - d ELSE 0
        /\ \A i \in 1..Len(Window(s, q + 1)) : Window(s, q + 1)[i] = s[d + i]
    <3> DEFINE p == q + 1
    <3>1. p \in Nat \ {0} /\ (p - 1) * PageSize = d /\ p * PageSize = e
      BY <1>1, <2>2
    <3> HIDE DEF p, d, e
    <3>2. /\ Len(Window(s, p)) = IF p * PageSize < Len(s) THEN PageSize
                                ELSE IF (p - 1) * PageSize < Len(s) THEN Len(s) - (p - 1) * PageSize ELSE 0
          /\ \A i \in 1..Len(Window(s, p)) : Window(s, p)[i] = s[(p - 1) * PageSize + i]
      BY <3>1, WindowHolds
    <3> QED
      BY <3>1, <3>2 DEF n, p
  <2> HIDE DEF d, e
  <2>7. r + 1 \in 1..Len(Window(s, q + 1)) /\ d + (r + 1) = k
    BY <1>1, <2>1, <2>2, <2>4, <2>6
  <2>8. q + 1 \in 1..TotalPages(n) /\ r + 1 \in 1..PageSize
    BY <1>1, <1>2, <2>2, <2>5
  <2>9. Window(s, q + 1)[r + 1] = s[k]
    BY <2>6, <2>7
  <2> QED
    BY <2>3, <2>7, <2>8, <2>9
<1>4. ASSUME NEW p \in Nat \ {0}
      PROVE  /\ Window(s, p) \in Seq(T) /\ Len(Window(s, p)) <= PageSize
             /\ \A j \in 1..Len(Window(s, p)) :
                  \E k \in 1..n : PageOf(k) = p /\ PlaceOnPage(k) = j /\ Window(s, p)[j] = s[k]
  <2> DEFINE d == (p - 1) * PageSize
             e == p * PageSize
  <2>1. d \in Nat /\ e = d + PageSize
    BY <1>1
  <2>2. /\ Window(s, p) \in Seq(T)
        /\ Len(Window(s, p)) = IF e < n THEN PageSize ELSE IF d < n THEN n - d ELSE 0
        /\ \A i \in 1..Len(Window(s, p)) : Window(s, p)[i] = s[d + i]
    BY WindowHolds DEF n
  <2>3. ASSUME NEW j \in 1..Len(Window(s, p)), NEW k, k = d + j
        PROVE  k \in 1..n /\ PageOf(k) = p /\ PlaceOnPage(k) = j
    <3> HIDE DEF d, e
    <3>1. k \in 1..n /\ j - 1 \in 0..(PageSize - 1)
      BY <1>1, <2>1, <2>2, <2>3
    <3>2. k - 1 \in Nat /\ p - 1 \in Nat /\ k - 1 = d + (j - 1)
      BY <1>1, <2>1, <2>3, <3>1
    <3>3. p - 1 = (k - 1) \div PageSize /\ j - 1 = (k - 1) % PageSize
      <4> DEFINE a == k - 1
                 q == p - 1
                 r == j - 1
      <4>1. a \in Nat /\ q \in Nat /\ r \in 0..(PageSize - 1) /\ a = q * PageSize + r
        BY <3>1, <3>2 DEF d
      <4> HIDE DEF a, q, r
      <4>2. q = a \div PageSize /\ r = a % PageSize
        BY <1>1, <4>1, Quotient
      <4> QED
        BY <4>2 DEF a, q, r
    <3> QED
      BY <3>1, <3>3 DEF PageOf, PlaceOnPage
  <2>4. Len(Window(s, p)) <= PageSize
    <3> HIDE DEF d, e
    <3> QED
      BY <1>1, <2>1, <2>2
  <2> QED
    BY <2>2, <2>3, <2>4
<1> QED
  BY <1>1, <1>2, <1>3, <1>4 DEF n

-----------------------------------------------------------------------------
(* Runs *)

(* Runs are finitely many.                                                  *)
LEMMA RunsTyped ==
    ASSUME RulesInv, topic = "runs"
    PROVE  /\ IsFiniteSet(Runs)
           /\ \A r \in Runs : r.made \in Nat /\ r.filename \in Int /\ r.status \in Int
<1>1. items \in Seq(ItemsOf["runs"])
  BY DEF RulesInv, Typed
<1>2. /\ DOMAIN items = 1..Len(items) /\ Len(items) \in Nat /\ IsFiniteSet(DOMAIN items)
      /\ \A i \in DOMAIN items : items[i] \in [made : Nat, filename : Int, status : Int]
  BY <1>1, ItemsAssumption, FS_Interval
<1> DEFINE f == [i \in DOMAIN items |->
                   [id |-> i, made |-> items[i].made, filename |-> items[i].filename,
                    status |-> items[i].status]]
<1>3. f \in Surjection(DOMAIN items, Runs)
  BY DEF Surjection, Runs
<1>4. IsFiniteSet(Runs)
  BY <1>2, <1>3, FS_Surjection
<1>5. ASSUME NEW r \in Runs PROVE r.made \in Nat /\ r.filename \in Int /\ r.status \in Int
  <2>1. PICK i \in DOMAIN items : r = [id |-> i, made |-> items[i].made, filename |-> items[i].filename,
                                       status |-> items[i].status]
    BY DEF Runs
  <2> QED
    BY <1>2, <2>1
<1> QED
  BY <1>4, <1>5

(* One element comes before another, or they are level.                     *)
WeakOrder(S, before) ==
    /\ \A x, y \in S : <<x, y>> \in before => <<y, x>> \notin before
    /\ \A x, y, z \in S : <<x, z>> \in before => <<x, y>> \in before \/ <<y, z>> \in before

LevelIn(before, x, y) == <<x, y>> \notin before /\ <<y, x>> \notin before

(* How many come before x or are level with it.                             *)
Reach(S, before, x) == Cardinality({y \in S : <<x, y>> \notin before})

(* What is before the one is before or level with the other, if the first   *)
(* is before the second.                                                    *)
LEMMA ReachesLess ==
    ASSUME NEW S, IsFiniteSet(S), NEW before, WeakOrder(S, before),
           NEW x \in S, NEW y \in S, <<x, y>> \in before
    PROVE  Reach(S, before, x) <= Place(S, before, y)
<1> DEFINE level == {z \in S : <<x, z>> \notin before}
           below == {z \in S : <<z, y>> \in before}
<1>1. level \in SUBSET below
  BY DEF WeakOrder
<1>2. IsFiniteSet(below)
  <2>1. below \in SUBSET S
    OBVIOUS
  <2> QED
    BY <2>1, FS_Subset
<1> HIDE DEF level, below
<1>3. Cardinality(level) <= Cardinality(below)
  BY <1>1, <1>2, FS_Subset
<1> QED
  BY <1>3 DEF Reach, Place, level, below

(* In any order an element is after those before it, and no further than    *)
(* the last that it is level with (OrdersOf).                               *)
LEMMA PlaceOfTied ==
    ASSUME NEW S, IsFiniteSet(S), NEW before, WeakOrder(S, before),
           NEW s \in OrdersOf(S, before), NEW k \in 1..Len(s)
    PROVE  k \in (Place(S, before, s[k]) + 1)..Reach(S, before, s[k])
<1> DEFINE below == {y \in S : <<y, s[k]>> \in before}
           reach == {y \in S : <<s[k], y>> \notin before}
           first(m) == {s[i] : i \in 1..m}
<1>1. /\ s \in Seq(S) /\ Range(s) = S /\ Len(s) \in Nat
      /\ \A i, j \in 1..Len(s) : s[i] = s[j] => i = j
      /\ \A i, j \in 1..Len(s) : i < j => <<s[j], s[i]>> \notin before
  BY OrderNamesAll
<1>2. \A i \in 1..Len(s) : s[i] \in S
  BY <1>1
<1>3. ASSUME NEW m \in 0..Len(s) PROVE IsFiniteSet(first(m)) /\ Cardinality(first(m)) = m
  <2> DEFINE f == [i \in 1..m |-> s[i]]
  <2>1. \A i \in 1..m : i \in 1..Len(s) /\ f[i] = s[i]
    BY <1>1
  <2>2. f \in Injection(1..m, first(m))
    BY <1>1, <2>1 DEF Injection, IsInjective
  <2>3. f \in Surjection(1..m, first(m))
    BY <2>1 DEF Surjection
  <2>4. IsFiniteSet(1..m) /\ Cardinality(1..m) = m
    <3>1. 1 \in Int /\ m \in Int /\ m >= 0
      BY <1>1
    <3>2. /\ IsFiniteSet(1..m)
          /\ Cardinality(1..m) = IF 1 > m THEN 0 ELSE m - 1 + 1
      BY <3>1, FS_Interval
    <3> QED
      BY <3>1, <3>2
  <2> HIDE DEF f, first
  <2> QED
    BY <2>2, <2>3, <2>4, FS_Surjection
<1>4. below \in SUBSET first(k - 1)
  <2> SUFFICES ASSUME NEW y \in S, <<y, s[k]>> \in before PROVE \E i \in 1..(k - 1) : s[i] = y
    OBVIOUS
  <2>1. PICK i \in 1..Len(s) : y = s[i]
    BY <1>1 DEF Range
  <2>2. i # k
    BY <1>2, <2>1 DEF WeakOrder
  <2>3. ~(k < i)
    BY <1>1, <2>1
  <2> QED
    BY <1>1, <2>1, <2>2, <2>3
<1>5. first(k) \in SUBSET reach
  <2> SUFFICES ASSUME NEW i \in 1..k PROVE s[i] \in S /\ <<s[k], s[i]>> \notin before
    OBVIOUS
  <2>1. i \in 1..Len(s) /\ (i = k \/ i < k)
    BY <1>1
  <2> QED
    BY <1>1, <1>2, <2>1 DEF WeakOrder
<1>6. IsFiniteSet(reach) /\ IsFiniteSet(below)
  <2>1. reach \in SUBSET S /\ below \in SUBSET S
    OBVIOUS
  <2> QED
    BY <2>1, FS_Subset
<1>7. k - 1 \in 0..Len(s) /\ k \in 0..Len(s) /\ k \in Nat
  BY <1>1
<1> HIDE DEF first, below, reach
<1>8. Cardinality(below) <= k - 1
  BY <1>3, <1>4, <1>7, FS_Subset
<1>9. k <= Cardinality(reach)
  BY <1>3, <1>5, <1>6, <1>7, FS_Subset
<1>10. Cardinality(below) \in Nat /\ Cardinality(reach) \in Nat
  BY <1>6, FS_CardinalityType
<1>11. k \in (Cardinality(below) + 1)..Cardinality(reach)
  BY <1>7, <1>8, <1>9, <1>10
<1> QED
  BY <1>11 DEF Place, Reach, below, reach

(* There is an order: elements that are level may stand as they are         *)
(* numbered.                                                                *)
LEMMA WeakOrderExists ==
    ASSUME NEW S, IsFiniteSet(S), NEW before, WeakOrder(S, before)
    PROVE  OrdersOf(S, before) # {}
<1>0. PICK n \in Nat : ExistsBijection(1..n, S)
  BY FS_NatBijection
<1>1. PICK f \in Bijection(1..n, S) : TRUE
  BY <1>0 DEF ExistsBijection
<1> DEFINE g(x) == CHOOSE i \in 1..n : f[i] = x
           finer == before \cup {p \in S \X S : LevelIn(before, p[1], p[2]) /\ g(p[1]) < g(p[2])}
<1>2. \A x \in S : g(x) \in 1..n /\ f[g(x)] = x
  BY <1>1 DEF Bijection, Surjection
<1>3. \A x, y \in S : g(x) \in Int /\ (g(x) = g(y) => x = y)
  BY <1>2
<1>4. \A x, y \in S : <<x, y>> \in finer <=>
         <<x, y>> \in before \/ (LevelIn(before, x, y) /\ g(x) < g(y))
  OBVIOUS
<1> HIDE DEF g, finer
<1>5. \A x, y \in S : x # y => <<x, y>> \in finer \/ <<y, x>> \in finer
  BY <1>3, <1>4 DEF LevelIn
<1>6. \A x, y \in S : <<x, y>> \in finer => <<y, x>> \notin finer
  BY <1>3, <1>4 DEF LevelIn, WeakOrder
<1>7. ASSUME NEW x \in S, NEW y \in S, NEW z \in S, <<x, y>> \in finer, <<y, z>> \in finer
      PROVE  <<x, z>> \in finer
  <2>1. CASE <<x, y>> \in before
    <3>1. <<x, z>> \in before
      BY <1>4, <1>7, <2>1 DEF LevelIn, WeakOrder
    <3> QED
      BY <1>4, <3>1
  <2>2. CASE <<y, z>> \in before
    <3>1. <<x, z>> \in before
      BY <1>4, <1>7, <2>2 DEF LevelIn, WeakOrder
    <3> QED
      BY <1>4, <3>1
  <2>3. CASE LevelIn(before, x, y) /\ LevelIn(before, y, z) /\ g(x) < g(y) /\ g(y) < g(z)
    <3>1. LevelIn(before, x, z)
      BY <2>3 DEF LevelIn, WeakOrder
    <3>2. g(x) < g(z)
      BY <1>3, <2>3
    <3> QED
      BY <1>4, <3>1, <3>2
  <2> QED
    BY <1>4, <1>7, <2>1, <2>2, <2>3
<1>8. PICK s : OrdersOf(S, finer) = {s}
  BY <1>5, <1>6, <1>7, OrderExists
<1>9. s \in OrdersOf(S, before)
  <2>1. s \in SetToSeqs(S) /\ \A i, j \in 1..Len(s) : i < j => <<s[j], s[i]>> \notin finer
    BY <1>8 DEF OrdersOf
  <2>2. before \subseteq finer
    BY DEF finer
  <2> QED
    BY <2>1, <2>2 DEF OrdersOf
<1> QED
  BY <1>9

(* An element may stand at every place of those it is level with: the one   *)
(* that stands there changes places with it.                                *)
LEMMA MayStandAt ==
    ASSUME NEW S, IsFiniteSet(S), NEW before, WeakOrder(S, before), NEW r \in S,
           NEW k \in (Place(S, before, r) + 1)..Reach(S, before, r)
    PROVE  \E s \in OrdersOf(S, before) : k \in 1..Len(s) /\ s[k] = r
<1> DEFINE n == Cardinality(S)
<1>1. PICK t \in OrdersOf(S, before) : TRUE
  BY WeakOrderExists
<1>2. /\ n \in Nat /\ t \in Seq(S) /\ Len(t) = n /\ Range(t) = S
      /\ \A i, j \in 1..Len(t) : t[i] = t[j] => i = j
      /\ \A i, j \in 1..Len(t) : i < j => <<t[j], t[i]>> \notin before
  BY <1>1, OrderNamesAll
<1>3. \A x \in S : Place(S, before, x) \in Nat /\ Reach(S, before, x) \in 0..n
  <2> TAKE x \in S
  <2> DEFINE below == {y \in S : <<y, x>> \in before}
             reach == {y \in S : <<x, y>> \notin before}
  <2>1. below \in SUBSET S /\ reach \in SUBSET S
    OBVIOUS
  <2> HIDE DEF below, reach
  <2>2. Cardinality(below) \in Nat /\ Cardinality(reach) \in Nat /\ Cardinality(reach) <= n
    BY <2>1, FS_Subset, FS_CardinalityType
  <2> QED
    BY <1>2, <2>2 DEF Place, Reach, below, reach
<1>4. k \in 1..n
  BY <1>2, <1>3
<1>5. PICK m \in 1..n : t[m] = r
  BY <1>2 DEF Range
<1> DEFINE o == t[k]
           s == [i \in 1..n |-> IF i = k THEN r ELSE IF i = m THEN o ELSE t[i]]
<1>6. \A i \in 1..n : t[i] \in S
  BY <1>2
<1>7. LevelIn(before, o, r)
  <2>1. o \in S /\ k \in (Place(S, before, o) + 1)..Reach(S, before, o)
    BY <1>1, <1>2, <1>4, <1>6, PlaceOfTied
  <2>2. ASSUME <<o, r>> \in before PROVE FALSE
    <3>1. Reach(S, before, o) <= Place(S, before, r)
      BY <2>1, <2>2, ReachesLess
    <3> QED
      BY <1>3, <2>1, <3>1
  <2>3. ASSUME <<r, o>> \in before PROVE FALSE
    <3>1. Reach(S, before, r) <= Place(S, before, o)
      BY <2>1, <2>3, ReachesLess
    <3> QED
      BY <1>3, <2>1, <3>1
  <2> QED
    BY <2>2, <2>3 DEF LevelIn
<1> HIDE DEF n
<1>8. /\ s \in [1..n -> S] /\ Len(s) = n
      /\ \A i, j \in 1..n : i # j => s[i] # s[j]
  <2>1. s \in [1..n -> S]
    BY <1>4, <1>6
  <2>2. \A i, j \in 1..n : i # j => s[i] # s[j]
    BY <1>2, <1>4, <1>5
  <2>3. Len(s) = n
    BY <1>2
  <2> HIDE DEF s
  <2> QED
    BY <2>1, <2>2, <2>3
<1>9. \A i \in 1..n : LevelIn(before, s[i], t[i])
  BY <1>4, <1>5, <1>6, <1>7 DEF LevelIn, WeakOrder
<1>10. \A i \in 1..n : s[i] \in S
  BY <1>8
<1>11. s[k] = r
  BY <1>4
<1> HIDE DEF s, o
<1>12. ASSUME NEW i \in 1..n, NEW j \in 1..n, i < j PROVE <<s[j], s[i]>> \notin before
  <2>1. LevelIn(before, s[i], t[i]) /\ LevelIn(before, s[j], t[j]) /\ <<t[j], t[i]>> \notin before
    BY <1>2, <1>9, <1>12
  <2>2. s[i] \in S /\ s[j] \in S /\ t[i] \in S /\ t[j] \in S
    BY <1>6, <1>10
  <2> QED
    BY <2>1, <2>2 DEF LevelIn, WeakOrder
<1>13. s \in SetToSeqs(S)
  BY <1>8 DEF SetToSeqs, n
<1>14. s \in OrdersOf(S, before)
  BY <1>8, <1>12, <1>13 DEF OrdersOf
<1> QED
  BY <1>4, <1>8, <1>11, <1>14

(* The pairs of selected runs in the order of the query (RunBefore).        *)
Sooner(q) ==
    {p \in Selected(Runs, q) \X Selected(Runs, q) : RunBefore(p[1], p[2], q.column, q.sort)}

(* Two selected runs are in order or level, and the order is the one that   *)
(* the query asks for.                                                      *)
LEMMA RunsOrdered ==
    ASSUME RulesInv, topic = "runs", NEW q \in RunQuestions
    PROVE  /\ IsFiniteSet(Selected(Runs, q)) /\ WeakOrder(Selected(Runs, q), Sooner(q))
           /\ \A r, o \in Selected(Runs, q) : <<r, o>> \in Sooner(q) <=> Ahead(r, o, q)
           /\ \A page : PagesOfRuns(Runs, q, page) =
                {Window(s, page) : s \in OrdersOf(Selected(Runs, q), Sooner(q))}
<1> DEFINE S == Selected(Runs, q)
           value(r) == r[q.column]
<1>1. IsFiniteSet(S) /\ \A r \in S : r.made \in Nat /\ r.filename \in Int /\ r.status \in Int
  <2>1. S \in SUBSET Runs
    BY DEF Selected
  <2> HIDE DEF S
  <2> QED
    BY <2>1, RunsTyped, FS_Subset
<1>2. q.column \in {"made", "filename", "status"}
  BY DEF RunQuestions
<1> HIDE DEF S
<1>3. ASSUME NEW r \in S PROVE value(r) \in Int /\ r.made \in Int
  <2>1. r.made \in Int /\ r.filename \in Int /\ r.status \in Int
    BY <1>1
  <2>2. CASE q.column = "made"
    BY <2>1, <2>2
  <2>3. CASE q.column = "filename"
    BY <2>1, <2>3
  <2>4. CASE q.column = "status"
    BY <2>1, <2>4
  <2> QED
    BY <1>2, <2>1, <2>2, <2>3, <2>4
<1>4. \A r, s \in S : <<r, s>> \in Sooner(q) <=>
         \/ IF q.sort = "asc" THEN value(r) < value(s) ELSE value(r) > value(s)
         \/ value(r) = value(s) /\ r.made > s.made
  BY DEF RunBefore, Precedes, Sooner, S
<1>5. \A r, s \in S : Ahead(r, s, q) <=>
         IF value(r) = value(s) THEN r.made > s.made
         ELSE IF q.sort = "asc" THEN value(r) < value(s) ELSE value(r) > value(s)
  BY DEF Ahead
<1> HIDE DEF value
<1>6. ASSUME NEW r \in S, NEW s \in S PROVE <<r, s>> \in Sooner(q) <=> Ahead(r, s, q)
  <2>1. value(r) \in Int /\ value(s) \in Int
    BY <1>3
  <2>2. CASE value(r) = value(s)
    <3>1. ~(value(r) < value(s)) /\ ~(value(r) > value(s))
      BY <2>1, <2>2
    <3> QED
      BY <1>4, <1>5, <2>2, <3>1
  <2>3. CASE value(r) # value(s)
    BY <1>4, <1>5, <2>3
  <2> QED
    BY <2>2, <2>3
<1>7. WeakOrder(S, Sooner(q))
  <2>1. ASSUME NEW x \in S, NEW y \in S, <<x, y>> \in Sooner(q) PROVE <<y, x>> \notin Sooner(q)
    BY <1>3, <1>4, <2>1
  <2>2. ASSUME NEW x \in S, NEW y \in S, NEW z \in S, <<x, z>> \in Sooner(q)
        PROVE  <<x, y>> \in Sooner(q) \/ <<y, z>> \in Sooner(q)
    BY <1>3, <1>4, <2>2
  <2> QED
    BY <2>1, <2>2 DEF WeakOrder
<1> QED
  BY <1>1, <1>6, <1>7 DEF PagesOfRuns, Sooner, S

(* Further on in a list is on no earlier page.                              *)
LEMMA PageOfGrows ==
    ASSUME NEW k \in Nat \ {0}, NEW l \in Nat \ {0}, k <= l
    PROVE  PageOf(k) \in Nat \ {0} /\ PageOf(k) <= PageOf(l)
<1> DEFINE a == (k - 1) \div PageSize
           b == (l - 1) \div PageSize
           c == (k - 1) % PageSize
           d == (l - 1) % PageSize
<1>1. PageSize \in Nat \ {0} /\ k - 1 \in Nat /\ l - 1 \in Nat
  BY PageSizeAssumption
<1>2. /\ a \in Nat /\ c \in 0..(PageSize - 1) /\ k - 1 = (a * PageSize) + c
      /\ b \in Nat /\ d \in 0..(PageSize - 1) /\ l - 1 = (b * PageSize) + d
  BY <1>1, Quotient
<1>3. PageOf(k) = a + 1 /\ PageOf(l) = b + 1
  BY DEF PageOf
<1> HIDE DEF a, b, c, d
<1>4. ~(b < a)
  <2> SUFFICES ASSUME b < a PROVE FALSE
    OBVIOUS
  <2>1. (b + 1) * PageSize <= a * PageSize /\ a * PageSize \in Nat
    <3>1. b + 1 \in Nat /\ b + 1 <= a /\ a <= a
      BY <1>2
    <3> QED
      BY <1>1, <1>2, <3>1, TimesGrows
  <2>2. (b + 1) * PageSize = (b * PageSize) + PageSize /\ b * PageSize \in Nat
    BY <1>1, <1>2
  <2> DEFINE x == a * PageSize
             y == b * PageSize
  <2>3. y + PageSize <= x /\ x \in Nat /\ y \in Nat /\ k - 1 = x + c /\ l - 1 = y + d
    BY <1>2, <2>1, <2>2
  <2> HIDE DEF x, y
  <2> QED
    BY <1>1, <1>2, <2>3
<1> QED
  BY <1>2, <1>3, <1>4

(* Each page of a list is full but the last one, which holds the rest, and  *)
(* is a part of the list.                                                   *)
LEMMA PageHolds ==
    ASSUME NEW T, NEW s \in Seq(T), NEW p \in 1..TotalPages(Len(s))
    PROVE  /\ p \in Nat \ {0} /\ Window(s, p) \in Seq(T)
           /\ Len(Window(s, p)) = IF p < TotalPages(Len(s)) THEN PageSize
                                  ELSE Len(s) - ((p - 1) * PageSize)
           /\ \A i \in 1..Len(Window(s, p)) : /\ ((p - 1) * PageSize) + i \in 1..Len(s)
                                              /\ Window(s, p)[i] = s[((p - 1) * PageSize) + i]
<1> DEFINE n == Len(s)
           m == TotalPages(n)
           a == (p - 1) * PageSize
           b == p * PageSize
<1>1. n \in Nat /\ PageSize \in Nat \ {0}
  BY PageSizeAssumption
<1>2. m \in Nat \ {0} /\ n <= m * PageSize /\ (n > 0 => (m - 1) * PageSize < n)
  BY <1>1, TotalPagesHold
<1>3. p \in Nat \ {0} /\ p <= m
  BY <1>2
<1>4. /\ Window(s, p) \in Seq(T)
      /\ Len(Window(s, p)) = IF b < n THEN PageSize ELSE IF a < n THEN n - a ELSE 0
      /\ \A i \in 1..Len(Window(s, p)) : Window(s, p)[i] = s[a + i]
  BY <1>3, WindowHolds
<1>5. a \in Nat /\ b = a + PageSize
  BY <1>1, <1>3
<1>6. CASE n = 0
  <2>1. m = 1
    <3>1. PageSize - 1 = (0 * PageSize) + (PageSize - 1) /\ PageSize - 1 \in Nat
          /\ PageSize - 1 \in 0..(PageSize - 1) /\ 0 \in Nat
      BY <1>1
    <3>2. (PageSize - 1) \div PageSize = 0
      BY <1>1, <3>1, Quotient
    <3>3. n + PageSize - 1 = PageSize - 1
      BY <1>1, <1>6
    <3> QED
      BY <3>2, <3>3 DEF TotalPages
  <2>2. p = 1
    BY <1>3, <2>1
  <2>3. a = 0
    BY <1>1, <2>2
  <2> HIDE DEF a, b, m, n
  <2> QED
    BY <1>1, <1>3, <1>4, <1>5, <1>6, <2>1, <2>2, <2>3 DEF a, n, m
<1>7. CASE n > 0 /\ p < m
  <2>1. p * PageSize <= (m - 1) * PageSize /\ p * PageSize \in Nat /\ (m - 1) * PageSize \in Nat
    <3>1. p \in Nat /\ m - 1 \in Nat /\ p <= m - 1 /\ m - 1 <= m - 1
      BY <1>2, <1>3, <1>7
    <3> HIDE DEF m
    <3> QED
      BY <1>1, <3>1, TimesGrows
  <2>2. b < n
    <3> DEFINE x == (m - 1) * PageSize
    <3>1. b <= x /\ x < n /\ b \in Nat /\ x \in Nat
      BY <1>2, <1>7, <2>1
    <3> HIDE DEF x, b, n
    <3> QED
      BY <1>1, <3>1
  <2> HIDE DEF a, b, m, n
  <2> QED
    BY SMTT(30), <1>1, <1>3, <1>4, <1>5, <1>7, <2>2 DEF a, n, m
<1>8. CASE n > 0 /\ p = m
  <2>1. ~(b < n) /\ a < n
    <3>1. n <= b /\ a < n /\ b \in Int
      BY <1>1, <1>2, <1>3, <1>8
    <3> HIDE DEF a, b, n
    <3> QED
      BY <1>1, <3>1
  <2> HIDE DEF a, b, m, n
  <2>2. Len(Window(s, p)) = n - a /\ ~(p < m)
    BY <1>2, <1>3, <1>4, <1>8, <2>1
  <2>3. \A i \in 1..Len(Window(s, p)) : a + i \in 1..n /\ Window(s, p)[i] = s[a + i]
    BY <1>1, <1>4, <1>5, <2>1, <2>2
  <2> QED
    BY <1>3, <1>4, <2>2, <2>3 DEF a, n, m
<1>9. n = 0 \/ (n > 0 /\ p < m) \/ (n > 0 /\ p = m)
  <2> HIDE DEF n, m
  <2> QED
    BY <1>1, <1>2, <1>3
<1> QED
  BY <1>6, <1>7, <1>8, <1>9, Zenon

(* The pages of the runs that tie with one, and its place in any order.     *)
LEMMA PagesOfTied ==
    ASSUME RulesInv, topic = "runs", NEW q \in RunQuestions, NEW r \in Selected(Runs, q)
    PROVE  LET S == Selected(Runs, q)
               a == Place(S, Sooner(q), r) + 1
               b == Reach(S, Sooner(q), r)
           IN /\ FirstPage(S, r, q) = PageOf(a) /\ LastPage(S, r, q) = PageOf(b)
              /\ a \in Nat \ {0} /\ b \in Nat \ {0} /\ a <= b
<1> DEFINE S == Selected(Runs, q)
           a == Place(S, Sooner(q), r) + 1
           b == Reach(S, Sooner(q), r)
           below == {o \in S : <<o, r>> \in Sooner(q)}
           reach == {o \in S : <<r, o>> \notin Sooner(q)}
<1>1. /\ IsFiniteSet(S) /\ WeakOrder(S, Sooner(q))
      /\ \A x, y \in S : <<x, y>> \in Sooner(q) <=> Ahead(x, y, q)
  BY RunsOrdered
<1> HIDE DEF S
<1>2. /\ below = {o \in S : Ahead(o, r, q)} /\ reach = {o \in S : ~Ahead(r, o, q)}
  BY <1>1 DEF S
<1>3. FirstPage(S, r, q) = PageOf(a) /\ LastPage(S, r, q) = PageOf(b)
  BY <1>2 DEF FirstPage, LastPage, Place, Reach
<1>4. below \in SUBSET reach /\ reach \in SUBSET S /\ r \in reach /\ r \notin below /\ r \in S
  BY <1>1 DEF WeakOrder, S
<1> HIDE DEF below, reach
<1>5. /\ IsFiniteSet(reach) /\ IsFiniteSet(below)
      /\ Cardinality(below) \in Nat /\ Cardinality(reach) \in Nat
  BY <1>1, <1>4, FS_Subset, FS_CardinalityType
<1>6. below \cup {r} \in SUBSET reach /\ Cardinality(below \cup {r}) = Cardinality(below) + 1
  BY <1>4, <1>5, FS_AddElement
<1>7. Cardinality(below \cup {r}) <= Cardinality(reach)
  BY <1>5, <1>6, FS_Subset
<1>8. a = Cardinality(below) + 1 /\ b = Cardinality(reach)
  BY DEF Place, Reach, below, reach
<1> HIDE DEF a, b
<1>9. a \in Nat \ {0} /\ b \in Nat \ {0} /\ a <= b
  BY <1>5, <1>6, <1>7, <1>8
<1> QED
  BY <1>3, <1>9 DEF S, a, b

(* In any order a run is on one of the pages of those it ties with.         *)
LEMMA RunsInReach ==
    ASSUME RulesInv, topic = "runs", NEW q \in RunQuestions,
           NEW s \in OrdersOf(Selected(Runs, q), Sooner(q)), NEW k \in 1..Len(s)
    PROVE  LET S == Selected(Runs, q)
           IN s[k] \in S /\ PageOf(k) \in FirstPage(S, s[k], q)..LastPage(S, s[k], q)
<1> DEFINE S == Selected(Runs, q)
           r == s[k]
           a == Place(S, Sooner(q), r) + 1
           b == Reach(S, Sooner(q), r)
<1>1. IsFiniteSet(S) /\ WeakOrder(S, Sooner(q))
  BY RunsOrdered
<1>2. r \in S /\ Len(s) \in Nat
  BY <1>1, OrderNamesAll
<1>3. k \in a..b
  BY <1>1, PlaceOfTied
<1>4. /\ FirstPage(S, r, q) = PageOf(a) /\ LastPage(S, r, q) = PageOf(b)
      /\ a \in Nat \ {0} /\ b \in Nat \ {0}
  BY <1>2, PagesOfTied
<1> HIDE DEF a, b, r
<1>5. PageOf(a) <= PageOf(k) /\ PageOf(k) <= PageOf(b) /\ PageOf(a) \in Int /\ PageOf(b) \in Int /\ PageOf(k) \in Int
  <2>1. k \in Nat \ {0} /\ a <= k /\ k <= b
    BY <1>2, <1>3, <1>4
  <2>2. k <= k /\ b <= b
    BY <1>4, <2>1
  <2> QED
    BY <1>4, <2>1, <2>2, PageOfGrows
<1> QED
  BY <1>2, <1>4, <1>5 DEF S, r

(* Every page is what it should be, however the runs that tie are ordered.  *)
LEMMA RunsInPlace == RulesInv => EachRunInItsPlace
<1> SUFFICES ASSUME RulesInv, topic = "runs", NEW q \in RunQuestions,
                    NEW p \in 1..TotalPages(Cardinality(Selected(Runs, q)))
             PROVE  LET chosen   == Selected(Runs, q)
                        total    == Cardinality(chosen)
                        first(r) == FirstPage(chosen, r, q)
                        last(r)  == LastPage(chosen, r, q)
                    IN /\ PagesOfRuns(Runs, q, p) # {}
                       /\ \A w \in PagesOfRuns(Runs, q, p) :
                            /\ Len(w) = IF p < TotalPages(total) THEN PageSize
                                        ELSE total - (p - 1) * PageSize
                            /\ \A i, j \in 1..Len(w) : i < j => w[i] # w[j] /\ ~Ahead(w[j], w[i], q)
                            /\ Range(w) \subseteq {r \in chosen : p \in first(r)..last(r)}
                            /\ {r \in chosen : first(r) = p /\ last(r) = p} \subseteq Range(w)
  BY DEF EachRunInItsPlace, About
<1> DEFINE S == Selected(Runs, q)
           total == Cardinality(S)
           first(r) == FirstPage(S, r, q)
           last(r) == LastPage(S, r, q)
<1>1. /\ IsFiniteSet(S) /\ WeakOrder(S, Sooner(q))
      /\ \A x, y \in S : <<x, y>> \in Sooner(q) <=> Ahead(x, y, q)
      /\ PagesOfRuns(Runs, q, p) = {Window(s, p) : s \in OrdersOf(S, Sooner(q))}
  BY RunsOrdered
<1>2. PagesOfRuns(Runs, q, p) # {}
  BY <1>1, WeakOrderExists
<1>3. ASSUME NEW s \in OrdersOf(S, Sooner(q)), NEW w, w = Window(s, p)
      PROVE  /\ Len(w) = IF p < TotalPages(total) THEN PageSize ELSE total - (p - 1) * PageSize
             /\ \A i, j \in 1..Len(w) : i < j => w[i] # w[j] /\ ~Ahead(w[j], w[i], q)
             /\ Range(w) \subseteq {r \in S : p \in first(r)..last(r)}
             /\ {r \in S : first(r) = p /\ last(r) = p} \subseteq Range(w)
  <2>1. /\ s \in Seq(S) /\ Len(s) = total /\ Range(s) = S /\ Len(s) \in Nat
        /\ \A i, j \in 1..Len(s) : s[i] = s[j] => i = j
        /\ \A i, j \in 1..Len(s) : i < j => <<s[j], s[i]>> \notin Sooner(q)
    BY <1>1, OrderNamesAll
  <2> DEFINE c == (p - 1) * PageSize
  <2>2. /\ p \in Nat \ {0} /\ w \in Seq(S)
        /\ Len(w) = IF p < TotalPages(total) THEN PageSize ELSE total - c
        /\ \A i \in 1..Len(w) : c + i \in 1..Len(s) /\ w[i] = s[c + i]
    BY <1>3, <2>1, PageHolds
  <2>3. c \in Nat
    BY <2>2, PageSizeAssumption
  <2>4. \A k \in 1..Len(s) : s[k] \in S /\ PageOf(k) \in first(s[k])..last(s[k])
    BY RunsInReach
  <2> HIDE DEF S, total, first, last
  <2>5. /\ \A k \in 1..Len(s) : PageOf(k) = p =>
             PlaceOnPage(k) \in 1..Len(w) /\ w[PlaceOnPage(k)] = s[k]
        /\ \A j \in 1..Len(w) : \E k \in 1..Len(s) : PageOf(k) = p /\ w[j] = s[k]
    <3>1. s \in Seq(S) /\ p \in Nat \ {0}
      BY <2>1, <2>2
    <3>2. \A k \in 1..Len(s) : /\ PlaceOnPage(k) \in 1..Len(Window(s, PageOf(k)))
                                /\ Window(s, PageOf(k))[PlaceOnPage(k)] = s[k]
      BY <3>1, OnItsPage
    <3>3. \A j \in 1..Len(Window(s, p)) :
             \E k \in 1..Len(s) : PageOf(k) = p /\ Window(s, p)[j] = s[k]
      BY <3>1, OnItsPage
    <3> QED
      BY <1>3, <3>2, <3>3
  <2>6. DOMAIN w = 1..Len(w) /\ Len(w) \in Nat
    BY <2>2
  <2>7. ASSUME NEW i \in 1..Len(w), NEW j \in 1..Len(w), i < j
        PROVE  w[i] # w[j] /\ ~Ahead(w[j], w[i], q)
    <3>1. c + i \in 1..Len(s) /\ c + j \in 1..Len(s) /\ w[i] = s[c + i] /\ w[j] = s[c + j]
      BY <2>2
    <3>2. i \in Nat /\ j \in Nat
      BY <2>6
    <3> HIDE DEF c
    <3>3. c + i < c + j
      BY <2>3, <2>7, <3>2
    <3>4. s[c + i] # s[c + j] /\ <<s[c + j], s[c + i]>> \notin Sooner(q)
      BY <2>1, <2>3, <3>1, <3>3
    <3>5. s[c + i] \in S /\ s[c + j] \in S
      BY <2>1, <3>1
    <3> QED
      BY <1>1, <3>1, <3>4, <3>5 DEF S
  <2>8. ASSUME NEW r \in Range(w) PROVE r \in S /\ p \in first(r)..last(r)
    <3>1. PICK j \in 1..Len(w) : r = w[j]
      BY <2>6 DEF Range
    <3>2. PICK k \in 1..Len(s) : PageOf(k) = p /\ w[j] = s[k]
      BY <2>5
    <3> QED
      BY <2>4, <3>1, <3>2
  <2>9. ASSUME NEW r \in S, first(r) = p, last(r) = p PROVE r \in Range(w)
    <3>1. PICK k \in 1..Len(s) : s[k] = r
      BY <2>1 DEF Range
    <3>2. PageOf(k) = p
      BY <2>2, <2>4, <2>9, <3>1
    <3> QED
      BY <2>5, <2>6, <3>1, <3>2 DEF Range
  <2> QED
    BY <2>2, <2>7, <2>8, <2>9 DEF c
<1>4. ASSUME NEW w \in PagesOfRuns(Runs, q, p)
      PROVE  /\ Len(w) = IF p < TotalPages(total) THEN PageSize ELSE total - (p - 1) * PageSize
             /\ \A i, j \in 1..Len(w) : i < j => w[i] # w[j] /\ ~Ahead(w[j], w[i], q)
             /\ Range(w) \subseteq {r \in S : p \in first(r)..last(r)}
             /\ {r \in S : first(r) = p /\ last(r) = p} \subseteq Range(w)
  <2>1. PICK s \in OrdersOf(S, Sooner(q)) : w = Window(s, p)
    BY <1>1
  <2> QED
    BY <1>3, <2>1
<1> QED
  BY <1>2, <1>4 DEF S, total, first, last

(* A run that stands at place k of an order is on the page of k and on no   *)
(* other.                                                                   *)
LEMMA OnOnePage ==
    ASSUME RulesInv, topic = "runs", NEW q \in RunQuestions,
           NEW s \in OrdersOf(Selected(Runs, q), Sooner(q)), NEW k \in 1..Len(s), NEW p \in Nat \ {0}
    PROVE  s[k] \in Range(Window(s, p)) <=> PageOf(k) = p
<1> DEFINE S == Selected(Runs, q)
<1>1. IsFiniteSet(S)
  BY RunsOrdered
<1>2. s \in Seq(S) /\ \A i, j \in 1..Len(s) : s[i] = s[j] => i = j
  BY <1>1, OrderNamesAll
<1> HIDE DEF S
<1>3. /\ \A i \in 1..Len(s) : /\ PlaceOnPage(i) \in 1..Len(Window(s, PageOf(i)))
                              /\ Window(s, PageOf(i))[PlaceOnPage(i)] = s[i]
      /\ Window(s, p) \in Seq(S)
      /\ \A j \in 1..Len(Window(s, p)) : \E i \in 1..Len(s) : PageOf(i) = p /\ Window(s, p)[j] = s[i]
  BY <1>2, OnItsPage
<1>4. DOMAIN Window(s, p) = 1..Len(Window(s, p))
  BY <1>3
<1>5. ASSUME PageOf(k) = p PROVE s[k] \in Range(Window(s, p))
  BY <1>3, <1>4, <1>5 DEF Range
<1>6. ASSUME s[k] \in Range(Window(s, p)) PROVE PageOf(k) = p
  <2>1. PICK j \in 1..Len(Window(s, p)) : s[k] = Window(s, p)[j]
    BY <1>4, <1>6 DEF Range
  <2>2. PICK i \in 1..Len(s) : PageOf(i) = p /\ Window(s, p)[j] = s[i]
    BY <1>3
  <2> QED
    BY <1>2, <2>1, <2>2
<1> QED
  BY <1>5, <1>6

(* Runs that tie across two pages may be on either.                         *)
LEMMA TiedRunsMove == RulesInv => TiesMove
<1> SUFFICES ASSUME RulesInv, topic = "runs", NEW q \in RunQuestions, NEW r \in Selected(Runs, q),
                    NEW p, FirstPage(Selected(Runs, q), r, q) # LastPage(Selected(Runs, q), r, q),
                    p \in {FirstPage(Selected(Runs, q), r, q), LastPage(Selected(Runs, q), r, q)}
             PROVE  /\ \E w \in PagesOfRuns(Runs, q, p) : r \in Range(w)
                    /\ \E w \in PagesOfRuns(Runs, q, p) : r \notin Range(w)
  BY DEF TiesMove, About
<1> DEFINE S == Selected(Runs, q)
           a == Place(S, Sooner(q), r) + 1
           b == Reach(S, Sooner(q), r)
<1>1. /\ IsFiniteSet(S) /\ WeakOrder(S, Sooner(q))
      /\ PagesOfRuns(Runs, q, p) = {Window(s, p) : s \in OrdersOf(S, Sooner(q))}
  BY RunsOrdered
<1>2. /\ FirstPage(S, r, q) = PageOf(a) /\ LastPage(S, r, q) = PageOf(b)
      /\ a \in Nat \ {0} /\ b \in Nat \ {0} /\ a <= b
  BY PagesOfTied
<1>3. ASSUME NEW k \in a..b PROVE \E s \in OrdersOf(S, Sooner(q)) : k \in 1..Len(s) /\ s[k] = r
  BY <1>1, MayStandAt
<1> HIDE DEF a, b
<1>4. a \in a..b /\ b \in a..b
  BY <1>2
<1>5. p \in Nat \ {0}
  <2>1. a <= a /\ b <= b
    BY <1>2
  <2>2. PageOf(a) \in Nat \ {0} /\ PageOf(b) \in Nat \ {0}
    BY <1>2, <2>1, PageOfGrows
  <2> QED
    BY <1>2, <2>2
<1>6. ASSUME NEW k \in a..b
      PROVE  \E w \in PagesOfRuns(Runs, q, p) : r \in Range(w) <=> PageOf(k) = p
  <2>1. PICK s \in OrdersOf(S, Sooner(q)) : k \in 1..Len(s) /\ s[k] = r
    BY <1>3
  <2>2. r \in Range(Window(s, p)) <=> PageOf(k) = p
    BY <1>5, <2>1, OnOnePage
  <2> QED
    BY <1>1, <2>1, <2>2
<1>7. \E k \in a..b : PageOf(k) = p
  BY <1>2, <1>4
<1>8. \E k \in a..b : PageOf(k) # p
  BY <1>2, <1>4
<1> QED
  BY <1>6, <1>7, <1>8

(* A run is listed on its day.                                              *)
LEMMA RunsByDay == RulesInv => RunsOnTheirDays
<1> SUFFICES ASSUME RulesInv, topic = "runs", NEW r \in Runs, NEW d \in RunDays
             PROVE  r \in Selected(Runs, [AnyDay EXCEPT !.from = d, !.to = d]) <=> r.made \div DayTicks = d
  BY DEF RunsOnTheirDays, About
<1> DEFINE q == [AnyDay EXCEPT !.from = d, !.to = d]
           m == r.made
<1>1. m \in Nat /\ DayTicks \in Nat \ {0}
  BY RunsTyped, DayAssumption
<1>2. d \in Nat
  <2>1. PICK x \in ItemsOf["runs"] : d = x.made \div DayTicks
    BY DEF RunDays
  <2>2. x.made \in Nat
    BY ItemsAssumption
  <2> QED
    BY <1>1, <2>1, <2>2, Quotient
<1>3. d # None
  BY <1>2, RulesAssumption
<1>4. q.status = None /\ q.from = d /\ q.to = d
  BY DEF AnyDay
<1> HIDE DEF q
<1>5. r \in Selected(Runs, q) <=> m >= d * DayTicks /\ m < (d * DayTicks) + DayTicks
  BY <1>3, <1>4 DEF Selected, MadeWithin
<1>6. d * DayTicks \in Nat
  BY <1>1, <1>2
<1> HIDE DEF m
<1>7. ASSUME m >= d * DayTicks, m < (d * DayTicks) + DayTicks PROVE m \div DayTicks = d
  <2> DEFINE b == d * DayTicks
             rest == m - b
  <2>1. rest \in 0..(DayTicks - 1) /\ m = b + rest
    <3> HIDE DEF b
    <3> QED
      BY <1>1, <1>6, <1>7 DEF b
  <2> HIDE DEF rest
  <2> QED
    BY <1>1, <1>2, <2>1, Quotient
<1>8. ASSUME m \div DayTicks = d PROVE m >= d * DayTicks /\ m < (d * DayTicks) + DayTicks
  <2>1. m = (d * DayTicks) + (m % DayTicks) /\ m % DayTicks \in 0..(DayTicks - 1)
    BY <1>1, <1>8, Quotient
  <2> DEFINE rest == m % DayTicks
             b == d * DayTicks
  <2> HIDE DEF rest, b
  <2>2. m = b + rest /\ rest \in 0..(DayTicks - 1) /\ b \in Nat
    BY <1>6, <2>1 DEF rest, b
  <2>3. m >= b /\ m < b + DayTicks
    BY <1>1, <2>2
  <2> QED
    BY <2>3 DEF b
<1> QED
  BY <1>5, <1>7, <1>8 DEF q, m

(* Wherever a reader of a list with runs lands, there are runs (Landing).   *)
LEMMA PagesLand == RulesInv => LandsOnRows
<1> SUFFICES ASSUME RulesInv, topic = "runs", NEW q \in RunQuestions,
                    NEW p \in 1..(MaxItems["runs"] + 1), Selected(Runs, q) # {},
                    NEW w \in PagesOfRuns(Runs, q, Landing(Cardinality(Selected(Runs, q)), p))
             PROVE  w # <<>>
  BY DEF LandsOnRows, About
<1> DEFINE S == Selected(Runs, q)
           total == Cardinality(S)
           page == Landing(total, p)
<1>1. PICK s : s \in Seq(S) /\ Len(s) = total /\ w = Window(s, page)
  <2>1. IsFiniteSet(S)
    BY RunsOrdered
  <2>2. PICK s \in OrdersOf(S, Sooner(q)) : w = Window(s, page)
    BY RunsOrdered
  <2>3. s \in Seq(S) /\ Len(s) = total
    BY <2>1, OrderNamesAll
  <2> QED
    BY <2>2, <2>3
<1>2. total \in Nat /\ total > 0
  <2>1. IsFiniteSet(S)
    BY RunsOrdered
  <2> HIDE DEF S
  <2>2. total \in Nat /\ (total = 0 <=> S = {})
    BY <2>1, FS_CardinalityType, FS_EmptySet
  <2>3. S # {}
    BY DEF S
  <2> QED
    BY <2>2, <2>3
<1> HIDE DEF S, total
<1>3. /\ PageSize \in Nat \ {0} /\ TotalPages(total) \in Nat \ {0}
      /\ (TotalPages(total) - 1) * PageSize < total
  BY <1>2, PageSizeAssumption, TotalPagesHold
<1>4. page \in 1..TotalPages(total)
  <2>1. p \in Nat \ {0}
    BY RulesAssumption DEF Topics
  <2> QED
    BY <1>2, <1>3, <2>1 DEF Landing
<1>5. w = Window(s, page)
  BY <1>1
<1> HIDE DEF page
<1>6. (page - 1) * PageSize < Len(s)
  <2> DEFINE a == page - 1
             b == TotalPages(total) - 1
  <2>1. a \in Nat /\ b \in Nat /\ a <= b
    BY <1>3, <1>4
  <2>2. b * PageSize < total
    BY <1>3
  <2> HIDE DEF a, b
  <2>3. a * PageSize <= b * PageSize /\ a * PageSize \in Nat /\ b * PageSize \in Nat
    BY <1>3, <2>1, TimesGrows
  <2>4. a * PageSize < total
    BY <1>2, <2>2, <2>3
  <2> QED
    BY <1>1, <2>4 DEF a
<1>7. Len(Window(s, page)) # 0
  <2> DEFINE a == (page - 1) * PageSize
             b == page * PageSize
  <2>1. page \in Nat \ {0}
    BY <1>3, <1>4
  <2>2. Len(Window(s, page)) = IF b < Len(s) THEN PageSize ELSE IF a < Len(s) THEN Len(s) - a ELSE 0
    BY <1>1, <2>1, WindowHolds
  <2>3. a \in Nat /\ a < Len(s) /\ Len(s) \in Nat
    BY <1>1, <1>2, <1>3, <1>6, <2>1
  <2> HIDE DEF a, b
  <2> QED
    BY <1>3, <2>2, <2>3
<1>8. Len(<<>>) = 0
  OBVIOUS
<1> QED
  BY <1>5, <1>7, <1>8

(* A failed run has its reason.                                             *)
LEMMA Explained == RulesInv => FailureExplained
<1> SUFFICES ASSUME RulesInv, topic = "steps"
             PROVE  LET said(which) == UNION {ToSet(items[i].lines) : i \in which}
                        failed      == {i \in DOMAIN items : items[i].status = "failed"}
                        why         == FirstError(items)
                    IN /\ said(failed) # {} => why \in said(failed)
                       /\ said(failed) = {} /\ said(DOMAIN items) # {} => why \in said(DOMAIN items)
  BY DEF FailureExplained, About
<1> DEFINE said(which) == UNION {ToSet(items[i].lines) : i \in which}
           failed == {i \in DOMAIN items : items[i].status = "failed"}
           withLines == WithLines(items, failed)
           some == IF withLines # {} THEN withLines ELSE WithLines(items, DOMAIN items)
<1>1. /\ IsFiniteSet(DOMAIN items) /\ DOMAIN items \in SUBSET Int
      /\ \A i \in DOMAIN items : items[i].lines \in Seq(STRING)
  <2>1. items \in Seq(ItemsOf["steps"])
    BY DEF RulesInv, Typed
  <2>2. DOMAIN items = 1..Len(items) /\ Len(items) \in Nat /\ \A i \in 1..Len(items) : items[i] \in ItemsOf["steps"]
    BY <2>1
  <2>3. IsFiniteSet(1..Len(items)) /\ 1..Len(items) \in SUBSET Int
    BY <2>2, FS_Interval
  <2>4. \A x \in ItemsOf["steps"] : x.lines \in Seq(STRING)
    BY ItemsAssumption
  <2> QED
    BY <2>2, <2>3, <2>4
<1>2. FirstError(items) = IF some # {} THEN items[Min(some)].lines[1] ELSE "No details available"
  BY DEF FirstError
<1>3. ASSUME NEW i \in DOMAIN items
      PROVE  /\ items[i].lines # <<>> => items[i].lines[1] \in ToSet(items[i].lines)
             /\ items[i].lines = <<>> => ToSet(items[i].lines) = {}
  <2>1. items[i].lines # <<>> => Len(items[i].lines) \in Nat \ {0}
    BY <1>1, EmptySeq
  <2>2. DOMAIN items[i].lines = 1..Len(items[i].lines)
    BY <1>1
  <2> QED
    BY <2>1, <2>2 DEF ToSet
<1>4. ASSUME NEW which \in SUBSET (DOMAIN items)
      PROVE  /\ WithLines(items, which) = {} <=> said(which) = {}
             /\ WithLines(items, which) # {} =>
                  items[Min(WithLines(items, which))].lines[1] \in said(which)
  <2>1. WithLines(items, which) \in SUBSET which /\ \A i \in WithLines(items, which) : items[i].lines # <<>>
    BY DEF WithLines
  <2>2. ASSUME WithLines(items, which) = {} PROVE said(which) = {}
    BY <1>3, <2>2 DEF WithLines
  <2>3. ASSUME WithLines(items, which) # {}
        PROVE  items[Min(WithLines(items, which))].lines[1] \in said(which)
    <3> DEFINE W == WithLines(items, which)
    <3>1. W \in SUBSET Int /\ IsFiniteSet(W)
      BY <1>1, <2>1, FS_Subset
    <3>2. Min(W) \in W
      BY <2>3, <3>1, MinHolds
    <3> HIDE DEF W
    <3>3. Min(W) \in which /\ items[Min(W)].lines # <<>>
      BY <2>1, <3>2 DEF W
    <3>4. items[Min(W)].lines[1] \in ToSet(items[Min(W)].lines)
      BY <1>3, <3>3
    <3> QED
      BY <3>3, <3>4 DEF W
  <2> QED
    BY <2>2, <2>3
<1>5. failed \in SUBSET (DOMAIN items)
  OBVIOUS
<1> HIDE DEF said, failed
<1> QED
  BY <1>2, <1>4, <1>5 DEF said, failed

(* What a search of a log finds is listed in the order of the log.          *)
LEMMA FoundInOrder ==
    ASSUME RulesInv, topic = "lines", NEW hits
    PROVE  LET found == HitsIn(items, hits)
           IN /\ found \in SUBSET Int /\ IsFiniteSet(found) /\ Cardinality(found) \in Nat
              /\ FilterLogLines(items, hits) \in Seq(ItemsOf["lines"])
              /\ Len(FilterLogLines(items, hits)) = Cardinality(found)
              /\ \A i \in found : /\ Rank(found, i) \in 1..Cardinality(found)
                                  /\ FilterLogLines(items, hits)[Rank(found, i)] = items[i]
              /\ \A k \in 1..Cardinality(found) : \E i \in found : Rank(found, i) = k
<1> DEFINE found == HitsIn(items, hits)
           n == Cardinality(found)
           at == Ascending(found)
<1>1. /\ DOMAIN items = 1..Len(items) /\ IsFiniteSet(DOMAIN items)
      /\ \A i \in DOMAIN items : items[i] \in ItemsOf["lines"] /\ i \in Int
  <2>1. items \in Seq(ItemsOf["lines"])
    BY DEF RulesInv, Typed
  <2>2. DOMAIN items = 1..Len(items) /\ Len(items) \in Nat /\ \A i \in 1..Len(items) : items[i] \in ItemsOf["lines"]
    BY <2>1
  <2>3. IsFiniteSet(1..Len(items)) /\ \A i \in 1..Len(items) : i \in Int
    BY <2>2, FS_Interval
  <2> QED
    BY <2>2, <2>3
<1>2. found \in SUBSET (DOMAIN items)
  BY DEF HitsIn
<1> HIDE DEF found
<1>3. found \in SUBSET Int /\ IsFiniteSet(found)
  BY <1>1, <1>2, FS_Subset
<1>4. /\ n \in Nat
      /\ at \in [1..n -> found]
      /\ \A i \in found : Rank(found, i) \in 1..n /\ at[Rank(found, i)] = i
      /\ \A k \in 1..n : Rank(found, at[k]) = k
  BY <1>3, AscendingHolds
<1> HIDE DEF n, at
<1>5. FilterLogLines(items, hits) = [k \in 1..n |-> items[at[k]]]
  BY <1>4 DEF FilterLogLines, found, at
<1>6. \A k \in 1..n : at[k] \in found /\ items[at[k]] \in ItemsOf["lines"]
  BY <1>1, <1>2, <1>4
<1>7. FilterLogLines(items, hits) \in Seq(ItemsOf["lines"]) /\ Len(FilterLogLines(items, hits)) = n
  BY <1>4, <1>5, <1>6
<1>8. \A i \in found : FilterLogLines(items, hits)[Rank(found, i)] = items[i]
  BY <1>4, <1>5
<1>9. \A k \in 1..n : \E i \in found : Rank(found, i) = k
  BY <1>4, <1>6
<1> QED
  BY <1>3, <1>4, <1>7, <1>8, <1>9 DEF found, n

(* Every line that is found is on its page, and no other line is.           *)
LEMMA AllFound == RulesInv => SearchPagesComplete
<1> SUFFICES ASSUME RulesInv, topic = "lines", NEW hits \in SUBSET ItemsOf["lines"]
             PROVE  LET found   == HitsIn(items, hits)
                        last    == TotalPages(LogPage(items, hits, 1).total)
                        page(p) == LogPage(items, hits, p).log_lines
                        on(i)   == ((Rank(found, i) - 1) \div PageSize) + 1
                        at(i)   == ((Rank(found, i) - 1) % PageSize) + 1
                    IN /\ \A i \in found : on(i) \in 1..last /\ page(on(i))[at(i)] = items[i]
                       /\ \A p \in 1..last : DOMAIN page(p) = {at(i) : i \in {j \in found : on(j) = p}}
  BY DEF SearchPagesComplete, About
<1> DEFINE found == HitsIn(items, hits)
           s == FilterLogLines(items, hits)
           last == TotalPages(LogPage(items, hits, 1).total)
           page(p) == LogPage(items, hits, p).log_lines
           on(i)   == PageOf(Rank(found, i))
           at(i)   == PlaceOnPage(Rank(found, i))
<1>1. /\ s \in Seq(ItemsOf["lines"]) /\ Len(s) = Cardinality(found)
      /\ \A i \in found : Rank(found, i) \in 1..Len(s) /\ s[Rank(found, i)] = items[i]
      /\ \A k \in 1..Len(s) : \E i \in found : Rank(found, i) = k
  BY FoundInOrder
<1>2. last = TotalPages(Len(s)) /\ \A p : page(p) = Window(s, p)
  BY DEF LogPage
<1> HIDE DEF found, s, last, page
<1>3. /\ Len(s) \in Nat /\ last \in Nat \ {0}
      /\ \A k \in 1..Len(s) :
           /\ PageOf(k) \in 1..last /\ PlaceOnPage(k) \in 1..PageSize
           /\ PlaceOnPage(k) \in 1..Len(Window(s, PageOf(k)))
           /\ Window(s, PageOf(k))[PlaceOnPage(k)] = s[k]
      /\ \A p \in Nat \ {0} :
           /\ Window(s, p) \in Seq(ItemsOf["lines"])
           /\ \A j \in 1..Len(Window(s, p)) :
                \E k \in 1..Len(s) : PageOf(k) = p /\ PlaceOnPage(k) = j /\ Window(s, p)[j] = s[k]
  BY <1>1, <1>2, OnItsPage, SMTT(30)
<1>4. ASSUME NEW i \in found PROVE on(i) \in 1..last /\ page(on(i))[at(i)] = items[i]
  BY <1>1, <1>2, <1>3
<1>5. ASSUME NEW p \in 1..last PROVE DOMAIN page(p) = {at(i) : i \in {j \in found : on(j) = p}}
  <2>1. p \in Nat \ {0}
    BY <1>3
  <2>2. DOMAIN page(p) = 1..Len(Window(s, p))
    BY <1>2, <1>3, <2>1
  <2>3. ASSUME NEW j \in 1..Len(Window(s, p)) PROVE \E i \in found : on(i) = p /\ at(i) = j
    <3>1. PICK k \in 1..Len(s) : PageOf(k) = p /\ PlaceOnPage(k) = j
      BY <1>3, <2>1
    <3>2. PICK i \in found : Rank(found, i) = k
      BY <1>1
    <3> QED
      BY <3>1, <3>2
  <2>4. ASSUME NEW i \in found, on(i) = p PROVE at(i) \in 1..Len(Window(s, p))
    BY <1>1, <1>3, <2>4
  <2> HIDE DEF on, at
  <2> QED
    BY <2>2, <2>3, <2>4
<1> QED
  BY <1>4, <1>5 DEF found, s, last, page, PageOf, PlaceOnPage

(* Of any log the pages leave nothing out and show nothing twice; of any    *)
(* runs, too, but for those that tie across two pages, which may be shown   *)
(* twice or never (list_user_processing_runs, paginate_log_lines).          *)
THEOREM WhatIsListedIsRight == RulesSpec => []RunsListedRight
<1>1. RulesInv => RunsListedRight
  BY RunsInPlace, TiedRunsMove, RunsByDay, PagesLand, Explained, AllFound DEF RunsListedRight
<1> QED
  BY <1>1, RulesInvariance, PTL

-----------------------------------------------------------------------------
(* Folder paths *)

(* Each number is greater than those before it.                             *)
Increasing(s, n) == \A k, l \in 1..n : k < l => s[k] < s[l]

(* An increasing list of the numbers of a set is Ascending.                 *)
LEMMA AscendingIs ==
    ASSUME NEW S \in SUBSET Int, IsFiniteSet(S), NEW s \in [1..Cardinality(S) -> S],
           Increasing(s, Cardinality(S))
    PROVE  s = Ascending(S)
<1> DEFINE n == Cardinality(S)
           before == {x \in S \X S : x[1] < x[2]}
           a == Ascending(S)
<1>1. \A x, y \in S : <<x, y>> \in before <=> x < y
  OBVIOUS
<1>2. \A x \in S : x \in Int
  OBVIOUS
<1>3. n \in Nat /\ a \in [1..n -> S] /\ Increasing(a, n)
  BY AscendingHolds DEF Increasing
<1> HIDE DEF n, a, before
<1>5. ASSUME NEW t \in [1..n -> S], Increasing(t, n)
      PROVE  t \in OrdersOf(S, before)
  <2>1. \A k \in 1..n : t[k] \in S /\ t[k] \in Int
    BY <1>2, <1>5
  <2>2. \A k, l \in 1..n : k # l => t[k] # t[l]
    <3> SUFFICES ASSUME NEW k \in 1..n, NEW l \in 1..n, k # l PROVE t[k] # t[l]
      OBVIOUS
    <3>1. k < l \/ l < k
      BY <1>3
    <3>2. t[k] < t[l] \/ t[l] < t[k]
      BY <1>5, <3>1 DEF Increasing
    <3> QED
      BY <2>1, <3>2
  <2>3. \A k, l \in 1..n : k < l => <<t[l], t[k]>> \notin before
    <3> SUFFICES ASSUME NEW k \in 1..n, NEW l \in 1..n, k < l PROVE <<t[l], t[k]>> \notin before
      OBVIOUS
    <3>1. t[k] < t[l] /\ t[k] \in Int /\ t[l] \in Int
      BY <1>5, <2>1 DEF Increasing
    <3>2. ~(t[l] < t[k])
      BY <3>1
    <3> QED
      BY <1>1, <2>1, <3>2
  <2>4. Len(t) = n
    BY <1>3
  <2>5. t \in SetToSeqs(S)
    BY <2>2 DEF SetToSeqs, n
  <2> QED
    BY <2>3, <2>4, <2>5 DEF OrdersOf
<1>6. s \in OrdersOf(S, before) /\ a \in OrdersOf(S, before)
  BY <1>3, <1>5 DEF n
<1>7. NoTies(S, before)
  <2>1. ASSUME NEW x \in S, NEW y \in S, x # y PROVE <<x, y>> \in before \/ <<y, x>> \in before
    <3>1. x < y \/ y < x
      BY <1>2, <2>1
    <3> QED
      BY <1>1, <3>1
  <2>2. ASSUME NEW x \in S, NEW y \in S, <<x, y>> \in before PROVE <<y, x>> \notin before
    <3>1. ~(y < x)
      BY <1>1, <1>2, <2>2
    <3> QED
      BY <1>1, <3>1
  <2> QED
    BY <2>1, <2>2 DEF NoTies
<1> QED
  BY <1>6, <1>7, SameOrder DEF a

(* A part of a sequence (SubSeq).                                           *)
LEMMA PartIs ==
    ASSUME NEW T, NEW s, NEW m \in Int, NEW n \in Int, m <= n + 1, \A i \in m..n : s[i] \in T
    PROVE  /\ SubSeq(s, m, n) \in Seq(T) /\ Len(SubSeq(s, m, n)) = n - m + 1
           /\ \A k \in 1..(n - m + 1) : SubSeq(s, m, n)[k] = s[m + k - 1]
BY SubSeqProperties

(* A character of a name.                                                   *)
Named(p, i) == i \in DOMAIN p /\ p[i] # Slash

(* Where names begin, and where they end (Starts, EndOf).                   *)
LEMMA NamesAre ==
    ASSUME NEW T, NEW p \in Seq(T)
    PROVE  /\ Len(p) \in Nat /\ DOMAIN p = 1..Len(p)
           /\ Starts(p) \in SUBSET (1..Len(p)) /\ Starts(p) \in SUBSET Int /\ IsFiniteSet(Starts(p))
           /\ \A i \in Int : i \in Starts(p) <=> Named(p, i) /\ ~Named(p, i - 1)
           /\ \A i \in Starts(p) :
                /\ EndOf(p, i) \in i..Len(p) /\ ~Named(p, EndOf(p, i) + 1)
                /\ \A k \in i..EndOf(p, i) : Named(p, k)
                /\ \A j \in i..Len(p) :
                     (\A k \in i..j : Named(p, k)) /\ ~Named(p, j + 1) => j = EndOf(p, i)
<1> DEFINE n == Len(p)
<1>1. n \in Nat /\ DOMAIN p = 1..n
  OBVIOUS
<1>2. Starts(p) \in SUBSET (1..n)
  BY <1>1 DEF Starts
<1>3. IsFiniteSet(Starts(p)) /\ Starts(p) \in SUBSET Int
  <2>1. IsFiniteSet(1..n)
    BY <1>1, FS_Interval
  <2>2. IsFiniteSet(Starts(p))
    BY <1>2, <2>1, FS_Subset
  <2>3. \A i \in 1..n : i \in Int
    OBVIOUS
  <2> QED
    BY <1>2, <2>2, <2>3
<1> HIDE DEF n
<1>4. ASSUME NEW i \in Int PROVE i \in Starts(p) <=> Named(p, i) /\ ~Named(p, i - 1)
  BY <1>1 DEF Starts, Named
<1>5. ASSUME NEW i \in Starts(p)
      PROVE  /\ EndOf(p, i) \in i..n /\ ~Named(p, EndOf(p, i) + 1)
             /\ \A k \in i..EndOf(p, i) : Named(p, k)
             /\ \A j \in i..n :
                  (\A k \in i..j : Named(p, k)) /\ ~Named(p, j + 1) => j = EndOf(p, i)
  <2> DEFINE Ends(j) == (\A k \in i..j : p[k] # Slash) /\ (j < n => p[j + 1] = Slash)
             stops == {j \in i..n : ~Named(p, j + 1)}
             e == Min(stops)
  <2>1. i \in 1..n /\ Named(p, i)
    BY <1>2, <1>3, <1>4
  <2>2. \A j \in i..n : Ends(j) <=> (\A k \in i..j : Named(p, k)) /\ ~Named(p, j + 1)
    <3> SUFFICES ASSUME NEW j \in i..n
                 PROVE  Ends(j) <=> (\A k \in i..j : Named(p, k)) /\ ~Named(p, j + 1)
      OBVIOUS
    <3>1. \A k \in i..j : k \in DOMAIN p
      BY <1>1, <2>1
    <3>2. j + 1 \in DOMAIN p <=> j < n
      BY <1>1, <2>1
    <3> QED
      BY <3>1, <3>2 DEF Named
  <2>3. e \in stops /\ \A j \in stops : e <= j
    <3>1. IsFiniteSet(i..n) /\ i \in Int /\ n \in Int
      BY <1>1, <2>1, FS_Interval
    <3>2. stops \in SUBSET Int /\ IsFiniteSet(stops)
      BY <3>1, FS_Subset
    <3>3. n \in stops
      BY <1>1, <2>1 DEF Named
    <3> HIDE DEF stops
    <3> QED
      BY <3>2, <3>3, MinHolds
  <2> HIDE DEF e
  <2>4. \A k \in i..e : Named(p, k)
    <3> SUFFICES ASSUME NEW k \in i..e, ~Named(p, k) PROVE FALSE
      OBVIOUS
    <3>1. e \in i..n /\ k \in Int /\ i \in Int /\ e \in Int /\ n \in Int
      BY <1>1, <2>1, <2>3
    <3>2. k # i
      BY <2>1
    <3>3. k - 1 \in i..n /\ (k - 1) + 1 = k
      BY <3>1, <3>2
    <3>4. k - 1 \in stops
      BY <3>3
    <3>5. e <= k - 1
      BY <2>3, <3>4
    <3> QED
      BY <3>1, <3>5
  <2>5. Ends(e) /\ e \in i..n
    BY <2>2, <2>3, <2>4
  <2>6. ASSUME NEW j \in i..n, Ends(j) PROVE j = e
    <3>1. (\A k \in i..j : Named(p, k)) /\ ~Named(p, j + 1) /\ ~Named(p, e + 1) /\ e \in i..n
      BY <2>2, <2>3, <2>6
    <3>2. e <= j
      BY <2>3, <3>1
    <3>3. ~(e < j)
      <4> SUFFICES ASSUME e < j PROVE FALSE
        OBVIOUS
      <4>1. e + 1 \in i..j
        BY <2>1, <3>1
      <4> QED
        BY <3>1, <4>1
    <3> QED
      BY <2>1, <3>1, <3>2, <3>3
  <2>7. EndOf(p, i) = CHOOSE j \in i..n : Ends(j)
    BY DEF EndOf, n
  <2> HIDE DEF Ends, stops
  <2>8. EndOf(p, i) = e
    BY <2>5, <2>6, <2>7
  <2> QED
    BY <2>2, <2>5, <2>6, <2>8
<1> QED
  BY <1>1, <1>2, <1>3, <1>4, <1>5 DEF n

(* q is p with other slashes at its ends: character i of a name of q is     *)
(* character i + c of p.                                                    *)
Moved(p, q, c) ==
    /\ \A i \in Int : Named(q, i) <=> Named(p, i + c)
    /\ \A i \in Int : Named(q, i) => q[i] = p[i + c]

(* Slashes at the ends of a path make no other folders.                     *)
LEMMA SameNames ==
    ASSUME NEW T, NEW p \in Seq(T), NEW q \in Seq(T), NEW c \in Int, Moved(p, q, c)
    PROVE  DriveSegments(q) = DriveSegments(p)
<1> DEFINE P == Starts(p)
           Q == Starts(q)
           f == [i \in Q |-> i + c]
           n == Cardinality(Q)
           a == Ascending(Q)
           b == [k \in 1..n |-> a[k] + c]
<1>1. /\ P \in SUBSET Int /\ IsFiniteSet(P) /\ Len(p) \in Nat /\ DOMAIN p = 1..Len(p)
      /\ Q \in SUBSET Int /\ IsFiniteSet(Q) /\ Len(q) \in Nat /\ DOMAIN q = 1..Len(q)
      /\ \A i \in Int : i \in P <=> Named(p, i) /\ ~Named(p, i - 1)
      /\ \A i \in Int : i \in Q <=> Named(q, i) /\ ~Named(q, i - 1)
  BY NamesAre
<1>2. \A i \in Int : i \in Q <=> i + c \in P
  <2> SUFFICES ASSUME NEW i \in Int PROVE i \in Q <=> i + c \in P
    OBVIOUS
  <2>1. i + c \in Int /\ i - 1 \in Int /\ (i - 1) + c = (i + c) - 1
    OBVIOUS
  <2>2. Named(q, i - 1) <=> Named(p, (i + c) - 1)
    BY <2>1 DEF Moved
  <2>3. Named(q, i) <=> Named(p, i + c)
    BY DEF Moved
  <2> QED
    BY <1>1, <2>1, <2>2, <2>3
<1>3. /\ n \in Nat /\ a \in [1..n -> Q]
      /\ Increasing(a, n)
  BY <1>1, AscendingHolds DEF Increasing
<1>4. n = Cardinality(P)
  <2> HIDE DEF P, Q, n
  <2>1. \A i \in Q : i \in Int /\ i + c \in P
    BY <1>1, <1>2
  <2>2. \A j \in P : j - c \in Q /\ (j - c) + c = j
    <3> SUFFICES ASSUME NEW j \in P PROVE j - c \in Q /\ (j - c) + c = j
      OBVIOUS
    <3>1. j \in Int /\ j - c \in Int /\ (j - c) + c = j
      BY <1>1
    <3> QED
      BY <1>2, <3>1
  <2>3. f \in Injection(Q, P)
    <3>1. \A i, j \in Q : i + c = j + c => i = j
      <4> SUFFICES ASSUME NEW i \in Q, NEW j \in Q, i + c = j + c PROVE i = j
        OBVIOUS
      <4>1. i \in Int /\ j \in Int
        BY <2>1
      <4> QED
        BY <4>1
    <3> QED
      BY <2>1, <3>1 DEF Injection, IsInjective
  <2>4. f \in Surjection(Q, P)
    BY <2>1, <2>2 DEF Surjection
  <2> HIDE DEF f
  <2> QED
    BY <1>1, <2>3, <2>4, FS_Injection DEF n
<1> HIDE DEF P, Q, n, a
<1>5. ASSUME NEW k \in 1..n PROVE a[k] \in Q /\ a[k] \in Int /\ b[k] = a[k] + c /\ b[k] \in P
  BY <1>1, <1>2, <1>3
<1>6. b = Ascending(P)
  <2>1. b \in [1..n -> P]
    BY <1>5
  <2>2. Increasing(b, n)
    <3> SUFFICES ASSUME NEW k \in 1..n, NEW l \in 1..n, k < l PROVE b[k] < b[l]
      BY DEF Increasing
    <3>1. a[k] < a[l] /\ a[k] \in Int /\ a[l] \in Int
      BY <1>3, <1>5 DEF Increasing
    <3>2. a[k] + c < a[l] + c
      BY <3>1
    <3> HIDE DEF b
    <3> QED
      BY <1>5, <3>2
  <2> HIDE DEF b
  <2> QED
    BY <1>1, <1>4, <2>1, <2>2, AscendingIs
<1>7. ASSUME NEW i \in Q PROVE EndOf(p, i + c) = EndOf(q, i) + c
  <2> DEFINE e == EndOf(q, i)
             d == e + c
  <2>1. /\ i \in Int /\ i + c \in P
        /\ e \in i..Len(q) /\ ~Named(q, e + 1)
        /\ \A k \in i..e : Named(q, k)
    BY <1>1, <1>2, NamesAre DEF Q
  <2> HIDE DEF e
  <2>2. e \in Int /\ d \in Int /\ i <= e
    BY <1>1, <2>1
  <2>3. \A k \in (i + c)..d : Named(p, k)
    <3> SUFFICES ASSUME NEW k \in (i + c)..d PROVE Named(p, k)
      OBVIOUS
    <3>1. k - c \in i..e /\ k - c \in Int /\ (k - c) + c = k
      BY <2>1, <2>2
    <3>2. Named(q, k - c)
      BY <2>1, <3>1
    <3> QED
      BY <3>1, <3>2 DEF Moved
  <2>4. ~Named(p, d + 1)
    <3>1. e + 1 \in Int /\ (e + 1) + c = d + 1
      BY <2>2
    <3> QED
      BY <2>1, <3>1 DEF Moved
  <2>5. d \in (i + c)..Len(p)
    <3>1. d \in (i + c)..d
      BY <2>1, <2>2
    <3>2. d \in 1..Len(p)
      BY <1>1, <2>3, <3>1 DEF Named
    <3> QED
      BY <1>1, <2>1, <2>2, <3>2
  <2> HIDE DEF d
  <2>6. d = EndOf(p, i + c)
    BY <2>1, <2>3, <2>4, <2>5, NamesAre DEF P
  <2> QED
    BY <2>6 DEF d, e
<1>8. ASSUME NEW i \in Q
      PROVE  SubSeq(q, i, EndOf(q, i)) = SubSeq(p, i + c, EndOf(p, i + c))
  <2> DEFINE e == EndOf(q, i)
  <2>1. i \in Int /\ e \in Int /\ i <= e /\ \A k \in i..e : Named(q, k)
    BY <1>1, NamesAre DEF Q
  <2>2. EndOf(p, i + c) = e + c
    BY <1>7
  <2> HIDE DEF e
  <2>3. \A k \in i..e : k \in Int /\ q[k] \in T /\ q[k] = p[k + c]
    <3> SUFFICES ASSUME NEW k \in i..e PROVE k \in Int /\ q[k] \in T /\ q[k] = p[k + c]
      OBVIOUS
    <3>1. k \in Int /\ Named(q, k)
      BY <2>1
    <3> QED
      BY <1>1, <3>1 DEF Named, Moved
  <2>4. /\ SubSeq(q, i, e) \in Seq(T) /\ Len(SubSeq(q, i, e)) = e - i + 1
        /\ \A k \in 1..(e - i + 1) : SubSeq(q, i, e)[k] = q[i + k - 1]
    BY SMTT(30), <2>1, <2>3, PartIs
  <2> DEFINE i2 == i + c
             e2 == e + c
  <2>5. i2 \in Int /\ e2 \in Int /\ i2 <= e2 /\ e2 - i2 + 1 = e - i + 1
    BY <2>1
  <2>6. \A k \in i2..e2 : p[k] \in T
    <3> SUFFICES ASSUME NEW k \in i2..e2 PROVE p[k] \in T
      OBVIOUS
    <3>1. k - c \in i..e /\ (k - c) + c = k
      BY <2>1
    <3> QED
      BY <2>3, <3>1
  <2> HIDE DEF i2, e2
  <2>7. /\ SubSeq(p, i2, e2) \in Seq(T) /\ Len(SubSeq(p, i2, e2)) = e2 - i2 + 1
        /\ \A k \in 1..(e2 - i2 + 1) : SubSeq(p, i2, e2)[k] = p[i2 + k - 1]
    BY <2>5, <2>6, PartIs
  <2>8. ASSUME NEW k \in 1..(e - i + 1) PROVE SubSeq(q, i, e)[k] = SubSeq(p, i2, e2)[k]
    <3>1. i + k - 1 \in i..e /\ (i + k - 1) + c = i2 + k - 1
      BY <2>1 DEF i2
    <3> QED
      BY <2>3, <2>4, <2>5, <2>7, <3>1
  <2>9. SubSeq(q, i, e) = SubSeq(p, i2, e2)
    BY <2>4, <2>5, <2>7, <2>8, SeqEqual
  <2> QED
    BY <2>2, <2>9 DEF e, i2, e2
<1>9. DriveSegments(q) = [k \in 1..n |-> SubSeq(q, a[k], EndOf(q, a[k]))]
  BY <1>3 DEF DriveSegments, a, Q
<1>10. DriveSegments(p) = [k \in 1..n |-> SubSeq(p, b[k], EndOf(p, b[k]))]
  <2>1. DOMAIN b = 1..n
    OBVIOUS
  <2> HIDE DEF b
  <2> QED
    BY <1>6, <2>1 DEF DriveSegments, P
<1>11. \A k \in 1..n : SubSeq(q, a[k], EndOf(q, a[k])) = SubSeq(p, b[k], EndOf(p, b[k]))
  <2> SUFFICES ASSUME NEW k \in 1..n PROVE SubSeq(q, a[k], EndOf(q, a[k])) = SubSeq(p, b[k], EndOf(p, b[k]))
    OBVIOUS
  <2> HIDE DEF b
  <2> QED
    BY <1>5, <1>8
<1> HIDE DEF b
<1> QED
  BY <1>9, <1>10, <1>11

(* What is left of a path without the slashes at its ends (Stripped).       *)
LEMMA StrippedIs ==
    ASSUME NEW T, NEW p \in Seq(T)
    PROVE  LET names == {i \in DOMAIN p : p[i] # Slash}
           IN /\ names = {} => Stripped(p, TRUE, TRUE) = <<>> /\ Stripped(p, FALSE, TRUE) = <<>>
              /\ names # {} =>
                   \E a, b \in names :
                      /\ \A i \in names : a <= i /\ i <= b
                      /\ a \in 1..Len(p) /\ b \in 1..Len(p) /\ a <= b
                      /\ Stripped(p, TRUE, TRUE) = SubSeq(p, a, b)
                      /\ Stripped(p, FALSE, TRUE) = SubSeq(p, 1, b)
<1> DEFINE names == {i \in DOMAIN p : p[i] # Slash}
           a == Min(names)
           b == Max(names)
<1>1. DOMAIN p = 1..Len(p) /\ Len(p) \in Nat
  OBVIOUS
<1>2. names \in SUBSET Int /\ IsFiniteSet(names) /\ names \in SUBSET (1..Len(p))
  <2>1. IsFiniteSet(1..Len(p)) /\ names \in SUBSET (1..Len(p)) /\ 1..Len(p) \in SUBSET Int
    BY <1>1, FS_Interval
  <2> HIDE DEF names
  <2> QED
    BY <2>1, FS_Subset
<1>3. CASE names = {}
  BY <1>3 DEF Stripped
<1>4. CASE names # {}
  <2>1. /\ Stripped(p, TRUE, TRUE) = SubSeq(p, a, b)
        /\ Stripped(p, FALSE, TRUE) = SubSeq(p, 1, b)
    BY <1>4 DEF Stripped, Min, Max
  <2> HIDE DEF names
  <2>2. a \in names /\ b \in names /\ \A i \in names : a <= i /\ b >= i
    BY <1>2, <1>4, MinHolds, MaxHolds
  <2> HIDE DEF a, b
  <2>3. \A i \in names : a <= i /\ i <= b
    BY <1>2, <2>2
  <2>4. a \in 1..Len(p) /\ b \in 1..Len(p) /\ a <= b
    BY <1>2, <2>2, <2>3
  <2> QED
    BY <1>4, <2>1, <2>2, <2>3, <2>4 DEF names
<1> QED
  BY <1>3, <1>4

(* A path is a sequence of characters.                                      *)
Characters == ItemsOf["path"] \cup {Slash}

(* An empty path has no folders.                                            *)
LEMMA NoFolders ==
    ASSUME NEW T, NEW p \in Seq(T), \A i \in DOMAIN p : p[i] = Slash
    PROVE  DriveSegments(p) = <<>>
<1>1. Starts(p) = {}
  BY DEF Starts
<1>2. Cardinality(Starts(p)) = 0
  BY <1>1, FS_EmptySet
<1>3. DOMAIN Ascending(Starts(p)) = 1..0
  BY <1>2 DEF Ascending
<1>4. 1..0 = {}
  OBVIOUS
<1> QED
  BY <1>3, <1>4 DEF DriveSegments

(* The prefix of the S3 provider: a folder, and the one that is set.        *)
LEMMA PrefixIs ==
    ASSUME NEW p \in Seq(Characters)
    PROVE  LET w == S3Prefix(p)
           IN /\ w \in Seq(Characters) /\ DriveSegments(w) = DriveSegments(p)
              /\ w # <<>> => w[1] # Slash /\ w[Len(w)] = Slash
              /\ GapFree(w) <=> GapFree(Stripped(p, TRUE, TRUE))
<1> DEFINE names == {i \in DOMAIN p : p[i] # Slash}
           s == Stripped(p, TRUE, TRUE)
           w == S3Prefix(p)
<1>1. CASE names = {}
  <2>1. s = <<>> /\ w = <<>>
    BY <1>1, StrippedIs DEF S3Prefix
  <2>2. DriveSegments(p) = <<>> /\ DriveSegments(<<>>) = <<>>
    <3>1. \A i \in DOMAIN p : p[i] = Slash
      BY <1>1
    <3>2. <<>> \in Seq(Characters) /\ DOMAIN <<>> = {}
      OBVIOUS
    <3> QED
      BY <3>1, <3>2, NoFolders
  <2>3. GapFree(w) <=> GapFree(s)
    BY <2>1
  <2>4. w \in Seq(Characters) /\ w = <<>> /\ DriveSegments(w) = DriveSegments(p)
    BY <2>1, <2>2, EmptySeq
  <2> HIDE DEF w, s
  <2> QED
    BY <2>3, <2>4 DEF w, s
<1>2. CASE names # {}
  <2>1. PICK a \in names, b \in names :
           /\ \A i \in names : a <= i /\ i <= b
           /\ a \in 1..Len(p) /\ b \in 1..Len(p) /\ a <= b
           /\ s = SubSeq(p, a, b)
    BY <1>2, StrippedIs
  <2> DEFINE m == b - a + 1
             c == a - 1
  <2>2. DOMAIN p = 1..Len(p) /\ Len(p) \in Nat /\ \A i \in DOMAIN p : p[i] \in Characters
    OBVIOUS
  <2>3. a \in Int /\ b \in Int /\ m \in Nat \ {0} /\ c \in Int /\ p[a] # Slash /\ p[b] # Slash
    BY <2>1, <2>2
  <2>4. \A i \in Int : Named(p, i) => a <= i /\ i <= b
    BY <2>1 DEF Named
  <2>5. \A i \in a..b : i \in 1..Len(p) /\ p[i] \in Characters
    BY <2>1, <2>2
  <2> HIDE DEF names, s, w
  <2>6. /\ s \in Seq(Characters) /\ Len(s) = m
        /\ \A i \in 1..m : s[i] = p[a + i - 1]
    BY <2>1, <2>3, <2>5, PartIs
  <2>7. s # <<>> /\ w = s \o <<Slash>>
    <3>1. Len(s) # 0 /\ Len(<<>>) = 0
      BY <2>3, <2>6
    <3> QED
      BY <3>1 DEF S3Prefix, s, w
  <2>8. /\ w \in Seq(Characters) /\ Len(w) = m + 1
        /\ \A i \in 1..m : w[i] = s[i]
        /\ w[m + 1] = Slash
    <3>1. <<Slash>> \in Seq(Characters) /\ Len(<<Slash>>) = 1 /\ <<Slash>>[1] = Slash
      BY DEF Characters
    <3>2. /\ s \o <<Slash>> \in Seq(Characters) /\ Len(s \o <<Slash>>) = m + 1
          /\ \A i \in 1..(m + 1) : (s \o <<Slash>>)[i] = IF i <= m THEN s[i] ELSE <<Slash>>[i - m]
      BY <2>6, <3>1, ConcatProperties
    <3>3. m + 1 \in 1..(m + 1) /\ ~(m + 1 <= m) /\ (m + 1) - m = 1
      BY <2>3
    <3>4. w[m + 1] = Slash
      BY <2>7, <3>1, <3>2, <3>3
    <3>5. \A i \in 1..m : i \in 1..(m + 1) /\ i <= m
      BY <2>3
    <3> HIDE DEF m
    <3>6. \A i \in 1..m : w[i] = s[i]
      BY <2>7, <3>2, <3>5
    <3> QED
      BY <2>7, <3>2, <3>4, <3>6
  <2> HIDE DEF m, c
  <2>9. \A i \in 1..m : w[i] = p[i + c] /\ i + c \in a..b
    <3> SUFFICES ASSUME NEW i \in 1..m PROVE w[i] = p[i + c] /\ i + c \in a..b
      OBVIOUS
    <3>1. i + c = a + i - 1 /\ i + c \in a..b
      BY <2>3 DEF m, c
    <3> QED
      BY <2>6, <2>8, <3>1
  <2>10. Moved(p, w, c)
    <3>1. ASSUME NEW i \in Int PROVE Named(w, i) <=> Named(p, i + c)
      <4>1. CASE i \in 1..m
        <5>1. i \in DOMAIN w /\ i + c \in DOMAIN p /\ w[i] = p[i + c]
          BY <2>2, <2>3, <2>5, <2>8, <2>9, <4>1
        <5> QED
          BY <5>1 DEF Named
      <4>2. CASE i \notin 1..m
        <5>1. ~Named(w, i)
          <6>1. i \in DOMAIN w => i = m + 1
            BY <2>3, <2>8, <4>2
          <6> QED
            BY <2>8, <6>1 DEF Named
        <5>2. ~(a <= i + c /\ i + c <= b) /\ i + c \in Int
          BY <2>3, <4>2 DEF m, c
        <5> QED
          BY <2>4, <5>1, <5>2
      <4> QED
        BY <4>1, <4>2
    <3>2. ASSUME NEW i \in Int, Named(w, i) PROVE w[i] = p[i + c]
      <4>1. i \in DOMAIN w /\ w[i] # Slash
        BY <3>2 DEF Named
      <4>2. i \in 1..m
        BY <2>3, <2>8, <4>1
      <4> QED
        BY <2>9, <4>2
    <3> QED
      BY <3>1, <3>2 DEF Moved
  <2>11. DriveSegments(w) = DriveSegments(p)
    BY <2>3, <2>8, <2>10, SameNames
  <2>12. w[1] # Slash /\ w[m] # Slash /\ w[Len(w)] = Slash
    <3>1. 1 \in 1..m /\ m \in 1..m /\ 1 + c = a /\ m + c = b
      BY <2>3 DEF m, c
    <3> QED
      BY <2>3, <2>8, <2>9, <3>1
  <2>13. ASSUME GapFree(s) PROVE GapFree(w)
    <3> SUFFICES ASSUME NEW i \in 1..(Len(w) - 1) PROVE w[i] # Slash \/ w[i + 1] # Slash
      BY DEF GapFree
    <3>1. i \in 1..m
      BY <2>3, <2>8
    <3>2. CASE i = m
      BY <2>12, <3>2
    <3>3. CASE i < m
      <4>1. i \in 1..(Len(s) - 1) /\ i + 1 \in 1..m
        BY <2>3, <2>6, <3>1, <3>3
      <4>2. s[i] # Slash \/ s[i + 1] # Slash
        BY <2>13, <4>1 DEF GapFree
      <4> QED
        BY <2>8, <3>1, <4>1, <4>2
    <3> QED
      BY <2>3, <3>1, <3>2, <3>3
  <2>14. ASSUME GapFree(w) PROVE GapFree(s)
    <3> SUFFICES ASSUME NEW i \in 1..(Len(s) - 1) PROVE s[i] # Slash \/ s[i + 1] # Slash
      BY DEF GapFree
    <3>1. i \in 1..(Len(w) - 1) /\ i \in 1..m /\ i + 1 \in 1..m
      BY <2>3, <2>6, <2>8
    <3>2. w[i] # Slash \/ w[i + 1] # Slash
      BY <2>14, <3>1 DEF GapFree
    <3> QED
      BY <2>8, <3>1, <3>2
  <2> QED
    BY <2>8, <2>11, <2>12, <2>13, <2>14 DEF s, w
<1> QED
  BY <1>1, <1>2

(* The folders of a path are the names from each beginning to its end.      *)
LEMMA SegmentsAre ==
    ASSUME NEW T, NEW p \in Seq(T)
    PROVE  LET a == Ascending(Starts(p))
           IN /\ DriveSegments(p) \in Seq(Seq(T))
              /\ Len(DriveSegments(p)) = Cardinality(Starts(p))
              /\ \A k \in 1..Cardinality(Starts(p)) :
                    /\ DriveSegments(p)[k] = SubSeq(p, a[k], EndOf(p, a[k]))
                    /\ Len(DriveSegments(p)[k]) # 0
<1> DEFINE S == Starts(p)
           n == Cardinality(S)
           a == Ascending(S)
<1>1. n \in Nat /\ a \in [1..n -> S]
  BY NamesAre, AscendingHolds
<1>2. ASSUME NEW k \in 1..n
      PROVE  SubSeq(p, a[k], EndOf(p, a[k])) \in Seq(T) /\ Len(SubSeq(p, a[k], EndOf(p, a[k]))) # 0
  <2> DEFINE i == a[k]
             e == EndOf(p, i)
  <2>1. i \in S
    BY <1>1
  <2> HIDE DEF i
  <2>2. i \in 1..Len(p) /\ e \in i..Len(p) /\ Len(p) \in Nat
    BY <2>1, NamesAre
  <2> HIDE DEF e
  <2>3. i \in Int /\ e \in Int /\ i <= e
    BY <2>2
  <2>4. \A j \in i..e : p[j] \in T
    BY <2>2
  <2>5. SubSeq(p, i, e) \in Seq(T) /\ Len(SubSeq(p, i, e)) = e - i + 1 /\ e - i + 1 # 0
    BY <2>3, <2>4, PartIs
  <2> QED
    BY <2>5 DEF i, e
<1>3. DriveSegments(p) = [k \in 1..n |-> SubSeq(p, a[k], EndOf(p, a[k]))]
  BY <1>1 DEF DriveSegments
<1> HIDE DEF n, a
<1>4. DriveSegments(p) \in Seq(Seq(T)) /\ Len(DriveSegments(p)) = n
  <2>1. \A k \in 1..n : SubSeq(p, a[k], EndOf(p, a[k])) \in Seq(T)
    BY <1>2
  <2> QED
    BY <1>1, <1>3, <2>1
<1> QED
  BY <1>2, <1>3, <1>4 DEF n, a

(* A name after a slash is one folder more, with a slash after it or not.   *)
LEMMA NameAdded ==
    ASSUME NEW T, NEW q \in Seq(T), NEW l \in Nat, NEW m \in Nat, l < m, m <= Len(q),
           l > 0 => q[l] = Slash, \A i \in (l + 1)..m : q[i] # Slash,
           \A i \in (m + 1)..Len(q) : q[i] = Slash
    PROVE  /\ SubSeq(q, 1, l) \in Seq(T) /\ Len(SubSeq(q, 1, l)) = l
           /\ \A i \in 1..l : SubSeq(q, 1, l)[i] = q[i]
           /\ SubSeq(q, l + 1, m) \in Seq(T) /\ Len(SubSeq(q, l + 1, m)) = m - l
           /\ \A i \in 1..(m - l) : SubSeq(q, l + 1, m)[i] = q[l + i]
           /\ DriveSegments(q) = Append(DriveSegments(SubSeq(q, 1, l)), SubSeq(q, l + 1, m))
<1> DEFINE u == SubSeq(q, 1, l)
           name == SubSeq(q, l + 1, m)
           U == Starts(u)
           Q == Starts(q)
           n == Cardinality(U)
           a == Ascending(U)
           b == [k \in 1..(n + 1) |-> IF k <= n THEN a[k] ELSE l + 1]
<1>1. DOMAIN q = 1..Len(q) /\ Len(q) \in Nat /\ \A i \in 1..Len(q) : q[i] \in T
  OBVIOUS
<1>2. u \in Seq(T) /\ Len(u) = l /\ \A i \in 1..l : u[i] = q[i]
  <2>1. 1 \in Int /\ l \in Int /\ \A i \in 1..l : q[i] \in T
    BY <1>1
  <2>2. /\ u \in Seq(T)
        /\ Len(u) = IF 1 <= l THEN l - 1 + 1 ELSE 0
        /\ \A i \in 1..(l - 1 + 1) : u[i] = q[1 + i - 1]
    BY <2>1, SubSeqProperties
  <2>3. l - 1 + 1 = l /\ \A i \in 1..l : 1 + i - 1 = i
    OBVIOUS
  <2> HIDE DEF u
  <2> QED
    BY <2>2, <2>3
<1>3. name \in Seq(T) /\ Len(name) = m - l /\ \A i \in 1..(m - l) : name[i] = q[l + i]
  <2>1. l + 1 \in Int /\ m \in Int /\ l + 1 <= m /\ \A i \in (l + 1)..m : q[i] \in T
    BY <1>1
  <2>2. /\ name \in Seq(T) /\ Len(name) = m - (l + 1) + 1
        /\ \A i \in 1..(m - (l + 1) + 1) : name[i] = q[(l + 1) + i - 1]
    BY <2>1, PartIs
  <2>3. m - (l + 1) + 1 = m - l /\ \A i \in 1..(m - l) : (l + 1) + i - 1 = l + i
    OBVIOUS
  <2> HIDE DEF name
  <2> QED
    BY <2>2, <2>3
<1> HIDE DEF u, name
<1>4. \A i \in Int : /\ i <= l => (Named(q, i) <=> Named(u, i))
                     /\ l < i /\ i <= m => Named(q, i)
                     /\ i > m => ~Named(q, i)
  <2> SUFFICES ASSUME NEW i \in Int
               PROVE  /\ i <= l => (Named(q, i) <=> Named(u, i))
                      /\ l < i /\ i <= m => Named(q, i)
                      /\ i > m => ~Named(q, i)
    OBVIOUS
  <2>1. ASSUME i <= l PROVE Named(q, i) <=> Named(u, i)
    <3>1. i \in DOMAIN q <=> i \in 1..l
      BY <1>1, <2>1
    <3>2. i \in DOMAIN u <=> i \in 1..l
      BY <1>2
    <3> QED
      BY <1>2, <3>1, <3>2 DEF Named
  <2>2. ASSUME l < i, i <= m PROVE Named(q, i)
    <3>1. i \in (l + 1)..m /\ i \in DOMAIN q
      BY <1>1, <2>2
    <3> QED
      BY <3>1 DEF Named
  <2>3. ASSUME i > m PROVE ~Named(q, i)
    <3>1. i \in DOMAIN q => i \in (m + 1)..Len(q)
      BY <1>1, <2>3
    <3> QED
      BY <3>1 DEF Named
  <2> QED
    BY <2>1, <2>2, <2>3
<1>5. ~Named(q, l)
  BY <1>1 DEF Named
<1>6. /\ U \in SUBSET Int /\ IsFiniteSet(U) /\ U \in SUBSET (1..l)
      /\ Q \in SUBSET Int /\ IsFiniteSet(Q) /\ Q \in SUBSET (1..Len(q))
      /\ \A i \in Int : i \in U <=> Named(u, i) /\ ~Named(u, i - 1)
      /\ \A i \in Int : i \in Q <=> Named(q, i) /\ ~Named(q, i - 1)
  <2>1. /\ U \in SUBSET Int /\ IsFiniteSet(U) /\ U \in SUBSET (1..Len(u))
        /\ \A i \in Int : i \in U <=> Named(u, i) /\ ~Named(u, i - 1)
    BY <1>2, NamesAre
  <2>2. /\ Q \in SUBSET Int /\ IsFiniteSet(Q) /\ Q \in SUBSET (1..Len(q))
        /\ \A i \in Int : i \in Q <=> Named(q, i) /\ ~Named(q, i - 1)
    BY NamesAre
  <2> HIDE DEF U, Q
  <2> QED
    BY <1>2, <2>1, <2>2
<1> HIDE DEF U, Q
<1>7. \A i \in Int : i \in Q <=> i \in U \/ i = l + 1
  <2> SUFFICES ASSUME NEW i \in Int PROVE i \in Q <=> i \in U \/ i = l + 1
    OBVIOUS
  <2>1. i \in Q <=> Named(q, i) /\ ~Named(q, i - 1)
    BY <1>6
  <2>2. i \in U <=> Named(u, i) /\ ~Named(u, i - 1)
    BY <1>6
  <2>3. CASE i <= l
    <3>1. Named(q, i) <=> Named(u, i)
      BY <1>4, <2>3
    <3>2. i - 1 \in Int /\ i - 1 <= l /\ i # l + 1
      BY <2>3
    <3>3. Named(q, i - 1) <=> Named(u, i - 1)
      BY <1>4, <3>2
    <3> QED
      BY <2>1, <2>2, <3>1, <3>2, <3>3
  <2>4. CASE i = l + 1
    <3>1. Named(q, i) /\ i - 1 = l
      BY <1>4, <2>4
    <3> QED
      BY <1>5, <2>1, <2>4, <3>1
  <2>5. CASE i > l + 1
    <3>1. i \notin U
      BY <1>6, <2>5
    <3>2. i - 1 \in Int /\ l < i - 1
      BY <2>5
    <3>3. i <= m => Named(q, i - 1)
      <4>1. i <= m => i - 1 <= m
        OBVIOUS
      <4> QED
        BY <1>4, <3>2, <4>1
    <3>4. i > m => ~Named(q, i)
      BY <1>4
    <3>5. i <= m \/ i > m
      OBVIOUS
    <3> QED
      BY <2>1, <2>5, <3>1, <3>3, <3>4, <3>5
  <2> QED
    BY <2>3, <2>4, <2>5
<1>8. Q = U \cup {l + 1} /\ l + 1 \notin U
  <2>1. l + 1 \in Int /\ l + 1 \notin 1..l
    OBVIOUS
  <2>2. \A i \in Q : i \in U \cup {l + 1}
    BY <1>6, <1>7
  <2>3. \A i \in U \cup {l + 1} : i \in Q
    BY <1>6, <1>7, <2>1
  <2> QED
    BY <1>6, <2>1, <2>2, <2>3
<1>9. /\ n \in Nat /\ a \in [1..n -> U] /\ Increasing(a, n)
      /\ Cardinality(Q) = n + 1
  <2>1. n \in Nat /\ a \in [1..n -> U] /\ Increasing(a, n)
    BY <1>6, AscendingHolds DEF Increasing
  <2> HIDE DEF n, a
  <2>2. Cardinality(Q) = n + 1
    BY <1>6, <1>8, FS_AddElement DEF n
  <2> QED
    BY <2>1, <2>2
<1> HIDE DEF n, a
<1>10. \A k \in 1..n : a[k] \in U /\ a[k] \in Int /\ a[k] < l + 1 /\ a[k] \in 1..l
  <2> SUFFICES ASSUME NEW k \in 1..n PROVE a[k] \in U /\ a[k] \in Int /\ a[k] < l + 1 /\ a[k] \in 1..l
    OBVIOUS
  <2>1. a[k] \in U /\ a[k] \in 1..l
    BY <1>6, <1>9
  <2> QED
    BY <2>1
<1>11. /\ \A k \in 1..n : b[k] = a[k] /\ k \in 1..(n + 1)
       /\ b[n + 1] = l + 1 /\ n + 1 \in 1..(n + 1) /\ DOMAIN b = 1..(n + 1)
       /\ \A k \in 1..(n + 1) : k \in 1..n \/ k = n + 1
  BY <1>9
<1>12. b = [k \in 1..(n + 1) |-> b[k]]
  BY <1>11
<1> HIDE DEF b
<1>13. b = Ascending(Q)
  <2>1. b \in [1..(n + 1) -> Q]
    <3>1. \A k \in 1..(n + 1) : b[k] \in Q
      BY <1>8, <1>10, <1>11
    <3> QED
      BY <1>12, <3>1
  <2>2. Increasing(b, n + 1)
    <3> SUFFICES ASSUME NEW k \in 1..(n + 1), NEW j \in 1..(n + 1), k < j PROVE b[k] < b[j]
      BY DEF Increasing
    <3>1. k \in 1..n
      BY <1>9
    <3>2. CASE j \in 1..n
      <4>1. a[k] < a[j]
        BY <1>9, <3>1, <3>2 DEF Increasing
      <4> QED
        BY <1>11, <3>1, <3>2, <4>1
    <3>3. CASE j = n + 1
      BY <1>10, <1>11, <3>1, <3>3
    <3> QED
      BY <1>11, <3>2, <3>3
  <2> QED
    BY <1>6, <1>9, <2>1, <2>2, AscendingIs
<1>14. ASSUME NEW i \in U PROVE EndOf(q, i) = EndOf(u, i) /\ EndOf(u, i) \in i..l
  <2> DEFINE e == EndOf(u, i)
  <2>1. /\ e \in i..Len(u) /\ ~Named(u, e + 1) /\ \A k \in i..e : Named(u, k)
    BY <1>2, NamesAre DEF U
  <2> HIDE DEF e
  <2>2. i \in 1..l /\ e \in i..l /\ e \in Int /\ i \in Q
    BY <1>2, <1>6, <1>8, <2>1
  <2>3. \A k \in i..e : Named(q, k)
    <3> SUFFICES ASSUME NEW k \in i..e PROVE Named(q, k)
      OBVIOUS
    <3>1. k \in Int /\ k <= l /\ Named(u, k)
      BY <2>1, <2>2
    <3> QED
      BY <1>4, <3>1
  <2>4. e # l
    <3>1. e \in i..e
      BY <2>2
    <3> QED
      BY <1>5, <2>3, <3>1
  <2>5. ~Named(q, e + 1)
    <3>1. e + 1 \in Int /\ e + 1 <= l
      BY <2>2, <2>4
    <3> QED
      BY <1>4, <2>1, <3>1
  <2>6. e \in i..Len(q)
    BY <1>1, <2>2
  <2>7. e = EndOf(q, i)
    BY <2>2, <2>3, <2>5, <2>6, NamesAre DEF Q
  <2> QED
    BY <2>2, <2>7 DEF e
<1>15. EndOf(q, l + 1) = m
  <2>1. l + 1 \in Q /\ m \in (l + 1)..Len(q) /\ m + 1 \in Int /\ m + 1 > m
    BY <1>1, <1>8
  <2>2. \A k \in (l + 1)..m : Named(q, k)
    <3> SUFFICES ASSUME NEW k \in (l + 1)..m PROVE Named(q, k)
      OBVIOUS
    <3>1. k \in Int /\ l < k /\ k <= m
      OBVIOUS
    <3> QED
      BY <1>4, <3>1
  <2>3. ~Named(q, m + 1)
    BY <1>4, <2>1
  <2> QED
    BY <2>1, <2>2, <2>3, NamesAre DEF Q
<1>16. ASSUME NEW i \in U PROVE SubSeq(q, i, EndOf(q, i)) = SubSeq(u, i, EndOf(u, i))
  <2> DEFINE e == EndOf(u, i)
  <2>1. e \in i..l /\ i \in 1..l
    BY <1>6, <1>14
  <2> HIDE DEF e
  <2>2. i \in Int /\ e \in Int /\ i <= e
    BY <2>1
  <2>3. \A k \in i..e : u[k] \in T /\ q[k] \in T /\ q[k] = u[k]
    <3> SUFFICES ASSUME NEW k \in i..e PROVE u[k] \in T /\ q[k] \in T /\ q[k] = u[k]
      OBVIOUS
    <3>1. k \in 1..l /\ k \in 1..Len(q)
      BY <1>1, <2>1
    <3> QED
      BY <1>1, <1>2, <3>1
  <2>4. /\ SubSeq(u, i, e) \in Seq(T) /\ Len(SubSeq(u, i, e)) = e - i + 1
        /\ \A k \in 1..(e - i + 1) : SubSeq(u, i, e)[k] = u[i + k - 1]
    BY <2>2, <2>3, PartIs
  <2>5. /\ SubSeq(q, i, e) \in Seq(T) /\ Len(SubSeq(q, i, e)) = e - i + 1
        /\ \A k \in 1..(e - i + 1) : SubSeq(q, i, e)[k] = q[i + k - 1]
    BY <2>2, <2>3, PartIs
  <2>6. ASSUME NEW k \in 1..(e - i + 1) PROVE SubSeq(q, i, e)[k] = SubSeq(u, i, e)[k]
    <3>1. i + k - 1 \in i..e
      BY <2>2
    <3> QED
      BY <2>3, <2>4, <2>5, <3>1
  <2>7. SubSeq(q, i, e) = SubSeq(u, i, e)
    BY <2>4, <2>5, <2>6, SeqEqual
  <2> QED
    BY <1>14, <2>7 DEF e
<1> DEFINE x == DriveSegments(u)
           y == DriveSegments(q)
           z == Append(x, name)
<1>17. /\ x \in Seq(Seq(T)) /\ Len(x) = n
       /\ \A k \in 1..n : x[k] = SubSeq(u, a[k], EndOf(u, a[k]))
  BY <1>2, SegmentsAre DEF n, a, U
<1>18. /\ y \in Seq(Seq(T)) /\ Len(y) = n + 1
       /\ \A k \in 1..(n + 1) : y[k] = SubSeq(q, b[k], EndOf(q, b[k]))
  <2>1. /\ y \in Seq(Seq(T)) /\ Len(y) = Cardinality(Q)
        /\ \A k \in 1..Cardinality(Q) : y[k] = SubSeq(q, Ascending(Q)[k], EndOf(q, Ascending(Q)[k]))
    BY SegmentsAre DEF Q
  <2> HIDE DEF y
  <2> QED
    BY <1>9, <1>13, <2>1
<1> HIDE DEF x, y
<1>19. /\ z \in Seq(Seq(T)) /\ Len(z) = n + 1
       /\ \A k \in 1..n : z[k] = x[k]
       /\ z[n + 1] = name
  BY <1>3, <1>17, AppendProperties
<1> HIDE DEF z
<1>20. ASSUME NEW k \in 1..(n + 1) PROVE y[k] = z[k]
  <2>1. CASE k \in 1..n
    <3>1. y[k] = SubSeq(q, a[k], EndOf(q, a[k]))
      BY <1>11, <1>18, <2>1
    <3>2. x[k] = SubSeq(u, a[k], EndOf(u, a[k]))
      BY <1>17, <2>1
    <3>3. a[k] \in U
      BY <1>10, <2>1
    <3> QED
      BY <1>16, <1>19, <2>1, <3>1, <3>2, <3>3
  <2>2. CASE k = n + 1
    <3>1. y[k] = SubSeq(q, l + 1, m)
      BY <1>11, <1>15, <1>18, <2>2
    <3> QED
      BY <1>19, <2>2, <3>1 DEF name
  <2> QED
    BY <1>11, <2>1, <2>2
<1>21. y = z
  BY <1>18, <1>19, <1>20, SeqEqual
<1> QED
  BY <1>2, <1>3, <1>21 DEF u, name, x, y, z

(* The places of the slashes, at which FoldersOf takes a prefix apart.      *)
Slashes(q) == {i \in DOMAIN q : q[i] = Slash}

(* Where the folder begins that the k-th slash ends; a are the slashes.     *)
Begin(a, k) == IF k = 1 THEN 1 ELSE a[k - 1] + 1

(* The folders that a prefix spells are what its slashes end (FoldersOf).   *)
LEMMA SpelledAre ==
    ASSUME NEW T, NEW q \in Seq(T)
    PROVE  LET S == Slashes(q)
               a == Ascending(S)
               n == Cardinality(S)
           IN /\ S \in SUBSET Int /\ IsFiniteSet(S)
              /\ n \in Nat /\ a \in [1..n -> S] /\ Increasing(a, n)
              /\ \A k \in 1..n : /\ a[k] \in 1..Len(q) /\ Begin(a, k) \in 1..a[k]
                                 /\ FoldersOf(q)[k] = SubSeq(q, Begin(a, k), a[k] - 1)
              /\ FoldersOf(q) \in Seq(Seq(T)) /\ Len(FoldersOf(q)) = n
<1> DEFINE S == Slashes(q)
           a == Ascending(S)
           n == Cardinality(S)
<1>1. DOMAIN q = 1..Len(q) /\ Len(q) \in Nat /\ \A i \in 1..Len(q) : q[i] \in T
  OBVIOUS
<1>2. S \in SUBSET Int /\ IsFiniteSet(S) /\ S \in SUBSET (1..Len(q))
  <2>1. S \in SUBSET (1..Len(q)) /\ IsFiniteSet(1..Len(q)) /\ 1..Len(q) \in SUBSET Int
    BY <1>1, FS_Interval DEF Slashes
  <2> HIDE DEF S
  <2> QED
    BY <2>1, FS_Subset
<1>3. n \in Nat /\ a \in [1..n -> S] /\ Increasing(a, n)
  BY <1>2, AscendingHolds DEF Increasing
<1>4. FoldersOf(q) = [k \in 1..n |-> SubSeq(q, Begin(a, k), a[k] - 1)]
  BY <1>3 DEF FoldersOf, Slashes, Begin
<1> HIDE DEF S, a, n
<1>5. ASSUME NEW k \in 1..n PROVE a[k] \in 1..Len(q)
  BY <1>2, <1>3
<1>6. ASSUME NEW k \in 1..n PROVE Begin(a, k) \in 1..a[k]
  <2>1. CASE k = 1
    BY <1>5, <2>1 DEF Begin
  <2>2. CASE k # 1
    <3>1. k - 1 \in 1..n /\ k - 1 < k
      BY <1>3, <2>2
    <3>2. a[k - 1] < a[k] /\ a[k - 1] \in 1..Len(q) /\ a[k] \in 1..Len(q)
      BY <1>3, <1>5, <3>1 DEF Increasing
    <3> QED
      BY <2>2, <3>2 DEF Begin
  <2> QED
    BY <2>1, <2>2
<1>7. ASSUME NEW k \in 1..n PROVE SubSeq(q, Begin(a, k), a[k] - 1) \in Seq(T)
  <2> DEFINE i == Begin(a, k)
             j == a[k] - 1
  <2>1. i \in Int /\ j \in Int /\ \A x \in i..j : x \in 1..Len(q)
    BY <1>1, <1>5, <1>6
  <2> HIDE DEF i, j
  <2>2. \A x \in i..j : q[x] \in T
    BY <1>1, <2>1
  <2>3. SubSeq(q, i, j) \in Seq(T)
    BY <2>1, <2>2, SubSeqProperties
  <2> QED
    BY <2>3 DEF i, j
<1>8. FoldersOf(q) \in Seq(Seq(T)) /\ Len(FoldersOf(q)) = n
  BY <1>3, <1>4, <1>7
<1>9. \A k \in 1..n : FoldersOf(q)[k] = SubSeq(q, Begin(a, k), a[k] - 1)
  BY <1>4
<1> QED
  BY <1>2, <1>3, <1>5, <1>6, <1>8, <1>9 DEF S, a, n

(* Of two sequences, the parts of which are alike, the parts are the same.  *)
LEMMA SamePart ==
    ASSUME NEW T, NEW s, NEW t, NEW m \in Int, NEW n \in Int,
           \A i \in m..n : s[i] = t[i] /\ s[i] \in T
    PROVE  SubSeq(s, m, n) = SubSeq(t, m, n)
<1> DEFINE x == SubSeq(s, m, n)
           y == SubSeq(t, m, n)
<1>1. /\ x \in Seq(T) /\ Len(x) = IF m <= n THEN n - m + 1 ELSE 0
      /\ \A i \in 1..(n - m + 1) : x[i] = s[m + i - 1]
  BY SubSeqProperties
<1>2. /\ y \in Seq(T) /\ Len(y) = IF m <= n THEN n - m + 1 ELSE 0
      /\ \A i \in 1..(n - m + 1) : y[i] = t[m + i - 1]
  <2>1. \A i \in m..n : t[i] \in T
    OBVIOUS
  <2> QED
    BY <2>1, SubSeqProperties
<1> HIDE DEF x, y
<1>3. ASSUME NEW i \in 1..Len(x) PROVE x[i] = y[i]
  <2>1. i \in 1..(n - m + 1) /\ m + i - 1 \in m..n
    BY <1>1
  <2> QED
    BY <1>1, <1>2, <2>1
<1>4. x = y
  BY <1>1, <1>2, <1>3, SeqEqual
<1> QED
  BY <1>4 DEF x, y

(* A prefix without a slash spells the topmost folder.                      *)
LEMMA TopmostFolder ==
    ASSUME NEW T, NEW q \in Seq(T), \A i \in DOMAIN q : q[i] # Slash
    PROVE  FoldersOf(q) = <<>>
<1>1. Slashes(q) = {}
  BY DEF Slashes
<1>2. Cardinality(Slashes(q)) = 0
  BY <1>1, FS_EmptySet
<1>3. FoldersOf(q) \in Seq(Seq(T)) /\ Len(FoldersOf(q)) = 0
  BY <1>2, SpelledAre
<1> QED
  BY <1>3, EmptySeq

(* What comes after the last slash is of no folder's name.                  *)
LEMMA LastNameIsNone ==
    ASSUME NEW T, NEW q \in Seq(T), NEW l \in Nat, l <= Len(q),
           \A i \in (l + 1)..Len(q) : q[i] # Slash
    PROVE  FoldersOf(q) = FoldersOf(SubSeq(q, 1, l))
<1> DEFINE u == SubSeq(q, 1, l)
           a == Ascending(Slashes(q))
           n == Cardinality(Slashes(q))
<1>1. DOMAIN q = 1..Len(q) /\ Len(q) \in Nat /\ \A i \in 1..Len(q) : q[i] \in T
  OBVIOUS
<1>2. u \in Seq(T) /\ Len(u) = l /\ \A i \in 1..l : u[i] = q[i]
  <2>1. 1 \in Int /\ l \in Int /\ 1 <= l + 1 /\ \A i \in 1..l : q[i] \in T
    BY <1>1
  <2>2. u \in Seq(T) /\ Len(u) = l - 1 + 1 /\ \A i \in 1..(l - 1 + 1) : u[i] = q[1 + i - 1]
    BY <2>1, PartIs
  <2>3. l - 1 + 1 = l /\ \A i \in 1..l : 1 + i - 1 = i
    OBVIOUS
  <2> HIDE DEF u
  <2> QED
    BY <2>2, <2>3
<1> HIDE DEF u
<1>3. Slashes(u) = Slashes(q)
  <2>1. DOMAIN u = 1..l
    BY <1>2
  <2>2. ASSUME NEW i \in Slashes(u) PROVE i \in Slashes(q)
    <3>1. i \in 1..l /\ u[i] = Slash
      BY <2>1 DEF Slashes
    <3>2. i \in 1..Len(q)
      BY <1>1, <3>1
    <3> QED
      BY <1>1, <1>2, <3>1, <3>2 DEF Slashes
  <2>3. ASSUME NEW i \in Slashes(q) PROVE i \in Slashes(u)
    <3>1. i \in 1..Len(q) /\ q[i] = Slash
      BY <1>1 DEF Slashes
    <3>2. i \notin (l + 1)..Len(q)
      BY <3>1
    <3>3. i \in 1..l
      BY <1>1, <3>1, <3>2
    <3> QED
      BY <1>2, <2>1, <3>1, <3>3 DEF Slashes
  <2> QED
    BY <2>2, <2>3
<1>4. /\ n \in Nat /\ \A k \in 1..n : /\ a[k] \in 1..Len(q) /\ Begin(a, k) \in 1..a[k]
                                      /\ FoldersOf(q)[k] = SubSeq(q, Begin(a, k), a[k] - 1)
      /\ FoldersOf(q) \in Seq(Seq(T)) /\ Len(FoldersOf(q)) = n
  BY SpelledAre
<1>5. /\ \A k \in 1..n : /\ a[k] \in 1..Len(u)
                         /\ FoldersOf(u)[k] = SubSeq(u, Begin(a, k), a[k] - 1)
      /\ FoldersOf(u) \in Seq(Seq(T)) /\ Len(FoldersOf(u)) = n
  BY <1>2, <1>3, SpelledAre
<1> HIDE DEF a, n
<1>6. ASSUME NEW k \in 1..n PROVE FoldersOf(q)[k] = FoldersOf(u)[k]
  <2> DEFINE i == Begin(a, k)
             j == a[k] - 1
  <2>1. i \in Int /\ j \in Int /\ \A x \in i..j : x \in 1..l /\ x \in 1..Len(q)
    BY SMTT(30), <1>1, <1>2, <1>4, <1>5
  <2> HIDE DEF i, j
  <2>2. \A x \in i..j : q[x] = u[x] /\ q[x] \in T
    BY <1>1, <1>2, <2>1
  <2>3. SubSeq(q, i, j) = SubSeq(u, i, j)
    BY <2>1, <2>2, SamePart
  <2> QED
    BY <1>4, <1>5, <2>3 DEF i, j
<1>7. FoldersOf(q) = FoldersOf(u)
  <2> DEFINE N == Seq(T)
             x == FoldersOf(q)
             y == FoldersOf(u)
  <2>1. x \in Seq(N) /\ y \in Seq(N) /\ Len(x) = n /\ Len(y) = n /\ \A k \in 1..n : x[k] = y[k]
    BY <1>4, <1>5, <1>6
  <2> HIDE DEF N, x, y
  <2>2. x = y
    BY <2>1, SeqEqual
  <2> QED
    BY <2>2 DEF x, y
<1> QED
  BY <1>7 DEF u

(* The last slash adds the folder that it ends.                             *)
LEMMA FolderAdded ==
    ASSUME NEW T, NEW q \in Seq(T), NEW l \in Nat, l < Len(q), q[Len(q)] = Slash,
           l > 0 => q[l] = Slash, \A i \in (l + 1)..(Len(q) - 1) : q[i] # Slash
    PROVE  /\ SubSeq(q, 1, l) \in Seq(T) /\ Len(SubSeq(q, 1, l)) = l
           /\ \A i \in 1..l : SubSeq(q, 1, l)[i] = q[i]
           /\ SubSeq(q, l + 1, Len(q) - 1) \in Seq(T)
           /\ Len(SubSeq(q, l + 1, Len(q) - 1)) = Len(q) - 1 - l
           /\ \A i \in 1..(Len(q) - 1 - l) : SubSeq(q, l + 1, Len(q) - 1)[i] = q[l + i]
           /\ FoldersOf(q) = Append(FoldersOf(SubSeq(q, 1, l)), SubSeq(q, l + 1, Len(q) - 1))
<1> DEFINE u == SubSeq(q, 1, l)
           h == Len(q)
           name == SubSeq(q, l + 1, h - 1)
           U == Slashes(u)
           Q == Slashes(q)
           n == Cardinality(U)
           a == Ascending(U)
           b == [k \in 1..(n + 1) |-> IF k <= n THEN a[k] ELSE h]
<1>1. DOMAIN q = 1..h /\ h \in Nat /\ \A i \in 1..h : q[i] \in T
  OBVIOUS
<1> HIDE DEF h
<1>2. u \in Seq(T) /\ Len(u) = l /\ \A i \in 1..l : u[i] = q[i]
  <2>1. 1 \in Int /\ l \in Int /\ 1 <= l + 1 /\ \A i \in 1..l : q[i] \in T
    BY <1>1 DEF h
  <2>2. u \in Seq(T) /\ Len(u) = l - 1 + 1 /\ \A i \in 1..(l - 1 + 1) : u[i] = q[1 + i - 1]
    BY <2>1, PartIs
  <2>3. l - 1 + 1 = l /\ \A i \in 1..l : 1 + i - 1 = i
    OBVIOUS
  <2> HIDE DEF u
  <2> QED
    BY <2>2, <2>3
<1>3. name \in Seq(T) /\ Len(name) = h - 1 - l /\ \A i \in 1..(h - 1 - l) : name[i] = q[l + i]
  <2>1. l + 1 \in Int /\ h - 1 \in Int /\ l + 1 <= (h - 1) + 1 /\ \A i \in (l + 1)..(h - 1) : q[i] \in T
    BY <1>1 DEF h
  <2>2. /\ name \in Seq(T) /\ Len(name) = (h - 1) - (l + 1) + 1
        /\ \A i \in 1..((h - 1) - (l + 1) + 1) : name[i] = q[(l + 1) + i - 1]
    BY <2>1, PartIs
  <2>3. (h - 1) - (l + 1) + 1 = h - 1 - l /\ \A i \in 1..(h - 1 - l) : (l + 1) + i - 1 = l + i
    BY <1>1
  <2> HIDE DEF name
  <2> QED
    BY <2>2, <2>3
<1> HIDE DEF u, name
<1>4. l < h /\ q[h] = Slash /\ (l > 0 => q[l] = Slash) /\ \A i \in (l + 1)..(h - 1) : q[i] # Slash
  BY DEF h
<1>5. Q = U \cup {h} /\ h \notin U
  <2>1. DOMAIN u = 1..l
    BY <1>2
  <2>2. \A i : i \in U <=> i \in 1..l /\ q[i] = Slash
    BY <1>2, <2>1 DEF Slashes
  <2>3. \A i : i \in Q <=> i \in 1..h /\ q[i] = Slash
    BY <1>1 DEF Slashes
  <2> HIDE DEF U, Q
  <2>4. h \notin 1..l /\ h \in 1..h /\ \A i \in 1..l : i \in 1..h
    BY <1>1, <1>4
  <2>5. \A i \in 1..h : i \in 1..l \/ i = h \/ i \in (l + 1)..(h - 1)
    BY <1>1, <1>4
  <2>6. \A i \in Q : i \in U \cup {h}
    BY <1>4, <2>2, <2>3, <2>5
  <2>7. \A i \in U \cup {h} : i \in Q
    BY <1>4, <2>2, <2>3, <2>4
  <2> QED
    BY <2>2, <2>4, <2>6, <2>7
<1>6. /\ U \in SUBSET Int /\ IsFiniteSet(U) /\ n \in Nat /\ a \in [1..n -> U] /\ Increasing(a, n)
      /\ \A k \in 1..n : /\ a[k] \in 1..l /\ Begin(a, k) \in 1..a[k]
                         /\ FoldersOf(u)[k] = SubSeq(u, Begin(a, k), a[k] - 1)
      /\ FoldersOf(u) \in Seq(Seq(T)) /\ Len(FoldersOf(u)) = n
  BY <1>2, SpelledAre
<1>7. /\ Q \in SUBSET Int /\ IsFiniteSet(Q)
      /\ FoldersOf(q) \in Seq(Seq(T)) /\ Len(FoldersOf(q)) = Cardinality(Q)
      /\ \A k \in 1..Cardinality(Q) :
           FoldersOf(q)[k] = SubSeq(q, Begin(Ascending(Q), k), Ascending(Q)[k] - 1)
  BY SpelledAre
<1> HIDE DEF U, Q, a, n
<1>8. Cardinality(Q) = n + 1
  BY <1>5, <1>6, FS_AddElement DEF n
<1>9. /\ \A k \in 1..n : b[k] = a[k] /\ k \in 1..(n + 1)
      /\ b[n + 1] = h /\ n + 1 \in 1..(n + 1)
      /\ \A k \in 1..(n + 1) : k \in 1..n \/ k = n + 1
      /\ b = [k \in 1..(n + 1) |-> b[k]]
  BY <1>6
<1> HIDE DEF b
<1>10. b = Ascending(Q)
  <2>1. b \in [1..(n + 1) -> Q]
    <3>1. \A k \in 1..(n + 1) : b[k] \in Q
      BY <1>5, <1>6, <1>9
    <3> QED
      BY <1>9, <3>1
  <2>2. Increasing(b, n + 1)
    <3> SUFFICES ASSUME NEW k \in 1..(n + 1), NEW j \in 1..(n + 1), k < j PROVE b[k] < b[j]
      BY DEF Increasing
    <3>1. k \in 1..n
      BY <1>6
    <3>2. CASE j \in 1..n
      <4>1. a[k] < a[j]
        BY <1>6, <3>1, <3>2 DEF Increasing
      <4> QED
        BY <1>9, <3>1, <3>2, <4>1
    <3>3. CASE j = n + 1
      <4>1. a[k] \in 1..l
        BY <1>6, <3>1
      <4>2. a[k] < h
        BY <1>1, <1>4, <4>1
      <4> QED
        BY <1>9, <3>1, <3>3, <4>2
    <3> QED
      BY <1>9, <3>2, <3>3
  <2> QED
    BY <1>7, <1>8, <2>1, <2>2, AscendingIs
<1>11. \A k \in 1..n : Begin(b, k) = Begin(a, k)
  <2> SUFFICES ASSUME NEW k \in 1..n PROVE Begin(b, k) = Begin(a, k)
    OBVIOUS
  <2>1. k # 1 => k - 1 \in 1..n
    BY <1>6
  <2> QED
    BY <1>9, <2>1 DEF Begin
<1>12. Begin(b, n + 1) = l + 1
  <2>1. CASE n = 0
    <3>1. U = {}
      BY <1>6, <2>1, FS_EmptySet DEF n
    <3>2. l = 0
      <4> SUFFICES ASSUME l > 0 PROVE FALSE
        OBVIOUS
      <4>1. l \in DOMAIN u /\ u[l] = Slash
        BY <1>2, <1>4
      <4> QED
        BY <3>1, <4>1 DEF Slashes, U
    <3> QED
      BY <2>1, <3>2 DEF Begin
  <2>2. CASE n # 0
    <3>1. n \in 1..n /\ n + 1 # 1 /\ (n + 1) - 1 = n
      BY <1>6, <2>2
    <3>2. a[n] \in U /\ a[n] \in 1..l
      BY <1>6, <3>1
    <3>3. l > 0 /\ l \in DOMAIN u /\ u[l] = Slash
      BY <1>2, <1>4, <3>2
    <3>4. l \in U
      BY <3>3 DEF Slashes, U
    <3>5. Rank(U, l) \in 1..n /\ a[Rank(U, l)] = l
      BY <1>6, <3>4, AscendingHolds DEF a, n
    <3> DEFINE r == Rank(U, l)
    <3> HIDE DEF r
    <3>6. r \in 1..n /\ a[r] = l
      BY <3>5 DEF r
    <3>7. ~(r < n)
      <4> SUFFICES ASSUME r < n PROVE FALSE
        OBVIOUS
      <4>1. a[r] < a[n]
        BY <1>6, <3>1, <3>6 DEF Increasing
      <4> QED
        BY <3>2, <3>6, <4>1
    <3>8. a[n] = l
      <4>1. r = n
        BY <1>6, <3>6, <3>7
      <4> QED
        BY <3>6, <4>1
    <3> QED
      BY <1>9, <3>1, <3>8 DEF Begin
  <2> QED
    BY <2>1, <2>2
<1> DEFINE x == FoldersOf(u)
           y == FoldersOf(q)
           z == Append(x, name)
           N == Seq(T)
<1>13. /\ x \in Seq(N) /\ Len(x) = n /\ y \in Seq(N) /\ Len(y) = n + 1 /\ name \in N
       /\ \A k \in 1..n : x[k] = SubSeq(u, Begin(a, k), a[k] - 1)
       /\ \A k \in 1..(n + 1) : y[k] = SubSeq(q, Begin(b, k), b[k] - 1)
  BY <1>3, <1>6, <1>7, <1>8, <1>10
<1>14. ASSUME NEW k \in 1..n PROVE y[k] = x[k]
  <2> DEFINE i == Begin(a, k)
             j == a[k] - 1
  <2>1. a[k] \in 1..l /\ Begin(a, k) \in 1..a[k] /\ b[k] = a[k] /\ Begin(b, k) = Begin(a, k) /\ k \in 1..(n + 1)
    BY <1>6, <1>9, <1>11
  <2>2. i \in Int /\ j \in Int /\ \A w \in i..j : w \in 1..l /\ w \in 1..h
    BY <1>1, <1>4, <2>1
  <2>3. y[k] = SubSeq(q, i, j) /\ x[k] = SubSeq(u, i, j)
    BY <1>13, <2>1
  <2> HIDE DEF i, j, x, y
  <2>4. \A w \in i..j : q[w] = u[w] /\ q[w] \in T
    BY <1>1, <1>2, <2>2
  <2>5. SubSeq(q, i, j) = SubSeq(u, i, j)
    BY <2>2, <2>4, SamePart
  <2> QED
    BY <2>3, <2>5
<1>15. y[n + 1] = name
  <2>1. y[n + 1] = SubSeq(q, l + 1, h - 1)
    BY <1>9, <1>12, <1>13
  <2> QED
    BY <2>1 DEF name
<1> HIDE DEF x, y, N
<1>16. z \in Seq(N) /\ Len(z) = n + 1 /\ (\A k \in 1..n : z[k] = x[k]) /\ z[n + 1] = name
  BY <1>13, AppendProperties
<1> HIDE DEF z
<1>17. \A k \in 1..(n + 1) : y[k] = z[k]
  BY <1>9, <1>14, <1>15, <1>16
<1>18. y = z
  BY <1>13, <1>16, <1>17, SeqEqual
<1> QED
  BY <1>2, <1>3, <1>18 DEF u, name, x, y, z, h

(* A folder as a prefix of keys: nothing, or names with a slash after each. *)
Folder(w) == w # <<>> => w[Len(w)] = Slash

(* Before any place of a path, and after the last slash there, lies a folder.*)
LEMMA UpToTheLastName ==
    ASSUME NEW T, NEW w \in Seq(T), NEW m \in 0..Len(w)
    PROVE  \E l \in 0..m : /\ SubSeq(w, 1, l) \in Seq(T) /\ Len(SubSeq(w, 1, l)) = l
                           /\ Folder(SubSeq(w, 1, l))
                           /\ l > 0 => w[l] = Slash
                           /\ \A i \in (l + 1)..m : w[i] # Slash
<1> DEFINE slashes == {i \in 0..m : i > 0 => w[i] = Slash}
           l == Max(slashes)
<1>1. DOMAIN w = 1..Len(w) /\ Len(w) \in Nat /\ m \in Nat /\ \A i \in 1..Len(w) : w[i] \in T
  OBVIOUS
<1>2. slashes \in SUBSET Int /\ IsFiniteSet(slashes) /\ 0 \in slashes
  <2>1. IsFiniteSet(0..m) /\ 0..m \in SUBSET Int /\ slashes \in SUBSET (0..m) /\ 0 \in slashes
    BY <1>1, FS_Interval
  <2> HIDE DEF slashes
  <2> QED
    BY <2>1, FS_Subset
<1>3. l \in slashes /\ \A i \in slashes : l >= i
  <2> HIDE DEF slashes
  <2> QED
    BY <1>2, MaxHolds
<1> HIDE DEF l
<1>4. l \in 0..m /\ l \in Nat /\ (l > 0 => w[l] = Slash)
  BY <1>1, <1>3
<1>5. ASSUME NEW i \in (l + 1)..m PROVE w[i] # Slash
  <2>1. i \in 0..m /\ i > 0 /\ ~(l >= i)
    BY <1>1, <1>4
  <2> QED
    BY <1>3, <2>1
<1> DEFINE u == SubSeq(w, 1, l)
<1>6. u \in Seq(T) /\ Len(u) = l /\ \A i \in 1..l : u[i] = w[i]
  <2>1. 1 \in Int /\ l \in Int /\ 1 <= l + 1 /\ \A i \in 1..l : w[i] \in T
    BY <1>1, <1>4
  <2>2. u \in Seq(T) /\ Len(u) = l - 1 + 1 /\ \A i \in 1..(l - 1 + 1) : u[i] = w[1 + i - 1]
    BY <2>1, PartIs
  <2>3. l - 1 + 1 = l /\ \A i \in 1..l : 1 + i - 1 = i
    BY <1>4
  <2> HIDE DEF u
  <2> QED
    BY <2>2, <2>3
<1> HIDE DEF u
<1>7. Folder(u)
  <2> SUFFICES ASSUME u # <<>> PROVE u[Len(u)] = Slash
    BY DEF Folder
  <2>1. l # 0
    BY <1>6, EmptySeq
  <2> QED
    BY <1>4, <1>6, <2>1
<1> QED
  BY <1>4, <1>5, <1>6, <1>7 DEF u

(* A folder that is not the topmost one is another and a name.              *)
LEMMA FolderIsNamed ==
    ASSUME NEW T, NEW w \in Seq(T), Folder(w), w # <<>>
    PROVE  \E l \in Nat :
             LET u == SubSeq(w, 1, l)
                 name == SubSeq(w, l + 1, Len(w) - 1)
             IN /\ Len(w) \in Nat /\ l < Len(w) /\ w[Len(w)] = Slash
                /\ l > 0 => w[l] = Slash
                /\ \A i \in (l + 1)..(Len(w) - 1) : w[i] # Slash
                /\ u \in Seq(T) /\ Len(u) = l /\ Folder(u) /\ \A i \in 1..l : u[i] = w[i]
                /\ name \in Seq(T) /\ Len(name) = Len(w) - 1 - l
                /\ \A i \in 1..(Len(w) - 1 - l) : name[i] = w[l + i]
                /\ FoldersOf(w) = Append(FoldersOf(u), name)
<1> DEFINE m == Len(w) - 1
<1>1. Len(w) \in Nat \ {0} /\ w[Len(w)] = Slash
  BY EmptySeq DEF Folder
<1>2. m \in 0..Len(w)
  BY <1>1
<1>3. PICK l \in 0..m : /\ Folder(SubSeq(w, 1, l))
                        /\ l > 0 => w[l] = Slash
                        /\ \A i \in (l + 1)..m : w[i] # Slash
  <2> HIDE DEF m
  <2> QED
    BY <1>2, UpToTheLastName
<1>4. l \in Nat /\ l < Len(w)
  BY <1>1
<1>5. /\ SubSeq(w, 1, l) \in Seq(T) /\ Len(SubSeq(w, 1, l)) = l
      /\ \A i \in 1..l : SubSeq(w, 1, l)[i] = w[i]
      /\ SubSeq(w, l + 1, m) \in Seq(T) /\ Len(SubSeq(w, l + 1, m)) = m - l
      /\ \A i \in 1..(m - l) : SubSeq(w, l + 1, m)[i] = w[l + i]
      /\ FoldersOf(w) = Append(FoldersOf(SubSeq(w, 1, l)), SubSeq(w, l + 1, m))
  BY <1>1, <1>3, <1>4, FolderAdded, SMTT(30)
<1> QED
  BY <1>1, <1>3, <1>4, <1>5 DEF m

(* Names with one slash after each spell the folders that Drive walks       *)
(* through.                                                                 *)
Plain(w) == Folder(w) /\ GapFree(w) /\ (w # <<>> => w[1] # Slash)

(* A plain prefix before its last name is plain, and that name is not empty.*)
LEMMA PlainIsNamed ==
    ASSUME NEW T, NEW w \in Seq(T), Plain(w), w # <<>>
    PROVE  \E l \in Nat :
             LET u == SubSeq(w, 1, l)
                 name == SubSeq(w, l + 1, Len(w) - 1)
             IN /\ u \in Seq(T) /\ Len(u) = l /\ l < Len(w) /\ Plain(u)
                /\ FoldersOf(w) = Append(FoldersOf(u), name)
                /\ DriveSegments(w) = Append(DriveSegments(u), name)
<1> DEFINE h == Len(w)
           m == h - 1
<1>1. PICK l \in Nat :
        LET u == SubSeq(w, 1, l)
            name == SubSeq(w, l + 1, Len(w) - 1)
        IN /\ Len(w) \in Nat /\ l < Len(w) /\ w[Len(w)] = Slash
           /\ l > 0 => w[l] = Slash
           /\ \A i \in (l + 1)..(Len(w) - 1) : w[i] # Slash
           /\ u \in Seq(T) /\ Len(u) = l /\ Folder(u) /\ \A i \in 1..l : u[i] = w[i]
           /\ name \in Seq(T) /\ Len(name) = Len(w) - 1 - l
           /\ \A i \in 1..(Len(w) - 1 - l) : name[i] = w[l + i]
           /\ FoldersOf(w) = Append(FoldersOf(u), name)
  BY FolderIsNamed DEF Plain
<1> DEFINE u == SubSeq(w, 1, l)
<1>2. /\ h \in Nat /\ l < h /\ w[h] = Slash /\ (l > 0 => w[l] = Slash)
      /\ \A i \in (l + 1)..m : w[i] # Slash
      /\ u \in Seq(T) /\ Len(u) = l /\ Folder(u) /\ \A i \in 1..l : u[i] = w[i]
      /\ FoldersOf(w) = Append(FoldersOf(u), SubSeq(w, l + 1, m))
  BY <1>1
<1>3. w[1] # Slash /\ \A i \in 1..(h - 1) : w[i] # Slash \/ w[i + 1] # Slash
  BY DEF Plain, GapFree
<1> HIDE DEF h, u
<1>4. m \in Nat /\ m <= h /\ m + 1 = h /\ l <= m
  BY <1>2
<1>5. l # m
  <2> SUFFICES ASSUME l = m PROVE FALSE
    OBVIOUS
  <2>1. m # 0
    <3>1. h # 1
      BY <1>2, <1>3
    <3> QED
      BY <1>4, <3>1
  <2>2. m \in 1..(h - 1) /\ w[m] = Slash /\ w[m + 1] = Slash
    BY <1>2, <1>4, <2>1
  <2> QED
    BY <1>3, <2>2
<1>6. DriveSegments(w) = Append(DriveSegments(u), SubSeq(w, l + 1, m))
  <2>1. l < m /\ m <= Len(w) /\ \A i \in (m + 1)..Len(w) : w[i] = Slash
    <3>1. l < m /\ m <= h
      BY <1>2, <1>5
    <3>2. ASSUME NEW i \in (m + 1)..h PROVE w[i] = Slash
      <4>1. i = h
        BY <1>2, <1>4
      <4> QED
        BY <1>2, <4>1
    <3> QED
      BY <3>1, <3>2 DEF h
  <2> HIDE DEF m
  <2> QED
    BY <1>2, <1>4, <2>1, NameAdded DEF u
<1>7. Plain(u)
  <2>1. GapFree(u)
    <3> SUFFICES ASSUME NEW i \in 1..(Len(u) - 1) PROVE u[i] # Slash \/ u[i + 1] # Slash
      BY DEF GapFree
    <3>1. i \in 1..(h - 1) /\ i \in 1..l /\ i + 1 \in 1..l
      BY <1>2
    <3> QED
      BY <1>2, <1>3, <3>1
  <2>2. u # <<>> => u[1] # Slash
    <3> SUFFICES ASSUME u # <<>> PROVE u[1] # Slash
      OBVIOUS
    <3>1. Len(u) # 0
      BY <1>2, EmptySeq
    <3>2. 1 \in 1..l
      BY <1>2, <3>1
    <3> QED
      BY <1>2, <1>3, <3>2
  <2> QED
    BY <1>2, <2>1, <2>2 DEF Plain
<1> QED
  BY <1>2, <1>6, <1>7 DEF h, u

(* By their lengths: a plain prefix spells the folders that are walked.     *)
LEMMA SpelledAsWalked ==
    ASSUME NEW T
    PROVE  \A w \in Seq(T) : Plain(w) => FoldersOf(w) = DriveSegments(w)
<1> DEFINE Differs(w) == Plain(w) /\ FoldersOf(w) # DriveSegments(w)
           lengths == {n \in Nat : \E w \in Seq(T) : Len(w) = n /\ Differs(w)}
<1> SUFFICES ASSUME lengths # {} PROVE FALSE
  <2>1. \A w \in Seq(T) : Len(w) \in Nat
    OBVIOUS
  <2> QED
    BY <2>1
<1>1. lengths \subseteq Nat
  OBVIOUS
<1>2. PICK n \in lengths : \A k \in lengths : <<k, n>> \notin OpToRel(<, Nat)
  <2> HIDE DEF lengths
  <2> QED
    BY <1>1, WFMin, NatLessThanWellFounded
<1>3. \A k \in lengths : ~(k < n)
  <2> HIDE DEF lengths
  <2> QED
    BY <1>1, <1>2 DEF OpToRel
<1>4. PICK w \in Seq(T) : Len(w) = n /\ Differs(w)
  BY <1>2
<1>5. w # <<>>
  <2>1. <<>> \in Seq(T) /\ DOMAIN <<>> = {}
    OBVIOUS
  <2>2. FoldersOf(<<>>) = <<>> /\ DriveSegments(<<>>) = <<>>
    BY <2>1, TopmostFolder, NoFolders
  <2> QED
    BY <1>4, <2>2
<1>6. PICK l \in Nat :
        LET u == SubSeq(w, 1, l)
            name == SubSeq(w, l + 1, Len(w) - 1)
        IN /\ u \in Seq(T) /\ Len(u) = l /\ l < Len(w) /\ Plain(u)
           /\ FoldersOf(w) = Append(FoldersOf(u), name)
           /\ DriveSegments(w) = Append(DriveSegments(u), name)
  BY <1>4, <1>5, PlainIsNamed
<1>7. FoldersOf(SubSeq(w, 1, l)) = DriveSegments(SubSeq(w, 1, l))
  <2>1. l \notin lengths
    BY <1>3, <1>4, <1>6
  <2> QED
    BY <1>6, <2>1
<1> QED
  BY <1>4, <1>6, <1>7

(* Between two slashes in a row there is a folder without a name.           *)
LEMMA GapSpellsNothing ==
    ASSUME NEW T, NEW w \in Seq(T), ~GapFree(w)
    PROVE  \E k \in 1..Len(FoldersOf(w)) : Len(FoldersOf(w)[k]) = 0
<1> DEFINE S == Slashes(w)
           a == Ascending(S)
           n == Cardinality(S)
<1>1. PICK i \in 1..(Len(w) - 1) : w[i] = Slash /\ w[i + 1] = Slash
  BY DEF GapFree
<1>2. /\ S \in SUBSET Int /\ IsFiniteSet(S)
      /\ n \in Nat /\ a \in [1..n -> S] /\ Increasing(a, n)
      /\ \A k \in 1..n : a[k] \in 1..Len(w) /\ FoldersOf(w)[k] = SubSeq(w, Begin(a, k), a[k] - 1)
      /\ Len(FoldersOf(w)) = n
  BY SpelledAre
<1>3. i \in Int /\ i \in S /\ i + 1 \in S
  <2>1. DOMAIN w = 1..Len(w) /\ Len(w) \in Nat
    OBVIOUS
  <2>2. i \in 1..Len(w) /\ i + 1 \in 1..Len(w)
    BY <2>1
  <2> QED
    BY <1>1, <2>1, <2>2 DEF Slashes
<1> DEFINE j == Rank(S, i)
           k == Rank(S, i + 1)
<1>4. j \in 1..n /\ a[j] = i /\ k \in 1..n /\ a[k] = i + 1
  BY <1>2, <1>3, AscendingHolds
<1>5. j < k
  <2>1. i < i + 1
    BY <1>3
  <2> QED
    BY <1>2, <1>3, <2>1, AscendingHolds
<1> HIDE DEF S, a, n, j, k
<1>6. j = k - 1
  <2> SUFFICES ASSUME j # k - 1 PROVE FALSE
    OBVIOUS
  <2>1. k - 1 \in 1..n /\ j < k - 1 /\ k - 1 < k
    BY <1>2, <1>4, <1>5
  <2>2. a[j] < a[k - 1] /\ a[k - 1] < a[k]
    BY <1>2, <1>4, <2>1 DEF Increasing
  <2>3. a[k - 1] \in Int
    BY <1>2, <2>1
  <2> QED
    BY <1>3, <1>4, <2>2, <2>3
<1>7. Begin(a, k) = i + 1 /\ a[k] - 1 = i
  <2>1. k # 1
    BY <1>2, <1>4, <1>6
  <2> QED
    BY <1>3, <1>4, <1>6, <2>1 DEF Begin
<1>8. FoldersOf(w)[k] = SubSeq(w, i + 1, i)
  BY <1>2, <1>4, <1>7
<1>9. SubSeq(w, i + 1, i) = <<>>
  <2>1. i + 1 \in Int /\ i \in Int /\ i < i + 1
    BY <1>3
  <2> QED
    BY <2>1, SubSeqEmpty
<1> QED
  BY <1>2, <1>4, <1>8, <1>9, EmptySeq

(* S3 lists the folder that Drive walks to, unless slashes are doubled      *)
(* between names.                                                           *)
LEMMA PrefixSpells ==
    ASSUME NEW p \in Seq(Characters)
    PROVE  FoldersOf(S3Prefix(p)) = DriveSegments(p) <=> GapFree(Stripped(p, TRUE, TRUE))
<1> DEFINE w == S3Prefix(p)
<1>1. /\ w \in Seq(Characters) /\ DriveSegments(w) = DriveSegments(p)
      /\ w # <<>> => w[1] # Slash /\ w[Len(w)] = Slash
      /\ GapFree(w) <=> GapFree(Stripped(p, TRUE, TRUE))
  BY PrefixIs
<1> HIDE DEF w
<1>2. ASSUME GapFree(w) PROVE FoldersOf(w) = DriveSegments(w)
  <2>1. Plain(w)
    BY <1>1, <1>2 DEF Plain, Folder
  <2> QED
    BY <1>1, <2>1, SpelledAsWalked
<1>3. ASSUME ~GapFree(w) PROVE FoldersOf(w) # DriveSegments(w)
  <2>1. PICK k \in 1..Len(FoldersOf(w)) : Len(FoldersOf(w)[k]) = 0
    BY <1>1, <1>3, GapSpellsNothing
  <2>2. \A j \in 1..Len(DriveSegments(w)) : Len(DriveSegments(w)[j]) # 0
    BY <1>1, SegmentsAre
  <2> QED
    BY <2>1, <2>2
<1> QED
  BY <1>1, <1>2, <1>3 DEF w

(* Dropbox's path is S3's prefix with the slash at the other end, unless    *)
(* the setting begins with two.                                             *)
LEMMA DropboxSpells ==
    ASSUME NEW path \in Seq(Characters)
    PROVE  LET d == DropboxPath(path)
               s == S3Prefix(path)
               p == Stripped(path, FALSE, TRUE)
           IN Append(d, Slash) = <<Slash>> \o s <=> ~(Len(p) > 1 /\ p[1] = Slash /\ p[2] = Slash)
<1> DEFINE names == {i \in DOMAIN path : path[i] # Slash}
           d == DropboxPath(path)
           s == S3Prefix(path)
           p == Stripped(path, FALSE, TRUE)
           t == Stripped(path, TRUE, TRUE)
           A == Append(d, Slash)
           B == <<Slash>> \o s
<1>0. /\ Slash \in Characters /\ <<Slash>> \in Seq(Characters)
      /\ Len(<<Slash>>) = 1 /\ <<Slash>>[1] = Slash
  BY DEF Characters
<1>1. CASE names = {}
  <2>1. p = <<>> /\ t = <<>>
    BY <1>1, StrippedIs
  <2>2. d = <<>> /\ s = <<>>
    BY <2>1 DEF DropboxPath, S3Prefix
  <2>3. Append(<<>>, Slash) = <<Slash>> \o <<>>
    BY <1>0, ConcatEmptySeq
  <2>4. ~(Len(p) > 1)
    <3> HIDE DEF p
    <3>1. Len(p) = 0
      BY <2>1, EmptySeq
    <3> QED
      BY <3>1
  <2> HIDE DEF d, s, p
  <2> QED
    BY <2>2, <2>3, <2>4 DEF d, s, p
<1>2. CASE names # {}
  <2>1. PICK a \in names, b \in names :
           /\ \A i \in names : a <= i /\ i <= b
           /\ a \in 1..Len(path) /\ b \in 1..Len(path) /\ a <= b
           /\ t = SubSeq(path, a, b)
           /\ p = SubSeq(path, 1, b)
    BY <1>2, StrippedIs
  <2>2. DOMAIN path = 1..Len(path) /\ Len(path) \in Nat /\ \A i \in DOMAIN path : path[i] \in Characters
    OBVIOUS
  <2> DEFINE m == b - a + 1
  <2>3. a \in Nat \ {0} /\ b \in Nat \ {0} /\ m \in Nat \ {0} /\ path[a] # Slash /\ path[b] # Slash /\ a <= b
    BY <2>1, <2>2
  <2>4. /\ \A i \in 1..b : path[i] \in Characters
        /\ \A i \in 1..(a - 1) : path[i] = Slash
    <3>1. ASSUME NEW i \in 1..b PROVE path[i] \in Characters
      BY <2>1, <2>2
    <3>2. ASSUME NEW i \in 1..(a - 1) PROVE path[i] = Slash
      <4>1. i \in DOMAIN path /\ ~(a <= i)
        BY <2>1, <2>2
      <4> QED
        BY <2>1, <4>1
    <3> QED
      BY <3>1, <3>2
  <2> HIDE DEF names, t, p, d, s
  <2>5. t \in Seq(Characters) /\ Len(t) = m /\ \A i \in 1..m : t[i] = path[a + i - 1]
    <3>1. a \in Int /\ b \in Int /\ a <= b + 1 /\ \A i \in a..b : path[i] \in Characters
      BY <2>3, <2>4
    <3> QED
      BY <2>1, <3>1, PartIs
  <2>6. p \in Seq(Characters) /\ Len(p) = b /\ \A i \in 1..b : p[i] = path[i]
    <3>1. 1 \in Int /\ b \in Int /\ 1 <= b + 1 /\ \A i \in 1..b : path[i] \in Characters
      BY <2>3, <2>4
    <3>2. /\ p \in Seq(Characters) /\ Len(p) = b - 1 + 1
          /\ \A i \in 1..(b - 1 + 1) : p[i] = path[1 + i - 1]
      BY <2>1, <3>1, PartIs
    <3>3. b - 1 + 1 = b /\ \A i \in 1..b : 1 + i - 1 = i
      BY <2>3
    <3> QED
      BY <3>2, <3>3
  <2>7. t # <<>> /\ p # <<>>
    <3>1. Len(t) # 0 /\ Len(p) # 0 /\ Len(<<>>) = 0
      BY <2>3, <2>5, <2>6
    <3> QED
      BY <3>1
  <2>8. s = t \o <<Slash>> /\ d = IF p[1] = Slash THEN p ELSE <<Slash>> \o p
    BY <2>7 DEF S3Prefix, DropboxPath, s, t, d, p
  <2> HIDE DEF m
  <2>9. /\ s \in Seq(Characters) /\ Len(s) = m + 1
        /\ \A i \in 1..m : s[i] = path[a + i - 1]
        /\ s[m + 1] = Slash
    <3>1. /\ s \in Seq(Characters) /\ Len(s) = m + 1
          /\ \A i \in 1..(m + 1) : s[i] = IF i <= m THEN t[i] ELSE <<Slash>>[i - m]
      BY <1>0, <2>5, <2>8, ConcatProperties
    <3>2. m + 1 \in 1..(m + 1) /\ ~(m + 1 <= m) /\ (m + 1) - m = 1
      BY <2>3
    <3>3. \A i \in 1..m : i \in 1..(m + 1) /\ i <= m
      BY <2>3
    <3>4. s[m + 1] = Slash
      BY <1>0, <3>1, <3>2
    <3> QED
      BY <2>5, <3>1, <3>3, <3>4
  <2>10. /\ B \in Seq(Characters) /\ Len(B) = m + 2 /\ B[1] = Slash
         /\ \A i \in 1..(m + 1) : B[i + 1] = s[i]
    <3>1. /\ B \in Seq(Characters) /\ Len(B) = 1 + (m + 1)
          /\ \A i \in 1..(1 + (m + 1)) : B[i] = IF i <= 1 THEN <<Slash>>[i] ELSE s[i - 1]
      BY <1>0, <2>9, ConcatProperties
    <3>2. 1 + (m + 1) = m + 2 /\ 1 \in 1..(1 + (m + 1))
      BY <2>3
    <3>3. \A i \in 1..(m + 1) : i + 1 \in 1..(1 + (m + 1)) /\ ~(i + 1 <= 1) /\ (i + 1) - 1 = i
      BY <2>3
    <3> HIDE DEF B
    <3> QED
      BY <1>0, <3>1, <3>2, <3>3
  <2> HIDE DEF A, B
  <2>11. /\ \A i \in 1..m : B[i + 1] = path[a + i - 1]
         /\ B[m + 2] = Slash
    <3>1. m + 1 \in 1..(m + 1) /\ (m + 1) + 1 = m + 2 /\ \A i \in 1..m : i \in 1..(m + 1)
      BY <2>3
    <3> QED
      BY <2>9, <2>10, <3>1
  <2>12. CASE p[1] # Slash
    <3>1. a = 1 /\ m = b
      <4>1. 1 \in 1..b
        BY <2>3
      <4>2. path[1] # Slash
        BY <2>6, <2>12, <4>1
      <4>3. 1 \notin 1..(a - 1)
        BY <2>4, <4>2
      <4> QED
        BY <2>3, <4>3 DEF m
    <3>2. /\ d \in Seq(Characters) /\ Len(d) = 1 + b
          /\ \A i \in 1..(1 + b) : d[i] = IF i <= 1 THEN <<Slash>>[i] ELSE p[i - 1]
      BY <1>0, <2>6, <2>8, <2>12, ConcatProperties
    <3>3. /\ A \in Seq(Characters) /\ Len(A) = (1 + b) + 1
          /\ \A i \in 1..(1 + b) : A[i] = d[i]
          /\ A[(1 + b) + 1] = Slash
      BY <1>0, <3>2, AppendProperties DEF A
    <3>4. ASSUME NEW i \in 1..Len(A) PROVE A[i] = B[i]
      <4>1. CASE i = 1
        <5>1. 1 \in 1..(1 + b) /\ 1 <= 1
          BY <2>3
        <5> QED
          BY <1>0, <2>10, <3>2, <3>3, <4>1, <5>1
      <4>2. CASE i = (1 + b) + 1
        <5>1. i = m + 2
          BY <2>3, <3>1, <4>2
        <5> QED
          BY <2>11, <3>3, <4>2, <5>1
      <4>3. CASE i # 1 /\ i # (1 + b) + 1
        <5>1. i \in 1..(1 + b) /\ ~(i <= 1) /\ i - 1 \in 1..b /\ i - 1 \in 1..m /\ (i - 1) + 1 = i
              /\ a + (i - 1) - 1 = i - 1
          BY <2>3, <3>1, <3>3, <4>3
        <5>2. A[i] = path[i - 1]
          BY <2>6, <3>2, <3>3, <5>1
        <5>3. B[i] = path[i - 1]
          BY <2>11, <5>1
        <5> QED
          BY <5>2, <5>3
      <4> QED
        BY <4>1, <4>2, <4>3
    <3>5. A = B
      <4>1. Len(A) = Len(B)
        BY <2>3, <2>10, <3>1, <3>3
      <4> QED
        BY <2>10, <3>3, <3>4, <4>1, SeqEqual
    <3> QED
      BY <2>12, <3>5 DEF A, B, d, s, p
  <2>13. CASE p[1] = Slash
    <3>1. d = p
      BY <2>8, <2>13
    <3>2. /\ A \in Seq(Characters) /\ Len(A) = b + 1
          /\ \A i \in 1..b : A[i] = path[i]
          /\ A[b + 1] = Slash
      BY <1>0, <2>6, <3>1, AppendProperties DEF A
    <3>3. path[1] = Slash /\ b # 1 /\ a # 1
      <4>1. 1 \in 1..b
        BY <2>3
      <4> QED
        BY <2>3, <2>6, <2>13, <4>1
    <3>4. 2 \in 1..b /\ Len(p) > 1 /\ p[2] = path[2]
      <4>1. 2 \in 1..b
        BY <2>3, <3>3
      <4> QED
        BY <2>3, <2>6, <4>1
    <3>5. CASE path[2] = Slash
      <4>1. A[2] = Slash
        BY <3>2, <3>4, <3>5
      <4>2. B[2] # Slash
        <5>1. 1 \in 1..m /\ 1 + 1 = 2 /\ a + 1 - 1 = a
          BY <2>3
        <5> QED
          BY <2>3, <2>11, <5>1
      <4>3. A # B
        BY <4>1, <4>2
      <4> QED
        BY <2>13, <3>4, <3>5, <4>3 DEF A, B, d, s, p
    <3>6. CASE path[2] # Slash
      <4>1. a = 2 /\ m = b - 1
        <5>1. 2 \notin 1..(a - 1)
          BY <2>4, <3>6
        <5> QED
          BY <2>3, <3>3, <5>1 DEF m
      <4>2. ASSUME NEW i \in 1..Len(A) PROVE A[i] = B[i]
        <5>1. CASE i = 1
          <6>1. 1 \in 1..b
            BY <2>3
          <6> QED
            BY <2>10, <3>2, <3>3, <5>1, <6>1
        <5>2. CASE i = b + 1
          <6>1. i = m + 2
            BY <2>3, <4>1, <5>2
          <6> QED
            BY <2>11, <3>2, <5>2, <6>1
        <5>3. CASE i # 1 /\ i # b + 1
          <6>1. i \in 1..b /\ i - 1 \in 1..m /\ (i - 1) + 1 = i /\ a + (i - 1) - 1 = i
            BY <2>3, <3>2, <4>1, <5>3
          <6>2. B[i] = path[i]
            BY <2>11, <6>1
          <6> QED
            BY <3>2, <6>1, <6>2
        <5> QED
          BY <5>1, <5>2, <5>3
      <4>3. A = B
        <5>1. Len(A) = Len(B)
          BY <2>3, <2>10, <3>2, <4>1
        <5> QED
          BY <2>10, <3>2, <4>2, <5>1, SeqEqual
      <4> QED
        BY <3>4, <3>6, <4>3 DEF A, B, d, s, p
    <3> QED
      BY <3>5, <3>6
  <2> QED
    BY <2>12, <2>13
<1> QED
  BY <1>1, <1>2

(* Where S3's folder is that of Drive, and Dropbox's that of S3.            *)
LEMMA OneFolder == RulesInv => SameFolderEverywhere
<1> SUFFICES ASSUME RulesInv, topic = "path"
             PROVE  LET d == DropboxPath(items)
                        s == S3Prefix(items)
                        p == Stripped(items, FALSE, TRUE)
                    IN /\ FoldersOf(s) = DriveSegments(items) <=> GapFree(Stripped(items, TRUE, TRUE))
                       /\ Append(d, Slash) = <<Slash>> \o s
                             <=> ~(Len(p) > 1 /\ p[1] = Slash /\ p[2] = Slash)
  BY DEF SameFolderEverywhere, About
<1>1. items \in Seq(Characters)
  <2>1. items \in Seq(ItemsOf["path"]) /\ ItemsOf["path"] \subseteq Characters
    BY DEF RulesInv, Typed, Characters
  <2> HIDE DEF Characters
  <2> QED
    BY <2>1
<1> QED
  BY <1>1, PrefixSpells, DropboxSpells

(* One name more: the last, and those before it.                            *)
LEMMA OneNameMore ==
    ASSUME NEW T, NEW s \in Seq(T), NEW x \in T
    PROVE  /\ Append(s, x) # <<>> /\ Front(Append(s, x)) = s
           /\ \A t \in Seq(T), y \in T : Append(s, x) = Append(t, y) => s = t /\ x = y
<1>1. ASSUME NEW t \in Seq(T), NEW y \in T PROVE Front(Append(t, y)) = t
  <2> DEFINE a == Append(t, y)
  <2>1. a \in Seq(T) /\ Len(a) = Len(t) + 1 /\ Len(t) \in Nat /\ \A i \in 1..Len(t) : a[i] = t[i] /\ a[i] \in T
    BY AppendProperties
  <2>2. Front(a) = SubSeq(a, 1, Len(t))
    <3>1. (Len(t) + 1) - 1 = Len(t)
      BY <2>1
    <3> QED
      BY <2>1, <3>1 DEF Front
  <2> HIDE DEF a
  <2>3. /\ SubSeq(a, 1, Len(t)) \in Seq(T)
        /\ Len(SubSeq(a, 1, Len(t))) = IF 1 <= Len(t) THEN Len(t) - 1 + 1 ELSE 0
        /\ \A i \in 1..(Len(t) - 1 + 1) : SubSeq(a, 1, Len(t))[i] = a[1 + i - 1]
    <3>1. 1 \in Int /\ Len(t) \in Int /\ \A i \in 1..Len(t) : a[i] \in T
      BY <2>1
    <3> QED
      BY <3>1, SubSeqProperties
  <2>4. Len(SubSeq(a, 1, Len(t))) = Len(t) /\ Len(t) - 1 + 1 = Len(t) /\ \A i \in 1..Len(t) : 1 + i - 1 = i
    BY <2>1, <2>3
  <2>5. \A i \in 1..Len(t) : SubSeq(a, 1, Len(t))[i] = t[i]
    BY <2>1, <2>3, <2>4
  <2>6. SubSeq(a, 1, Len(t)) = t
    BY <2>3, <2>4, <2>5, SeqEqual
  <2> QED
    BY <2>2, <2>6 DEF a
<1>2. ASSUME NEW t \in Seq(T), NEW y \in T, Append(s, x) = Append(t, y) PROVE s = t /\ x = y
  <2>1. s = t
    BY <1>1, <1>2
  <2>2. Append(s, x)[Len(s) + 1] = x /\ Append(t, y)[Len(t) + 1] = y
    BY AppendProperties
  <2> QED
    BY <1>2, <2>1, <2>2
<1>3. Append(s, x) # <<>>
  BY AppendProperties
<1> QED
  BY <1>1, <1>2, <1>3

(* Lists with one name more are equal if the lists and the names are.       *)
LEMMA SameName ==
    ASSUME NEW T, NEW s \in Seq(T), NEW t \in Seq(T), NEW x \in T, NEW y \in T,
           Append(s, x) = Append(t, y)
    PROVE  s = t /\ x = y
BY OneNameMore

(* Two prefixes of the same folder are the same.                            *)
LEMMA OnePrefix ==
    ASSUME NEW T
    PROVE  \A u, v \in Seq(T) : Folder(u) /\ Folder(v) /\ FoldersOf(u) = FoldersOf(v) => u = v
<1> DEFINE Differ(u, v) == Folder(u) /\ Folder(v) /\ FoldersOf(u) = FoldersOf(v) /\ u # v
           lengths == {n \in Nat : \E u, v \in Seq(T) : Len(u) = n /\ Differ(u, v)}
<1> SUFFICES ASSUME lengths # {} PROVE FALSE
  <2>1. \A u \in Seq(T) : Len(u) \in Nat
    OBVIOUS
  <2> QED
    BY <2>1
<1>1. lengths \subseteq Nat
  OBVIOUS
<1>2. PICK n \in lengths : \A k \in lengths : <<k, n>> \notin OpToRel(<, Nat)
  <2> HIDE DEF lengths
  <2> QED
    BY <1>1, WFMin, NatLessThanWellFounded
<1>3. \A k \in lengths : ~(k < n)
  <2> HIDE DEF lengths
  <2> QED
    BY <1>1, <1>2 DEF OpToRel
<1>4. PICK u \in Seq(T), v \in Seq(T) : Len(u) = n /\ Differ(u, v)
  BY <1>2
<1>5. ASSUME NEW w \in Seq(T), Folder(w), w # <<>>
      PROVE  FoldersOf(w) # <<>>
  <2>1. PICK l \in Nat : /\ SubSeq(w, 1, l) \in Seq(T)
                         /\ SubSeq(w, l + 1, Len(w) - 1) \in Seq(T)
                         /\ FoldersOf(w) =
                              Append(FoldersOf(SubSeq(w, 1, l)), SubSeq(w, l + 1, Len(w) - 1))
    BY <1>5, FolderIsNamed
  <2>2. FoldersOf(SubSeq(w, 1, l)) \in Seq(Seq(T))
    BY <2>1, SpelledAre
  <2>3. \A s \in Seq(Seq(T)), e \in Seq(T) : Append(s, e) # <<>>
    BY OneNameMore
  <2> QED
    BY <2>1, <2>2, <2>3
<1>6. FoldersOf(<<>>) = <<>>
  <2>1. <<>> \in Seq(T) /\ \A i \in DOMAIN <<>> : <<>>[i] # Slash
    OBVIOUS
  <2> QED
    BY <2>1, TopmostFolder
<1>7. u # <<>> /\ v # <<>>
  BY <1>4, <1>5, <1>6
<1>8. PICK l \in Nat :
        LET a == SubSeq(u, 1, l)
            name == SubSeq(u, l + 1, Len(u) - 1)
        IN /\ Len(u) \in Nat /\ l < Len(u) /\ u[Len(u)] = Slash
           /\ l > 0 => u[l] = Slash
           /\ \A i \in (l + 1)..(Len(u) - 1) : u[i] # Slash
           /\ a \in Seq(T) /\ Len(a) = l /\ Folder(a) /\ \A i \in 1..l : a[i] = u[i]
           /\ name \in Seq(T) /\ Len(name) = Len(u) - 1 - l
           /\ \A i \in 1..(Len(u) - 1 - l) : name[i] = u[l + i]
           /\ FoldersOf(u) = Append(FoldersOf(a), name)
  BY <1>4, <1>7, FolderIsNamed
<1>9. PICK k \in Nat :
        LET a == SubSeq(v, 1, k)
            name == SubSeq(v, k + 1, Len(v) - 1)
        IN /\ Len(v) \in Nat /\ k < Len(v) /\ v[Len(v)] = Slash
           /\ k > 0 => v[k] = Slash
           /\ \A i \in (k + 1)..(Len(v) - 1) : v[i] # Slash
           /\ a \in Seq(T) /\ Len(a) = k /\ Folder(a) /\ \A i \in 1..k : a[i] = v[i]
           /\ name \in Seq(T) /\ Len(name) = Len(v) - 1 - k
           /\ \A i \in 1..(Len(v) - 1 - k) : name[i] = v[k + i]
           /\ FoldersOf(v) = Append(FoldersOf(a), name)
  BY <1>4, <1>7, FolderIsNamed
<1> DEFINE a == SubSeq(u, 1, l)
           b == SubSeq(v, 1, k)
           x == SubSeq(u, l + 1, Len(u) - 1)
           y == SubSeq(v, k + 1, Len(v) - 1)
<1>10. FoldersOf(a) = FoldersOf(b) /\ x = y
  <2>1. a \in Seq(T) /\ b \in Seq(T) /\ x \in Seq(T) /\ y \in Seq(T)
        /\ Append(FoldersOf(a), x) = Append(FoldersOf(b), y)
    BY <1>4, <1>8, <1>9
  <2> HIDE DEF a, b, x, y
  <2>2. FoldersOf(a) \in Seq(Seq(T)) /\ FoldersOf(b) \in Seq(Seq(T))
    BY <2>1, SpelledAre
  <2> DEFINE s == FoldersOf(a)
             t == FoldersOf(b)
             N == Seq(T)
  <2>3. s \in Seq(N) /\ t \in Seq(N) /\ x \in N /\ y \in N /\ Append(s, x) = Append(t, y)
    BY <2>1, <2>2
  <2> HIDE DEF s, t, N, lengths
  <2>4. s = t /\ x = y
    BY <2>3, SameName
  <2> QED
    BY <2>4 DEF s, t
<1>11. a = b
  <2>1. a \in Seq(T) /\ b \in Seq(T) /\ Folder(a) /\ Folder(b) /\ Len(a) \in Nat /\ Len(a) < n
    BY <1>4, <1>8, <1>9, SMTT(30)
  <2>2. Len(a) \notin lengths
    BY <1>3, <2>1
  <2> HIDE DEF a, b
  <2> QED
    BY <1>10, <2>1, <2>2
<1>12. l = k /\ Len(u) = Len(v)
  <2>1. l = k
    BY <1>8, <1>9, <1>11
  <2>2. Len(u) - 1 - l = Len(v) - 1 - k
    BY <1>8, <1>9, <1>10
  <2> QED
    BY <1>8, <1>9, <2>1, <2>2
<1>13. ASSUME NEW i \in 1..Len(u) PROVE u[i] = v[i]
  <2>1. CASE i <= l
    <3>1. i \in 1..l
      BY <2>1
    <3> QED
      BY <1>8, <1>9, <1>11, <1>12, <3>1
  <2>2. CASE l < i /\ i < Len(u)
    <3>1. i - l \in 1..(Len(u) - 1 - l) /\ l + (i - l) = i
      BY <1>8, <2>2
    <3>2. x[i - l] = u[i] /\ y[i - l] = v[i]
      BY <1>8, <1>9, <1>12, <3>1
    <3> QED
      BY <1>10, <3>2
  <2>3. CASE i = Len(u)
    <3>1. u[Len(u)] = Slash /\ v[Len(v)] = Slash
      BY <1>8, <1>9
    <3> QED
      BY <1>12, <2>3, <3>1
  <2>4. Len(u) \in Nat /\ l \in Nat
    BY <1>8
  <2>5. i \in Nat /\ i <= Len(u)
    BY <2>4
  <2> QED
    BY <2>1, <2>2, <2>3, <2>4, <2>5
<1>14. u = v
  BY <1>12, <1>13, SeqEqual
<1> QED
  BY <1>4, <1>14

(* A listing gives the files of the folder, and no other.                   *)
LEMMA ListedAreChildren == RulesInv => OnlyDirectChildren
<1> SUFFICES ASSUME RulesInv, topic = "path"
             PROVE  LET keys == SeqOf(ItemsOf["path"], MaxItems["path"]) \ {<<>>}
                        s    == S3Prefix(items)
                    IN S3Listed(keys, s) = {k \in keys : k[Len(k)] # Slash /\ FoldersOf(k) = FoldersOf(s)}
  BY DEF OnlyDirectChildren, About
<1> DEFINE keys == SeqOf(ItemsOf["path"], MaxItems["path"]) \ {<<>>}
           w == S3Prefix(items)
           n == Len(w)
           Listed(k) == IsStrictPrefix(w, k) /\ \A i \in (n + 1)..Len(k) : k[i] # Slash
           Child(k) == k[Len(k)] # Slash /\ FoldersOf(k) = FoldersOf(w)
<1>1. items \in Seq(Characters)
  <2>1. items \in Seq(ItemsOf["path"]) /\ ItemsOf["path"] \subseteq Characters
    BY DEF RulesInv, Typed, Characters
  <2> HIDE DEF Characters
  <2> QED
    BY <2>1
<1>2. w \in Seq(Characters) /\ n \in Nat /\ Folder(w)
  <2>1. w \in Seq(Characters) /\ (w # <<>> => w[Len(w)] = Slash)
    BY <1>1, PrefixIs
  <2> HIDE DEF w
  <2> QED
    BY <2>1 DEF Folder
<1> HIDE DEF w
<1>3. ASSUME NEW k \in keys PROVE k \in Seq(Characters) /\ Len(k) \in Nat \ {0}
  <2>1. PICK m \in 0..MaxItems["path"] : k \in [1..m -> ItemsOf["path"]]
    BY DEF SeqOf
  <2>2. m \in Nat
    BY <2>1
  <2>3. k \in Seq(ItemsOf["path"]) /\ ItemsOf["path"] \subseteq Characters
    BY <2>1, <2>2 DEF Characters
  <2>4. k \in Seq(Characters) /\ k # <<>>
    <3> HIDE DEF Characters
    <3> QED
      BY <2>3
  <2> QED
    BY <2>4, EmptySeq
<1>4. \A s \in Seq(Characters) : SubSeq(s, 1, Len(s)) = s
  <2> SUFFICES ASSUME NEW s \in Seq(Characters) PROVE SubSeq(s, 1, Len(s)) = s
    OBVIOUS
  <2> DEFINE j == Len(s)
  <2>1. 1 \in Int /\ j \in Int /\ 1 <= j + 1 /\ \A i \in 1..j : s[i] \in Characters
    OBVIOUS
  <2>2. /\ SubSeq(s, 1, j) \in Seq(Characters) /\ Len(SubSeq(s, 1, j)) = j - 1 + 1
        /\ \A i \in 1..(j - 1 + 1) : SubSeq(s, 1, j)[i] = s[1 + i - 1]
    BY <2>1, PartIs
  <2>3. j - 1 + 1 = j /\ \A i \in 1..j : 1 + i - 1 = i
    BY <2>1
  <2>4. \A i \in 1..j : SubSeq(s, 1, j)[i] = s[i]
    BY <2>2, <2>3
  <2> QED
    BY <2>2, <2>3, <2>4, SeqEqual
<1> HIDE DEF keys
<1>5. ASSUME NEW k \in keys, Listed(k) PROVE Child(k)
  <2>1. n <= Len(k) /\ SubSeq(w, 1, n) = SubSeq(k, 1, n) /\ w # k
    BY <1>5 DEF IsStrictPrefix, IsPrefix
  <2>2. SubSeq(k, 1, n) = w /\ n < Len(k)
    <3>1. SubSeq(k, 1, n) = w /\ SubSeq(k, 1, Len(k)) = k
      BY <1>2, <1>3, <1>4, <2>1
    <3>2. n # Len(k)
      BY <2>1, <3>1
    <3> HIDE DEF n
    <3>3. n < Len(k)
      BY <1>2, <1>3, <2>1, <3>2
    <3> QED
      BY <3>1, <3>3
  <2>3. \A i \in (n + 1)..Len(k) : k[i] # Slash
    BY <1>5
  <2> HIDE DEF n
  <2>4. FoldersOf(k) = FoldersOf(w)
    <3>1. FoldersOf(k) = FoldersOf(SubSeq(k, 1, n))
      BY <1>2, <1>3, <2>2, <2>3, LastNameIsNone
    <3> QED
      BY <2>2, <3>1
  <2>5. k[Len(k)] # Slash
    <3>1. Len(k) \in (n + 1)..Len(k)
      BY <1>2, <1>3, <2>2
    <3> QED
      BY <2>3, <3>1
  <2> QED
    BY <2>4, <2>5
<1>6. ASSUME NEW k \in keys, Child(k) PROVE Listed(k)
  <2> DEFINE m == Len(k)
  <2>1. k \in Seq(Characters) /\ m \in 0..Len(k) /\ m \in Nat \ {0} /\ k[m] # Slash
    BY <1>3, <1>6
  <2>2. PICK l \in 0..m : /\ SubSeq(k, 1, l) \in Seq(Characters) /\ Len(SubSeq(k, 1, l)) = l
                          /\ Folder(SubSeq(k, 1, l))
                          /\ l > 0 => k[l] = Slash
                          /\ \A i \in (l + 1)..m : k[i] # Slash
    <3> HIDE DEF m
    <3> QED
      BY <2>1, UpToTheLastName
  <2> DEFINE u == SubSeq(k, 1, l)
  <2>3. FoldersOf(k) = FoldersOf(u)
    <3>1. l \in Nat /\ l <= Len(k) /\ \A i \in (l + 1)..Len(k) : k[i] # Slash
      BY <2>1, <2>2
    <3> QED
      BY <2>1, <3>1, LastNameIsNone
  <2> HIDE DEF u
  <2>4. u = w
    <3>1. FoldersOf(u) = FoldersOf(w) /\ Folder(u) /\ u \in Seq(Characters)
      BY <1>6, <2>2, <2>3 DEF u
    <3> QED
      BY <1>2, <3>1, OnePrefix
  <2>5. n = l
    BY <2>2, <2>4 DEF u
  <2>6. l < m
    <3>1. l # m
      BY <2>1, <2>2
    <3> QED
      BY <2>1, <2>2, <3>1
  <2>7. IsPrefix(w, k) /\ w # k
    <3>1. SubSeq(w, 1, n) = w /\ SubSeq(k, 1, n) = w
      BY <1>2, <1>4, <2>4, <2>5 DEF u
    <3>2. n <= Len(k) /\ n # Len(k)
      BY <2>1, <2>5, <2>6
    <3> QED
      BY <3>1, <3>2 DEF IsPrefix
  <2> QED
    BY <2>2, <2>5, <2>7 DEF IsStrictPrefix
<1>7. S3Listed(keys, w) = {k \in keys : Listed(k)}
  BY DEF S3Listed
<1> HIDE DEF Listed, Child
<1>8. S3Listed(keys, w) = {k \in keys : Child(k)}
  BY <1>5, <1>6, <1>7
<1> QED
  BY <1>8 DEF keys, w, Child

(* S3 and Drive have one folder for a setting exactly if no slash is        *)
(* doubled inside it, S3 and Dropbox exactly if two do not begin it; and    *)
(* the files of the folder that the prefix spells are the ones that S3      *)
(* lists (_normalize_path, _normalize_prefix, _watch_folder).               *)
THEOREM FoldersAreOne == RulesSpec => []FoldersAgree
<1>1. RulesInv => FoldersAgree
  BY OneFolder, ListedAreChildren DEF FoldersAgree
<1> QED
  BY <1>1, RulesInvariance, PTL

-----------------------------------------------------------------------------
(* LIKE *)

(* Induction over numbers, as a fact about sets of them. *)
LEMMA InEveryNumber ==
    ASSUME NEW T, 0 \in T, \A n \in Nat : n \in T => n + 1 \in T
    PROVE  \A n \in Nat : n \in T
<1> DEFINE out == Nat \ T
<1>1. ASSUME NEW k \in Nat, k \notin T PROVE FALSE
  <2>1. out \subseteq Nat /\ out # {}
    BY <1>1
  <2>2. PICK n \in out : \A m \in out : <<m, n>> \notin OpToRel(<, Nat)
    BY <2>1, WFMin, NatLessThanWellFounded
  <2>3. n # 0 /\ n \in Nat /\ n \notin T
    BY <2>2
  <2>4. n - 1 \in Nat /\ n - 1 < n /\ (n - 1) + 1 = n
    BY <2>3
  <2>5. n - 1 \notin out
    BY <2>2, <2>3, <2>4 DEF OpToRel
  <2>6. n \in T
    <3>1. n - 1 \in T
      BY <2>4, <2>5
    <3> QED
      BY <2>4, <3>1
  <2> QED
    BY <2>3, <2>6
<1> QED
  BY <1>1

(* The places that the match of a LIKE is about. *)
LikePlaces(text, pattern) == (1..(Len(text) + 1)) \X (1..(Len(pattern) + 2))

(* One place of a LIKE, on the places after it. *)
LikeAt(text, pattern, match, x) ==
    LET i == x[1]
        j == x[2]
        n == Len(text)
        m == Len(pattern)
    IN IF j > m THEN j = m + 1 /\ i = n + 1
       ELSE CASE pattern[j] = "pct" -> match[<<i, j + 1>>]
                                       \/ (i <= n /\ match[<<i + 1, j>>])
              [] pattern[j] = "us"  -> i <= n /\ match[<<i + 1, j + 1>>]
              [] pattern[j] = "bs"  -> /\ i <= n /\ j < m /\ text[i] = pattern[j + 1]
                                       /\ match[<<i + 1, j + 2>>]
              [] OTHER -> i <= n /\ text[i] = pattern[j] /\ match[<<i + 1, j + 1>>]

(* match is what Like says. *)
SolvesLike(text, pattern, match) ==
    match = [x \in LikePlaces(text, pattern) |-> LikeAt(text, pattern, match, x)]

LEMMA LikeIs ==
    ASSUME NEW text, NEW pattern, \E match : SolvesLike(text, pattern, match)
    PROVE  \E match : SolvesLike(text, pattern, match) /\ Like(text, pattern) = match[<<1, 1>>]
<1> DEFINE h == CHOOSE match : SolvesLike(text, pattern, match)
<1>1. SolvesLike(text, pattern, h)
  OBVIOUS
<1>2. Like(text, pattern) = h[<<1, 1>>]
  BY DEF Like, SolvesLike, LikePlaces, LikeAt
<1> QED
  BY <1>1, <1>2

(* The number of steps that a place of a LIKE is from the end. *)
Left(text, pattern, x) == Len(text) + Len(pattern) + 3 - x[1] - x[2]

(* A place depends on later ones only. *)
LEMMA LaterOnly ==
    ASSUME NEW text, NEW pattern, Len(text) \in Nat, Len(pattern) \in Nat,
           NEW f, NEW g, NEW x \in LikePlaces(text, pattern),
           \A y \in LikePlaces(text, pattern) :
               Left(text, pattern, y) < Left(text, pattern, x) => f[y] = g[y]
    PROVE  LikeAt(text, pattern, f, x) = LikeAt(text, pattern, g, x)
<1> DEFINE i == x[1]
           j == x[2]
           n == Len(text)
           m == Len(pattern)
<1>1. i \in 1..(n + 1) /\ j \in 1..(m + 2) /\ x = <<i, j>>
  BY DEF LikePlaces
<1>2. ASSUME NEW a \in 1..(n + 1), NEW b \in 1..(m + 2), a + b > i + j
      PROVE  f[<<a, b>>] = g[<<a, b>>]
  <2>1. <<a, b>> \in LikePlaces(text, pattern)
    BY DEF LikePlaces
  <2>2. Left(text, pattern, <<a, b>>) < Left(text, pattern, x)
    <3>1. x = <<i, j>> /\ x[1] = i /\ x[2] = j
      BY <1>1
    <3>2. i \in Int /\ j \in Int /\ a \in Int /\ b \in Int /\ n \in Int /\ m \in Int
      BY <1>1
    <3> HIDE DEF i, j, n, m
    <3>3. n + m + 3 - a - b < n + m + 3 - i - j
      BY <1>2, <3>2
    <3> QED
      BY <3>1, <3>3 DEF Left, i, j, n, m
  <2> QED
    BY <2>1, <2>2
<1>3. j <= m => f[<<i, j + 1>>] = g[<<i, j + 1>>]
  BY <1>1, <1>2
<1> HIDE DEF i, j, n, m
<1>0. i \in Nat /\ j \in Nat /\ n \in Nat /\ m \in Nat /\ 1 <= i /\ 1 <= j /\ j <= m + 2
  BY <1>1 DEF n, m
<1>4. i <= n => f[<<i + 1, j>>] = g[<<i + 1, j>>]
  <2>1. i <= n => i + 1 \in 1..(n + 1) /\ j \in 1..(m + 2) /\ (i + 1) + j > i + j
    BY <1>0
  <2> QED
    BY <2>1, <1>2
<1>5. i <= n /\ j <= m => f[<<i + 1, j + 1>>] = g[<<i + 1, j + 1>>]
  <2>1. i <= n /\ j <= m =>
            i + 1 \in 1..(n + 1) /\ j + 1 \in 1..(m + 2) /\ (i + 1) + (j + 1) > i + j
    BY <1>0
  <2> QED
    BY <2>1, <1>2
<1>6. i <= n /\ j <= m => f[<<i + 1, j + 2>>] = g[<<i + 1, j + 2>>]
  <2>1. i <= n /\ j <= m =>
            i + 1 \in 1..(n + 1) /\ j + 2 \in 1..(m + 2) /\ (i + 1) + (j + 2) > i + j
    BY <1>0
  <2> QED
    BY <2>1, <1>2
<1> USE DEF i, j, n, m
<1>7. CASE j > m
  BY <1>7 DEF LikeAt
<1>8. CASE j <= m
  <2>1. CASE pattern[j] = "pct"
    BY <1>1, <1>8, <2>1, <1>3, <1>4 DEF LikeAt
  <2>2. CASE pattern[j] = "us"
    BY <1>1, <1>8, <2>2, <1>5 DEF LikeAt
  <2>3. CASE pattern[j] = "bs"
    BY <1>1, <1>8, <2>3, <1>6 DEF LikeAt
  <2>4. CASE pattern[j] \notin {"pct", "us", "bs"}
    BY <1>1, <1>8, <2>4, <1>5 DEF LikeAt
  <2> QED
    BY <2>1, <2>2, <2>3, <2>4
<1> QED
  BY <1>1, <1>7, <1>8

(* The equation of a LIKE has a solution. *)
LEMMA MatchExists ==
    ASSUME NEW text, NEW pattern, Len(text) \in Nat, Len(pattern) \in Nat
    PROVE  \E match : SolvesLike(text, pattern, match)
<1> DEFINE D == LikePlaces(text, pattern)
           Low(k) == {x \in D : Left(text, pattern, x) < k}
           Partial(k) == \E f : f = [x \in Low(k) |-> LikeAt(text, pattern, f, x)]
           T == {k \in Nat : Partial(k)}
<1>1. \A x \in D : Left(text, pattern, x) \in Nat
                    /\ Left(text, pattern, x) < Len(text) + Len(pattern) + 2
  BY SMTT(30) DEF Left, LikePlaces
<1>2. Partial(0)
  <2>1. Low(0) = {}
    BY <1>1
  <2> DEFINE e == [x \in {} |-> TRUE]
  <2>2. e = [x \in Low(0) |-> LikeAt(text, pattern, e, x)]
    BY <2>1
  <2> QED
    BY <2>2
<1>3. ASSUME NEW k \in Nat, Partial(k) PROVE Partial(k + 1)
  <2>1. PICK f : f = [x \in Low(k) |-> LikeAt(text, pattern, f, x)]
    BY <1>3
  <2> DEFINE g == [x \in Low(k + 1) |-> IF Left(text, pattern, x) < k THEN f[x]
                                         ELSE LikeAt(text, pattern, f, x)]
  <2>2. ASSUME NEW x \in Low(k + 1) PROVE g[x] = LikeAt(text, pattern, g, x)
    <3>1. x \in D /\ Left(text, pattern, x) \in Nat /\ Left(text, pattern, x) <= k
      BY <1>1
    <3>2. ASSUME NEW y \in D, Left(text, pattern, y) < Left(text, pattern, x)
          PROVE  f[y] = g[y]
      <4>1. Left(text, pattern, y) \in Nat /\ Left(text, pattern, y) < k
        BY <1>1, <3>1, <3>2
      <4>2. y \in Low(k + 1)
        BY <4>1
      <4> QED
        BY <4>1, <4>2
    <3>3. LikeAt(text, pattern, f, x) = LikeAt(text, pattern, g, x)
      <4> HIDE DEF g
      <4> QED
        BY <3>1, <3>2, LaterOnly
    <3>4. CASE Left(text, pattern, x) < k
      <4>1. x \in Low(k)
        BY <3>1, <3>4
      <4>2. f[x] = LikeAt(text, pattern, f, x)
        <5> HIDE DEF Low
        <5> QED
          BY <2>1, <4>1
      <4>3. g[x] = f[x]
        BY <3>4
      <4> QED
        BY <3>3, <4>2, <4>3
    <3>5. CASE ~(Left(text, pattern, x) < k)
      <4>1. g[x] = LikeAt(text, pattern, f, x)
        BY <3>5
      <4> QED
        BY <3>3, <4>1
    <3> QED
      BY <3>4, <3>5
  <2>3. g = [x \in Low(k + 1) |-> g[x]]
    OBVIOUS
  <2>4. g = [x \in Low(k + 1) |-> LikeAt(text, pattern, g, x)]
    <3> HIDE DEF g, Low
    <3> QED
      BY <2>2, <2>3
  <2> QED
    BY <2>4
<1>4. \A k \in Nat : k \in T
  <2>1. 0 \in T
    BY <1>2
  <2>2. ASSUME NEW k \in Nat, k \in T PROVE k + 1 \in T
    <3> HIDE DEF Partial
    <3>1. Partial(k)
      BY <2>2
    <3>2. Partial(k + 1)
      BY <1>3, <3>1
    <3> QED
      BY <3>2
  <2> HIDE DEF T
  <2> QED
    BY <2>1, <2>2, InEveryNumber
<1> DEFINE all == Len(text) + Len(pattern) + 2
<1>5. Partial(all)
  <2>1. all \in Nat
    OBVIOUS
  <2>2. all \in T
    BY <1>4, <2>1
  <2> QED
    BY <2>2
<1>6. Low(all) = D
  BY <1>1
<1>7. PICK f : f = [x \in Low(all) |-> LikeAt(text, pattern, f, x)]
  BY <1>5
<1>8. f = [x \in D |-> LikeAt(text, pattern, f, x)]
  <2> HIDE DEF Low
  <2> QED
    BY <1>6, <1>7
<1> QED
  BY <1>8 DEF SolvesLike

(* What a solution says of a place. *)
LEMMA AtPlace ==
    ASSUME NEW text, NEW pattern, NEW match, SolvesLike(text, pattern, match),
           NEW i \in 1..(Len(text) + 1), NEW j \in 1..(Len(pattern) + 2)
    PROVE  match[<<i, j>>] = LikeAt(text, pattern, match, <<i, j>>)
<1>1. <<i, j>> \in LikePlaces(text, pattern)
  BY DEF LikePlaces
<1> QED
  BY <1>1 DEF SolvesLike

(* A "%" that is the last of a pattern is matched by whatever is left. *)
LEMMA LastAny ==
    ASSUME NEW text, NEW pattern, NEW match, SolvesLike(text, pattern, match),
           Len(text) \in Nat, Len(pattern) \in Nat \ {0},
           pattern[Len(pattern)] = "pct"
    PROVE  \A i \in 1..(Len(text) + 1) : match[<<i, Len(pattern)>>]
<1> DEFINE n == Len(text)
           m == Len(pattern)
           T == {k \in Nat : k <= n => match[<<n + 1 - k, m>>]}
<1>1. 0 \in T
  <2>1. n + 1 \in 1..(n + 1) /\ m \in 1..(m + 2) /\ m + 1 \in 1..(m + 2)
    OBVIOUS
  <2>2. match[<<n + 1, m + 1>>]
    <3>1. match[<<n + 1, m + 1>>] = LikeAt(text, pattern, match, <<n + 1, m + 1>>)
      BY <2>1, AtPlace
    <3>2. LikeAt(text, pattern, match, <<n + 1, m + 1>>)
      BY DEF LikeAt
    <3> QED
      BY <3>1, <3>2
  <2>3. match[<<n + 1, m>>] = LikeAt(text, pattern, match, <<n + 1, m>>)
    BY <2>1, AtPlace
  <2>4. LikeAt(text, pattern, match, <<n + 1, m>>)
    BY <2>2 DEF LikeAt
  <2>5. match[<<n + 1, m>>]
    BY <2>3, <2>4
  <2>6. n + 1 - 0 = n + 1
    OBVIOUS
  <2> QED
    BY <2>5, <2>6
<1>2. ASSUME NEW k \in Nat, k \in T PROVE k + 1 \in T
  <2>1. SUFFICES ASSUME k + 1 <= n PROVE match[<<n + 1 - (k + 1), m>>]
    OBVIOUS
  <2> DEFINE i == n + 1 - (k + 1)
  <2>2. i \in 1..(n + 1) /\ m \in 1..(m + 2) /\ i <= n /\ i + 1 = n + 1 - k /\ k <= n
    BY <2>1
  <2>3. match[<<i + 1, m>>]
    <3> HIDE DEF i
    <3> QED
      BY <1>2, <2>2
  <2>4. match[<<i, m>>] = LikeAt(text, pattern, match, <<i, m>>)
    <3> HIDE DEF i
    <3> QED
      BY <2>2, AtPlace
  <2>5. LikeAt(text, pattern, match, <<i, m>>)
    <3> HIDE DEF i
    <3> QED
      BY <2>2, <2>3 DEF LikeAt
  <2> QED
    BY <2>4, <2>5
<1>3. \A k \in Nat : k \in T
  <2> HIDE DEF T
  <2> QED
    BY <1>1, <1>2, InEveryNumber
<1>4. ASSUME NEW i \in 1..(n + 1) PROVE match[<<i, m>>]
  <2>1. n + 1 - i \in Nat /\ n + 1 - i <= n /\ n + 1 - (n + 1 - i) = i
    OBVIOUS
  <2>2. n + 1 - i \in T
    BY <1>3, <2>1
  <2> QED
    BY <2>1, <2>2
<1> QED
  BY <1>4

(* A "%" that is the first of a pattern lets the rest begin anywhere. *)
LEMMA FirstAny ==
    ASSUME NEW text, NEW pattern, NEW match, SolvesLike(text, pattern, match),
           Len(text) \in Nat, Len(pattern) \in Nat \ {0}, pattern[1] = "pct"
    PROVE  match[<<1, 1>>] <=> \E i \in 1..(Len(text) + 1) : match[<<i, 2>>]
<1> DEFINE n == Len(text)
           m == Len(pattern)
           T == {k \in Nat : k <= n => (match[<<n + 1 - k, 1>>] <=>
                                  \E i \in (n + 1 - k)..(n + 1) : match[<<i, 2>>])}
<1>1. ASSUME NEW i \in 1..(n + 1)
      PROVE  match[<<i, 1>>] <=> match[<<i, 2>>] \/ (i <= n /\ match[<<i + 1, 1>>])
  <2>1. match[<<i, 1>>] = LikeAt(text, pattern, match, <<i, 1>>)
    <3>1. 1 \in 1..(m + 2)
      OBVIOUS
    <3> QED
      BY <3>1, AtPlace
  <2>2. LikeAt(text, pattern, match, <<i, 1>>) <=> match[<<i, 2>>] \/ (i <= n /\ match[<<i + 1, 1>>])
    <3>1. ~(1 > m) /\ 1 + 1 = 2
      OBVIOUS
    <3> QED
      BY <3>1 DEF LikeAt
  <2> QED
    BY <2>1, <2>2
<1>2. 0 \in T
  <2>1. n + 1 \in 1..(n + 1) /\ ~(n + 1 <= n) /\ n + 1 - 0 = n + 1
    OBVIOUS
  <2>2. match[<<n + 1, 1>>] <=> match[<<n + 1, 2>>]
    BY <1>1, <2>1
  <2>3. (n + 1)..(n + 1) = {n + 1}
    OBVIOUS
  <2> QED
    BY <2>1, <2>2, <2>3
<1>3. ASSUME NEW k \in Nat, k \in T PROVE k + 1 \in T
  <2>1. SUFFICES ASSUME k + 1 <= n
                 PROVE  match[<<n + 1 - (k + 1), 1>>] <=>
                           \E i \in (n + 1 - (k + 1))..(n + 1) : match[<<i, 2>>]
    OBVIOUS
  <2> DEFINE i == n + 1 - (k + 1)
  <2>2. i \in 1..(n + 1) /\ i <= n /\ i + 1 = n + 1 - k /\ k <= n
    BY <2>1
  <2>3. match[<<i + 1, 1>>] <=> \E a \in (i + 1)..(n + 1) : match[<<a, 2>>]
    <3> HIDE DEF i
    <3> QED
      BY <1>3, <2>2
  <2>4. match[<<i, 1>>] <=> match[<<i, 2>>] \/ match[<<i + 1, 1>>]
    <3> HIDE DEF i
    <3> QED
      BY <1>1, <2>2
  <2>5. i..(n + 1) = {i} \cup ((i + 1)..(n + 1))
    BY <2>2
  <2> HIDE DEF i
  <2>6. match[<<i, 1>>] <=> \E a \in i..(n + 1) : match[<<a, 2>>]
    BY <2>3, <2>4, <2>5
  <2> QED
    BY <2>6 DEF i
<1>4. \A k \in Nat : k \in T
  <2> HIDE DEF T
  <2> QED
    BY <1>2, <1>3, InEveryNumber
<1>5. n \in T /\ n <= n /\ n + 1 - n = 1
  BY <1>4
<1> QED
  BY <1>5

-----------------------------------------------------------------------------
(* Flattening *)

(* h[i] is the first i sequences of ss in one. *)
Flattens(ss, h) ==
    h = [i \in 1..Len(ss) |-> IF i = 1 THEN ss[i] ELSE h[i - 1] \o ss[i]]

(* The equation of a flattening has a solution, of sequences. *)
LEMMA FlattenExists ==
    ASSUME NEW C, NEW ss \in Seq(Seq(C))
    PROVE  \E h : Flattens(ss, h) /\ \A i \in 1..Len(ss) : h[i] \in Seq(C)
<1> DEFINE N == Seq(C)
<1> HIDE DEF N
<1>0. ss \in Seq(N) /\ Len(ss) \in Nat /\ \A i \in 1..Len(ss) : ss[i] \in N
  BY DEF N
<1>a. \A a, b \in N : a \o b \in N
  BY DEF N
<1> DEFINE Partial(k) ==
             \E h : /\ h = [i \in 1..k |-> IF i = 1 THEN ss[i] ELSE h[i - 1] \o ss[i]]
                   /\ \A i \in 1..k : h[i] \in N
           T == {k \in Nat : k <= Len(ss) => Partial(k)}
<1>1. Partial(0)
  <2> DEFINE e == [i \in {} |-> TRUE]
  <2>1. e = [i \in 1..0 |-> IF i = 1 THEN ss[i] ELSE e[i - 1] \o ss[i]]
    OBVIOUS
  <2> QED
    BY <2>1
<1>2. ASSUME NEW k \in Nat, k + 1 <= Len(ss), Partial(k) PROVE Partial(k + 1)
  <2>1. PICK h : /\ h = [i \in 1..k |-> IF i = 1 THEN ss[i] ELSE h[i - 1] \o ss[i]]
                 /\ \A i \in 1..k : h[i] \in N
    BY <1>2
  <2> DEFINE last == IF k + 1 = 1 THEN ss[k + 1] ELSE h[k] \o ss[k + 1]
             g == [i \in 1..(k + 1) |-> IF i <= k THEN h[i] ELSE last]
  <2>2. \A i \in 1..k : h[i] = IF i = 1 THEN ss[i] ELSE h[i - 1] \o ss[i]
    BY <2>1
  <2>3. \A i \in 1..k : g[i] = h[i]
    OBVIOUS
  <2>4. g[k + 1] = last
    OBVIOUS
  <2>5. last \in N
    BY <1>0, <1>a, <1>2, <2>1
  <2>6. ASSUME NEW i \in 1..(k + 1)
        PROVE  g[i] = (IF i = 1 THEN ss[i] ELSE g[i - 1] \o ss[i]) /\ g[i] \in N
    <3> HIDE DEF g
    <3>1. CASE i <= k
      <4>1. i \in 1..k /\ (i # 1 => i - 1 \in 1..k)
        BY <3>1
      <4> QED
        BY <4>1, <2>1, <2>2, <2>3
    <3>2. CASE i = k + 1
      <4>1. i # 1 => i - 1 = k /\ k \in 1..k
        BY <3>2
      <4>2. i # 1 => g[i - 1] = h[k]
        BY <4>1, <2>3
      <4> QED
        BY <3>2, <4>2, <2>4, <2>5
    <3> QED
      BY <3>1, <3>2
  <2>7. g = [i \in 1..(k + 1) |-> g[i]]
    OBVIOUS
  <2>8. g = [i \in 1..(k + 1) |-> IF i = 1 THEN ss[i] ELSE g[i - 1] \o ss[i]]
    <3> HIDE DEF g
    <3> QED
      BY <2>6, <2>7
  <2> HIDE DEF g
  <2> QED
    BY <2>6, <2>8
<1>3. \A k \in Nat : k \in T
  <2>1. 0 \in T
    BY <1>1
  <2>2. ASSUME NEW k \in Nat, k \in T PROVE k + 1 \in T
    <3> HIDE DEF Partial
    <3>1. SUFFICES ASSUME k + 1 <= Len(ss) PROVE Partial(k + 1)
      OBVIOUS
    <3>2. Partial(k)
      BY <2>2, <3>1, <1>0
    <3> QED
      BY <1>2, <3>1, <3>2
  <2> HIDE DEF T
  <2> QED
    BY <2>1, <2>2, InEveryNumber
<1>4. Partial(Len(ss))
  <2>1. Len(ss) \in T
    BY <1>0, <1>3
  <2> HIDE DEF Partial
  <2> QED
    BY <1>0, <2>1
<1> QED
  BY <1>4 DEF Flattens, N

(* So it is for the first k of them. *)
SolvesUpTo(ss, h, k) == \A i \in 1..k : h[i] = IF i = 1 THEN ss[i] ELSE h[i - 1] \o ss[i]

(* It has only one. *)
LEMMA FlattenUnique ==
    ASSUME NEW ss, NEW g, NEW h, NEW k \in Nat, SolvesUpTo(ss, g, k), SolvesUpTo(ss, h, k)
    PROVE  \A i \in 1..k : g[i] = h[i]
<1> USE DEF SolvesUpTo
<1> DEFINE T == {i \in Nat : i \in 1..k => g[i] = h[i]}
<1>1. 0 \in T
  OBVIOUS
<1>2. ASSUME NEW i \in Nat, i \in T PROVE i + 1 \in T
  <2>1. SUFFICES ASSUME i + 1 \in 1..k PROVE g[i + 1] = h[i + 1]
    OBVIOUS
  <2>2. CASE i = 0
    BY <2>1, <2>2
  <2>3. CASE i # 0
    <3>1. i \in 1..k /\ i + 1 # 1 /\ (i + 1) - 1 = i
      BY <2>1, <2>3
    <3>2. g[i] = h[i]
      BY <1>2, <3>1
    <3>3. g[i + 1] = g[i] \o ss[i + 1] /\ h[i + 1] = h[i] \o ss[i + 1]
      BY <2>1, <3>1
    <3> QED
      BY <3>2, <3>3
  <2> QED
    BY <2>2, <2>3
<1>3. \A i \in Nat : i \in T
  <2> HIDE DEF T
  <2> QED
    BY <1>1, <1>2, InEveryNumber
<1> QED
  BY <1>3

(* The flattening is the last of the solution. *)
LEMMA FlattenIs ==
    ASSUME NEW ss, Len(ss) # 0, \E g : Flattens(ss, g)
    PROVE  \E h : Flattens(ss, h) /\ FlattenSeq(ss) = h[Len(ss)]
<1> DEFINE h == CHOOSE f : Flattens(ss, f)
<1>1. Flattens(ss, h)
  OBVIOUS
<1>2. FlattenSeq(ss) = h[Len(ss)]
  BY DEF FlattenSeq, Flattens
<1> QED
  BY <1>1, <1>2

(* One sequence more. *)
LEMMA FlattenAppend ==
    ASSUME NEW C, NEW ss \in Seq(Seq(C)), NEW b \in Seq(C)
    PROVE  FlattenSeq(ss) \in Seq(C) /\ FlattenSeq(Append(ss, b)) = FlattenSeq(ss) \o b
<1> DEFINE N == Seq(C)
           more == Append(ss, b)
           k == Len(ss)
<1>1. k \in Nat /\ more \in Seq(N) /\ Len(more) = k + 1 /\ more[k + 1] = b
      /\ \A i \in 1..k : more[i] = ss[i]
  <2> HIDE DEF N
  <2>1. ss \in Seq(N) /\ b \in N
    BY DEF N
  <2> QED
    BY <2>1
<1>2. PICK f : Flattens(more, f) /\ FlattenSeq(more) = f[k + 1]
  <2>1. \E g : Flattens(more, g)
    <3> HIDE DEF more
    <3> QED
      BY <1>1, FlattenExists
  <2>2. Len(more) # 0
    BY <1>1
  <2> HIDE DEF more, k
  <2> QED
    BY <1>1, <2>1, <2>2, FlattenIs
<1>3. CASE k = 0
  <2>1. ss = <<>>
    <3> HIDE DEF N
    <3>1. ss \in Seq(N)
      BY DEF N
    <3> QED
      BY <1>3, <3>1
  <2>2. FlattenSeq(ss) = <<>>
    BY <2>1, <1>3 DEF FlattenSeq
  <2>3. f[1] = more[1]
    <3> HIDE DEF more
    <3> QED
      BY <1>1, <1>2, <1>3 DEF Flattens, SolvesUpTo
  <2>4. FlattenSeq(more) = b
    <3> HIDE DEF more, k
    <3> QED
      BY <1>1, <1>2, <1>3, <2>3
  <2>5. <<>> \o b = b
    OBVIOUS
  <2> QED
    BY <2>2, <2>4, <2>5
<1>4. CASE k # 0
  <2>1. PICK h : Flattens(ss, h) /\ FlattenSeq(ss) = h[k]
    <3>1. \E g : Flattens(ss, g)
      BY FlattenExists
    <3> QED
      BY <1>4, <3>1, FlattenIs
  <2>2. h[k] \in N
    <3>1. PICK g : Flattens(ss, g) /\ \A i \in 1..k : g[i] \in N
      BY FlattenExists
    <3>2. SolvesUpTo(ss, g, k)
      <4> HIDE DEF N
      <4> QED
        BY <3>1 DEF Flattens, SolvesUpTo
    <3>3. SolvesUpTo(ss, h, k)
      BY <2>1 DEF Flattens, SolvesUpTo
    <3>4. g[k] = h[k]
      <4>1. k <= Len(ss) /\ k \in 1..k
        BY <1>1, <1>4
      <4>2. \A i \in 1..k : g[i] = h[i]
        <5> HIDE DEF N
        <5> QED
          BY <1>1, <4>1, <3>2, <3>3, FlattenUnique
      <4> QED
        BY <4>1, <4>2
    <3> QED
      BY <1>1, <1>4, <3>1, <3>4
  <2>3. f[k] = h[k]
    <3>1. \A i \in 1..(k + 1) : f[i] = IF i = 1 THEN more[i] ELSE f[i - 1] \o more[i]
      <4> HIDE DEF more, N, k
      <4> QED
        BY <1>1, <1>2 DEF Flattens, SolvesUpTo
    <3>2. SolvesUpTo(ss, f, k)
      <4> HIDE DEF more, N, k
      <4> QED
        BY <1>1, <3>1 DEF SolvesUpTo
    <3>3. SolvesUpTo(ss, h, k)
      BY <2>1 DEF Flattens, SolvesUpTo
    <3>4. k <= Len(ss) /\ k \in 1..k
      BY <1>1, <1>4
    <3>5. \A i \in 1..k : f[i] = h[i]
      <4> HIDE DEF N
      <4> QED
        BY <1>1, <3>4, <3>2, <3>3, FlattenUnique
    <3> QED
      BY <3>4, <3>5
  <2>4. f[k + 1] = f[k] \o b
    <3> HIDE DEF more, N, k
    <3>1. k + 1 \in 1..Len(more) /\ k + 1 # 1 /\ (k + 1) - 1 = k
      BY <1>1, <1>4
    <3>2. f[k + 1] = f[(k + 1) - 1] \o more[k + 1]
      BY <1>2, <3>1 DEF Flattens, SolvesUpTo
    <3> QED
      BY <1>1, <3>1, <3>2
  <2>5. FlattenSeq(more) = FlattenSeq(ss) \o b
    <3> HIDE DEF more, k
    <3> QED
      BY <1>2, <2>1, <2>3, <2>4
  <2>6. FlattenSeq(ss) \in Seq(C)
    BY <2>1, <2>2
  <2> QED
    BY <2>5, <2>6
<1> QED
  BY <1>3, <1>4

-----------------------------------------------------------------------------
(* Escaping *)

(* What one character is replaced by. *)
Instead(c, char, by) == IF c = char THEN by ELSE <<c>>

(* One character more is replaced, and what was there stays. *)
CharByChar(C, s, c, char, by) ==
    /\ Replace(s, char, by) \in Seq(C)
    /\ Replace(Append(s, c), char, by) = Replace(s, char, by) \o Instead(c, char, by)

(* A replacement goes through a text character by character. *)
LEMMA ReplaceAppend ==
    ASSUME NEW C, NEW s \in Seq(C), NEW c \in C, NEW char, NEW by \in Seq(C)
    PROVE  CharByChar(C, s, c, char, by)
<1> DEFINE N == Seq(C)
           ss == [i \in DOMAIN s |-> IF s[i] = char THEN by ELSE <<s[i]>>]
           more == [i \in DOMAIN Append(s, c) |->
                       IF Append(s, c)[i] = char THEN by ELSE <<Append(s, c)[i]>>]
           b == Instead(c, char, by)
<1>1. \A x \in C : <<x>> \in N
  OBVIOUS
<1>2. Len(s) \in Nat /\ DOMAIN s = 1..Len(s) /\ \A i \in 1..Len(s) : s[i] \in C
  OBVIOUS
<1>3. by \in N /\ b \in N
  BY <1>1 DEF Instead
<1> HIDE DEF N
<1>4. ss \in Seq(N) /\ Len(ss) = Len(s)
  BY <1>1, <1>2, <1>3
<1>5. Append(s, c) \in Seq(C) /\ Len(Append(s, c)) = Len(s) + 1 /\ Append(s, c)[Len(s) + 1] = c
      /\ DOMAIN Append(s, c) = 1..(Len(s) + 1)
      /\ \A i \in 1..Len(s) : Append(s, c)[i] = s[i]
  OBVIOUS
<1>6. \A i \in 1..(Len(s) + 1) : more[i] = Append(ss, b)[i]
  <2>1. ASSUME NEW i \in 1..Len(s) PROVE more[i] = Append(ss, b)[i]
    <3>1. Append(ss, b)[i] = ss[i]
      <4> HIDE DEF ss, b
      <4> QED
        BY <1>2, <1>3, <1>4
    <3>2. ss[i] = more[i]
      BY <1>2, <1>5
    <3> QED
      BY <3>1, <3>2
  <2>2. more[Len(s) + 1] = Append(ss, b)[Len(s) + 1]
    <3>1. Append(ss, b)[Len(s) + 1] = b
      <4> HIDE DEF ss, b
      <4> QED
        BY <1>2, <1>3, <1>4
    <3>2. more[Len(s) + 1] = b
      BY <1>2, <1>5 DEF Instead
    <3> QED
      BY <3>1, <3>2
  <2> QED
    BY <1>2, <2>1, <2>2
<1>7. more = Append(ss, b)
  <2>1. more = [i \in 1..(Len(s) + 1) |-> more[i]]
    BY <1>5
  <2>2. Append(ss, b) = [i \in 1..(Len(s) + 1) |-> Append(ss, b)[i]]
    <3> HIDE DEF ss, b
    <3>1. Append(ss, b) \in Seq(N) /\ Len(Append(ss, b)) = Len(s) + 1
      BY <1>2, <1>3, <1>4
    <3>2. \A t \in Seq(N) : t = [i \in 1..Len(t) |-> t[i]]
      OBVIOUS
    <3> QED
      BY <3>1, <3>2
  <2> HIDE DEF more, ss, b
  <2> QED
    BY <1>6, <2>1, <2>2
<1>8. FlattenSeq(ss) \in Seq(C) /\ FlattenSeq(Append(ss, b)) = FlattenSeq(ss) \o b
  <2> HIDE DEF ss, b
  <2> QED
    BY <1>3, <1>4, FlattenAppend DEF N
<1>9. Replace(s, char, by) = FlattenSeq(ss) /\ Replace(Append(s, c), char, by) = FlattenSeq(more)
  BY DEF Replace
<1> HIDE DEF ss, more, b
<1> QED
  BY <1>7, <1>8, <1>9 DEF b, CharByChar

(* Nothing is replaced by nothing. *)
LEMMA ReplaceEmpty == ASSUME NEW char, NEW by PROVE Replace(<<>>, char, by) = <<>>
<1> DEFINE ss == [i \in DOMAIN <<>> |-> IF <<>>[i] = char THEN by ELSE << <<>>[i] >>]
<1>1. ss = <<>>
  OBVIOUS
<1>2. FlattenSeq(<<>>) = <<>>
  BY DEF FlattenSeq
<1> QED
  BY <1>1, <1>2 DEF Replace

(* The next character is kept, or gets e before it. *)
OneByOne(C, s, char, e) ==
    LET R(t) == Replace(t, char, <<e, char>>)
    IN /\ R(s) \in Seq(C)
       /\ R(Append(s, char)) = Append(Append(R(s), e), char)
       /\ \A c \in C : c # char => R(Append(s, c)) = Append(R(s), c)

(* A replacement by an escaped character goes so. *)
LEMMA ReplaceOne ==
    ASSUME NEW C, NEW char \in C, NEW e \in C, NEW s \in Seq(C)
    PROVE  OneByOne(C, s, char, e)
<1> DEFINE R(t) == Replace(t, char, <<e, char>>)
<1>1. <<e, char>> \in Seq(C)
  OBVIOUS
<1>2. ASSUME NEW c \in C
      PROVE  R(s) \in Seq(C) /\ R(Append(s, c)) = R(s) \o Instead(c, char, <<e, char>>)
  <2>1. CharByChar(C, s, c, char, <<e, char>>)
    BY <1>1, ReplaceAppend
  <2> QED
    BY <2>1 DEF CharByChar
<1>3. R(s) \in Seq(C)
  BY <1>2
<1>4. \A t \in Seq(C), c \in C : t \o <<c>> = Append(t, c)
  OBVIOUS
<1>5. \A t \in Seq(C), c1, c2 \in C : t \o <<c1, c2>> = Append(Append(t, c1), c2)
  OBVIOUS
<1>6. R(Append(s, char)) = Append(Append(R(s), e), char)
  <2>1. Instead(char, char, <<e, char>>) = <<e, char>>
    BY DEF Instead
  <2>2. R(Append(s, char)) = R(s) \o <<e, char>>
    BY <1>2, <2>1
  <2> HIDE DEF R
  <2>3. R(s) \o <<e, char>> = Append(Append(R(s), e), char)
    BY <1>3, <1>5
  <2> QED
    BY <2>2, <2>3
<1>7. ASSUME NEW c \in C, c # char PROVE R(Append(s, c)) = Append(R(s), c)
  <2>1. Instead(c, char, <<e, char>>) = <<c>>
    BY <1>7 DEF Instead
  <2> HIDE DEF R
  <2> QED
    BY <1>2, <1>3, <1>4, <2>1
<1> QED
  BY <1>3, <1>6, <1>7 DEF OneByOne

(* What an escaped text has for a character. *)
Block(c) == IF c \in {"bs", "pct", "us"} THEN <<"bs", c>> ELSE <<c>>

(* Escaping goes through a text character by character. *)
LEMMA EscapedAppend ==
    ASSUME NEW C, {"bs", "pct", "us"} \subseteq C, NEW s \in Seq(C), NEW c \in C
    PROVE  Escaped(s) \in Seq(C) /\ Escaped(Append(s, c)) = Escaped(s) \o Block(c)
<1> DEFINE B(t) == Replace(t, "bs", <<"bs", "bs">>)
           P(t) == Replace(t, "pct", <<"bs", "pct">>)
           U(t) == Replace(t, "us", <<"bs", "us">>)
<1>0. "bs" \in C /\ "pct" \in C /\ "us" \in C
  OBVIOUS
<1>1. ASSUME NEW t \in Seq(C)
      PROVE  /\ B(t) \in Seq(C)
             /\ B(Append(t, "bs")) = Append(Append(B(t), "bs"), "bs")
             /\ \A d \in C : d # "bs" => B(Append(t, d)) = Append(B(t), d)
  <2>1. OneByOne(C, t, "bs", "bs")
    BY <1>0, ReplaceOne
  <2> QED
    BY <2>1 DEF OneByOne
<1>2. ASSUME NEW t \in Seq(C)
      PROVE  /\ P(t) \in Seq(C)
             /\ P(Append(t, "pct")) = Append(Append(P(t), "bs"), "pct")
             /\ \A d \in C : d # "pct" => P(Append(t, d)) = Append(P(t), d)
  <2>1. OneByOne(C, t, "pct", "bs")
    BY <1>0, ReplaceOne
  <2> QED
    BY <2>1 DEF OneByOne
<1>3. ASSUME NEW t \in Seq(C)
      PROVE  /\ U(t) \in Seq(C)
             /\ U(Append(t, "us")) = Append(Append(U(t), "bs"), "us")
             /\ \A d \in C : d # "us" => U(Append(t, d)) = Append(U(t), d)
  <2>1. OneByOne(C, t, "us", "bs")
    BY <1>0, ReplaceOne
  <2> QED
    BY <2>1 DEF OneByOne
<1>4. \A t : Escaped(t) = U(P(B(t)))
  BY DEF Escaped
<1> HIDE DEF B, P, U
<1>5. B(s) \in Seq(C) /\ P(B(s)) \in Seq(C) /\ U(P(B(s))) \in Seq(C)
  BY <1>1, <1>2, <1>3
<1>6. \A t \in Seq(C), d \in C : Append(t, d) \in Seq(C) /\ t \o <<d>> = Append(t, d)
  OBVIOUS
<1>7. \A t \in Seq(C), d1, d2 \in C : t \o <<d1, d2>> = Append(Append(t, d1), d2)
  OBVIOUS
<1>8. "bs" # "pct" /\ "bs" # "us" /\ "pct" # "us"
  OBVIOUS
<1> DEFINE e1 == B(s)
           e2 == P(e1)
           e3 == U(e2)
<1>9. e1 \in Seq(C) /\ e2 \in Seq(C) /\ e3 \in Seq(C) /\ Escaped(s) = e3
  BY <1>4, <1>5
<1>10. CASE c = "bs"
  <2>1. B(Append(s, c)) = Append(Append(e1, "bs"), "bs")
    BY <1>1, <1>10
  <2>2. P(Append(Append(e1, "bs"), "bs")) = Append(Append(e2, "bs"), "bs")
    <3>1. Append(e1, "bs") \in Seq(C) /\ P(Append(e1, "bs")) = Append(e2, "bs")
      BY <1>0, <1>2, <1>6, <1>8, <1>9
    <3>2. P(Append(Append(e1, "bs"), "bs")) = Append(P(Append(e1, "bs")), "bs")
      BY <1>0, <1>2, <1>8, <3>1
    <3> QED
      BY <3>1, <3>2
  <2>3. U(Append(Append(e2, "bs"), "bs")) = Append(Append(e3, "bs"), "bs")
    <3>1. Append(e2, "bs") \in Seq(C) /\ U(Append(e2, "bs")) = Append(e3, "bs")
      BY <1>0, <1>3, <1>6, <1>8, <1>9
    <3>2. U(Append(Append(e2, "bs"), "bs")) = Append(U(Append(e2, "bs")), "bs")
      BY <1>0, <1>3, <1>8, <3>1
    <3> QED
      BY <3>1, <3>2
  <2>4. Escaped(Append(s, c)) = Append(Append(e3, "bs"), "bs")
    BY <1>4, <2>1, <2>2, <2>3
  <2>5. Block(c) = <<"bs", "bs">>
    BY <1>10 DEF Block
  <2> HIDE DEF e3
  <2> QED
    BY <1>0, <1>7, <1>9, <2>4, <2>5
<1>11. CASE c = "pct"
  <2>1. B(Append(s, c)) = Append(e1, "pct")
    BY <1>0, <1>1, <1>8, <1>11
  <2>2. P(Append(e1, "pct")) = Append(Append(e2, "bs"), "pct")
    BY <1>2, <1>9
  <2>3. U(Append(Append(e2, "bs"), "pct")) = Append(Append(e3, "bs"), "pct")
    <3>1. Append(e2, "bs") \in Seq(C) /\ U(Append(e2, "bs")) = Append(e3, "bs")
      BY <1>0, <1>3, <1>6, <1>8, <1>9
    <3>2. U(Append(Append(e2, "bs"), "pct")) = Append(U(Append(e2, "bs")), "pct")
      BY <1>0, <1>3, <1>8, <3>1
    <3> QED
      BY <3>1, <3>2
  <2>4. Escaped(Append(s, c)) = Append(Append(e3, "bs"), "pct")
    BY <1>4, <2>1, <2>2, <2>3
  <2>5. Block(c) = <<"bs", "pct">>
    BY <1>11 DEF Block
  <2> HIDE DEF e3
  <2> QED
    BY <1>0, <1>7, <1>9, <2>4, <2>5
<1>12. CASE c = "us"
  <2>1. B(Append(s, c)) = Append(e1, "us")
    BY <1>0, <1>1, <1>8, <1>12
  <2>2. P(Append(e1, "us")) = Append(e2, "us")
    BY <1>0, <1>2, <1>8, <1>9
  <2>3. U(Append(e2, "us")) = Append(Append(e3, "bs"), "us")
    BY <1>3, <1>9
  <2>4. Escaped(Append(s, c)) = Append(Append(e3, "bs"), "us")
    BY <1>4, <2>1, <2>2, <2>3
  <2>5. Block(c) = <<"bs", "us">>
    BY <1>12 DEF Block
  <2> HIDE DEF e3
  <2> QED
    BY <1>0, <1>7, <1>9, <2>4, <2>5
<1>13. CASE c \notin {"bs", "pct", "us"}
  <2>1. B(Append(s, c)) = Append(e1, c)
    BY <1>1, <1>13
  <2>2. P(Append(e1, c)) = Append(e2, c)
    BY <1>2, <1>9, <1>13
  <2>3. U(Append(e2, c)) = Append(e3, c)
    BY <1>3, <1>9, <1>13
  <2>4. Escaped(Append(s, c)) = Append(e3, c)
    BY <1>4, <2>1, <2>2, <2>3
  <2>5. Block(c) = <<c>>
    BY <1>13 DEF Block
  <2> HIDE DEF e3
  <2> QED
    BY <1>6, <1>9, <2>4, <2>5
<1> QED
  BY <1>9, <1>10, <1>11, <1>12, <1>13

(* Nothing is escaped as nothing. *)
LEMMA EscapedEmpty == Escaped(<<>>) = <<>>
  BY ReplaceEmpty DEF Escaped

-----------------------------------------------------------------------------
(* A search *)

(* What the first characters of a text are escaped as. *)
UpTo(s, k) == Escaped(SubSeq(s, 1, k))

(* One character more. *)
LEMMA UpToNext ==
    ASSUME NEW C, {"bs", "pct", "us"} \subseteq C, NEW s \in Seq(C), NEW k \in 1..Len(s)
    PROVE  /\ UpTo(s, k - 1) \in Seq(C)
           /\ UpTo(s, k) = UpTo(s, k - 1) \o Block(s[k])
<1> DEFINE t == SubSeq(s, 1, k - 1)
<1>1. t \in Seq(C) /\ s[k] \in C
  <2>1. Len(s) \in Nat /\ \A i \in 1..Len(s) : s[i] \in C
    OBVIOUS
  <2> QED
    BY <2>1
<1>2. SubSeq(s, 1, k) = Append(t, s[k])
  <2>1. Len(s) \in Nat
    OBVIOUS
  <2> QED
    BY <2>1
<1>3. Escaped(t) \in Seq(C) /\ Escaped(Append(t, s[k])) = Escaped(t) \o Block(s[k])
  <2> HIDE DEF t
  <2> QED
    BY <1>1, EscapedAppend
<1> QED
  BY <1>2, <1>3 DEF UpTo

(* What the first characters are escaped as begins what the text is escaped as. *)
LEMMA UpToBegins ==
    ASSUME NEW C, {"bs", "pct", "us"} \subseteq C, NEW s \in Seq(C), NEW k \in 0..Len(s)
    PROVE  /\ Escaped(s) \in Seq(C) /\ UpTo(s, k) \in Seq(C)
           /\ Len(UpTo(s, k)) <= Len(Escaped(s))
           /\ \A i \in 1..Len(UpTo(s, k)) : Escaped(s)[i] = UpTo(s, k)[i]
<1> DEFINE L == Len(s)
           Begins(a) == /\ Len(UpTo(s, a)) <= Len(Escaped(s))
                        /\ \A i \in 1..Len(UpTo(s, a)) : Escaped(s)[i] = UpTo(s, a)[i]
           T == {d \in Nat : d <= L => Begins(L - d)}
<1>0. L \in Nat
  OBVIOUS
<1>1. \A a \in 0..L : UpTo(s, a) \in Seq(C)
  <2>1. ASSUME NEW a \in 0..L PROVE UpTo(s, a) \in Seq(C)
    <3>1. SubSeq(s, 1, a) \in Seq(C)
      BY <1>0
    <3>2. "bs" \in C
      OBVIOUS
    <3> HIDE DEF L
    <3> QED
      BY <3>1, <3>2, EscapedAppend DEF UpTo
  <2> QED
    BY <2>1
<1>2. UpTo(s, L) = Escaped(s)
  <2>1. SubSeq(s, 1, L) = s
    BY <1>0
  <2> QED
    BY <2>1 DEF UpTo
<1>3. 0 \in T
  <2>1. L - 0 = L /\ L \in 0..L
    BY <1>0
  <2>2. Len(UpTo(s, L)) \in Nat
    BY <1>1, <2>1
  <2> HIDE DEF L
  <2> QED
    BY <1>2, <2>1, <2>2
<1>4. ASSUME NEW d \in Nat, d \in T PROVE d + 1 \in T
  <2>1. SUFFICES ASSUME d + 1 <= L PROVE Begins(L - (d + 1))
    OBVIOUS
  <2> DEFINE a == L - d
  <2>2. a \in 1..Len(s) /\ a \in 0..L /\ a - 1 \in 0..L /\ L - (d + 1) = a - 1 /\ d <= L
    BY <1>0, <2>1
  <2>3. Begins(a)
    BY <1>4, <2>2
  <2> HIDE DEF L, a
  <2>4. UpTo(s, a) = UpTo(s, a - 1) \o Block(s[a])
    BY <2>2, UpToNext
  <2>5. Block(s[a]) \in Seq(C)
    <3>1. s[a] \in C /\ "bs" \in C
      BY <2>2
    <3> QED
      BY <3>1 DEF Block
  <2>6. UpTo(s, a - 1) \in Seq(C)
    BY <1>1, <2>2
  <2>7. Len(UpTo(s, a - 1)) <= Len(UpTo(s, a))
        /\ \A i \in 1..Len(UpTo(s, a - 1)) : i \in 1..Len(UpTo(s, a)) /\ UpTo(s, a)[i] = UpTo(s, a - 1)[i]
    <3> DEFINE u == UpTo(s, a - 1)
               b == Block(s[a])
    <3> HIDE DEF u, b
    <3>1. u \in Seq(C) /\ b \in Seq(C) /\ UpTo(s, a) = u \o b
      BY <2>4, <2>5, <2>6 DEF u, b
    <3>2. Len(u) <= Len(u \o b) /\ \A i \in 1..Len(u) : i \in 1..Len(u \o b) /\ (u \o b)[i] = u[i]
      BY <3>1
    <3> QED
      BY <3>1, <3>2 DEF u
  <2>8. Begins(a - 1)
    <3>1. Len(UpTo(s, a - 1)) \in Nat /\ Len(UpTo(s, a)) \in Nat /\ Len(Escaped(s)) \in Nat
      BY <1>0, <1>1, <1>2, <2>2, <2>6
    <3> QED
      BY <2>3, <2>7, <3>1
  <2> QED
    BY <2>2, <2>8
<1>5. \A d \in Nat : d \in T
  <2> HIDE DEF T
  <2> QED
    BY <1>3, <1>4, InEveryNumber
<1>6. Begins(k)
  <2>1. L - k \in Nat /\ L - k <= L /\ L - (L - k) = k
    BY <1>0
  <2>2. L - k \in T
    BY <1>5, <2>1
  <2> HIDE DEF Begins, L
  <2> QED
    BY <2>1, <2>2
<1> QED
  BY <1>0, <1>1, <1>2, <1>6

(* Between the two "%" of a search is what was escaped. *)
LEMMA PatternIs ==
    ASSUME NEW C, {"bs", "pct", "us"} \subseteq C, NEW s \in Seq(C)
    PROVE  LET e == Escaped(s)
               p == LikePattern(s)
           IN /\ Len(e) \in Nat /\ Len(p) = Len(e) + 2
              /\ p[1] = "pct" /\ p[Len(p)] = "pct"
              /\ \A j \in 1..Len(e) : p[j + 1] = e[j]
<1> DEFINE e == Escaped(s)
<1>1. e \in Seq(C)
  <2>1. "bs" \in C
    OBVIOUS
  <2> QED
    BY <2>1, EscapedAppend
<1>2. LikePattern(s) = <<"pct">> \o e \o <<"pct">>
  BY DEF LikePattern
<1> HIDE DEF e
<1> DEFINE p == <<"pct">> \o e \o <<"pct">>
<1>3. Len(e) \in Nat /\ Len(p) = Len(e) + 2 /\ p[1] = "pct" /\ p[Len(e) + 2] = "pct"
  BY <1>1
<1>4. \A j \in 1..Len(e) : p[j + 1] = e[j]
  BY <1>1
<1> HIDE DEF p
<1>5. LikePattern(s) = p
  BY <1>2 DEF p
<1> QED
  BY <1>3, <1>4, <1>5 DEF e

(* One character of a search is one of the text, the same. *)
LEMMA OneCharacter ==
    ASSUME NEW C, {"bs", "pct", "us"} \subseteq C, NEW s \in Seq(C), NEW text, Len(text) \in Nat,
           NEW match, SolvesLike(text, LikePattern(s), match),
           NEW k \in 1..Len(s), NEW i \in 1..(Len(text) + 1)
    PROVE  match[<<i, Len(UpTo(s, k - 1)) + 2>>] <=>
              /\ i <= Len(text) /\ text[i] = s[k]
              /\ match[<<i + 1, Len(UpTo(s, k)) + 2>>]
<1> DEFINE p == LikePattern(s)
           m == Len(p)
           o == Len(UpTo(s, k - 1))
           e == Escaped(s)
           c == s[k]
           j == o + 2
<1>1. UpTo(s, k - 1) \in Seq(C) /\ UpTo(s, k) = UpTo(s, k - 1) \o Block(c)
  BY UpToNext
<1>2. k \in 0..Len(s) /\ Len(s) \in Nat
  OBVIOUS
<1>3. Len(UpTo(s, k)) <= Len(e) /\ \A x \in 1..Len(UpTo(s, k)) : e[x] = UpTo(s, k)[x]
  BY <1>2, UpToBegins
<1>4. Len(e) \in Nat /\ m = Len(e) + 2 /\ \A x \in 1..Len(e) : p[x + 1] = e[x]
  BY PatternIs
<1>5. o \in Nat
  BY <1>1
<1> HIDE DEF p, m, e
<1>6. CASE c \in {"bs", "pct", "us"}
  <2>1. Block(c) = <<"bs", c>>
    BY <1>6 DEF Block
  <2>2. Len(UpTo(s, k)) = o + 2 /\ UpTo(s, k)[o + 1] = "bs" /\ UpTo(s, k)[o + 2] = c
    <3> DEFINE u == UpTo(s, k - 1)
    <3> HIDE DEF u
    <3>1. u \in Seq(C) /\ UpTo(s, k) = u \o <<"bs", c>> /\ o = Len(u)
      BY <1>1, <2>1 DEF u
    <3> HIDE DEF c, o
    <3> QED
      BY <3>1
  <2> HIDE DEF o, c
  <2>3. o + 1 \in 1..Len(e) /\ o + 2 \in 1..Len(e) /\ o + 1 \in 1..Len(UpTo(s, k))
        /\ o + 2 \in 1..Len(UpTo(s, k))
    BY <1>3, <1>4, <1>5, <2>2
  <2>4. e[o + 1] = "bs" /\ e[o + 2] = c
    BY <1>3, <2>2, <2>3
  <2>5. p[j] = "bs" /\ p[j + 1] = c
    <3>1. p[(o + 1) + 1] = "bs" /\ p[(o + 2) + 1] = c
      BY <1>4, <2>3, <2>4
    <3>2. (o + 1) + 1 = j /\ (o + 2) + 1 = j + 1
      BY <1>5
    <3> QED
      BY <3>1, <3>2
  <2>6. j \in 1..(m + 2) /\ j < m /\ j <= m /\ j + 2 = Len(UpTo(s, k)) + 2
    BY <1>4, <1>5, <2>2, <2>3
  <2> HIDE DEF j
  <2>7. match[<<i, j>>] = LikeAt(text, p, match, <<i, j>>)
    BY <2>6, AtPlace DEF p, m
  <2>8. LikeAt(text, p, match, <<i, j>>) <=> i <= Len(text) /\ text[i] = c /\ match[<<i + 1, j + 2>>]
    <3>1. ~(j > m)
      BY <1>4, <2>6
    <3> QED
      BY <2>5, <2>6, <3>1 DEF LikeAt, m
  <2> QED
    BY <2>6, <2>7, <2>8 DEF j, o, c
<1>7. CASE c \notin {"bs", "pct", "us"}
  <2>1. Block(c) = <<c>>
    BY <1>7 DEF Block
  <2>2. Len(UpTo(s, k)) = o + 1 /\ UpTo(s, k)[o + 1] = c
    <3> DEFINE u == UpTo(s, k - 1)
    <3> HIDE DEF u
    <3>1. u \in Seq(C) /\ UpTo(s, k) = u \o <<c>> /\ o = Len(u)
      BY <1>1, <2>1 DEF u
    <3> HIDE DEF c, o
    <3> QED
      BY <3>1
  <2> HIDE DEF o, c
  <2>3. o + 1 \in 1..Len(e) /\ o + 1 \in 1..Len(UpTo(s, k))
    BY <1>3, <1>4, <1>5, <2>2
  <2>4. e[o + 1] = c
    BY <1>3, <2>2, <2>3
  <2>5. p[j] = c
    <3>1. p[(o + 1) + 1] = c
      BY <1>4, <2>3, <2>4
    <3>2. (o + 1) + 1 = j
      BY <1>5
    <3> QED
      BY <3>1, <3>2
  <2>6. j \in 1..(m + 2) /\ j <= m /\ j + 1 = Len(UpTo(s, k)) + 2
    BY <1>4, <1>5, <2>2, <2>3
  <2> HIDE DEF j
  <2>7. match[<<i, j>>] = LikeAt(text, p, match, <<i, j>>)
    BY <2>6, AtPlace DEF p, m
  <2>8. LikeAt(text, p, match, <<i, j>>) <=> i <= Len(text) /\ text[i] = c /\ match[<<i + 1, j + 1>>]
    <3>1. ~(j > m)
      BY <1>4, <2>6
    <3>2. p[j] # "bs" /\ p[j] # "pct" /\ p[j] # "us"
      BY <1>7, <2>5
    <3> QED
      BY <2>5, <2>6, <3>1, <3>2 DEF LikeAt, m
  <2> QED
    BY <2>6, <2>7, <2>8 DEF j, o, c
<1> QED
  BY <1>6, <1>7 DEF o, c

(* From place i on, the text has the characters of s after the k-th. *)
HasRest(text, s, k, i) ==
    /\ i + (Len(s) - k) <= Len(text) + 1
    /\ \A l \in (k + 1)..Len(s) : text[i + l - k - 1] = s[l]

(* So is the rest of a search. *)
LEMMA RestOfSearch ==
    ASSUME NEW C, {"bs", "pct", "us"} \subseteq C, NEW s \in Seq(C), NEW text, Len(text) \in Nat,
           NEW match, SolvesLike(text, LikePattern(s), match)
    PROVE  \A k \in 0..Len(s) : \A i \in 1..(Len(text) + 1) :
               match[<<i, Len(UpTo(s, k)) + 2>>] <=> HasRest(text, s, k, i)
<1> DEFINE L == Len(s)
           n == Len(text)
           Same(k) == \A i \in 1..(n + 1) :
                         match[<<i, Len(UpTo(s, k)) + 2>>] <=> HasRest(text, s, k, i)
           T == {d \in Nat : d <= L => Same(L - d)}
<1>0. L \in Nat /\ n \in Nat
  OBVIOUS
<1>1. Same(L)
  <2>1. UpTo(s, L) = Escaped(s)
    <3>1. SubSeq(s, 1, L) = s
      BY <1>0
    <3> QED
      BY <3>1 DEF UpTo
  <2>2. Len(Escaped(s)) \in Nat /\ Len(LikePattern(s)) = Len(Escaped(s)) + 2
        /\ LikePattern(s)[Len(LikePattern(s))] = "pct"
    BY PatternIs
  <2>3. \A i \in 1..(n + 1) : match[<<i, Len(LikePattern(s))>>]
    <3>1. Len(LikePattern(s)) \in Nat \ {0}
      BY <2>2
    <3> QED
      BY <1>0, <2>2, <3>1, LastAny
  <2>4. \A i \in 1..(n + 1) : HasRest(text, s, L, i)
    BY <1>0 DEF HasRest
  <2> HIDE DEF L, n
  <2> QED
    BY <2>1, <2>2, <2>3, <2>4
<1>2. 0 \in T
  <2>1. L - 0 = L
    BY <1>0
  <2> HIDE DEF Same, L
  <2> QED
    BY <1>1, <2>1
<1>3. ASSUME NEW k \in 1..L, Same(k) PROVE Same(k - 1)
  <2> SUFFICES ASSUME NEW i \in 1..(n + 1)
               PROVE  match[<<i, Len(UpTo(s, k - 1)) + 2>>] <=> HasRest(text, s, k - 1, i)
    OBVIOUS
  <2>1. match[<<i, Len(UpTo(s, k - 1)) + 2>>] <=>
           i <= n /\ text[i] = s[k] /\ match[<<i + 1, Len(UpTo(s, k)) + 2>>]
    BY <1>0, OneCharacter
  <2>2. i <= n => (match[<<i + 1, Len(UpTo(s, k)) + 2>>] <=> HasRest(text, s, k, i + 1))
    <3>1. i <= n => i + 1 \in 1..(n + 1)
      BY <1>0
    <3> HIDE DEF n, L
    <3> QED
      BY <1>3, <3>1
  <2>3. HasRest(text, s, k - 1, i) <=> i <= n /\ text[i] = s[k] /\ HasRest(text, s, k, i + 1)
    <3>1. ASSUME HasRest(text, s, k - 1, i)
          PROVE  i <= n /\ text[i] = s[k] /\ HasRest(text, s, k, i + 1)
      <4>1. i <= n /\ (i + 1) + (Len(s) - k) <= Len(text) + 1
        BY <1>0, <3>1 DEF HasRest
      <4>2. text[i] = s[k]
        <5>1. k \in ((k - 1) + 1)..Len(s) /\ i + k - (k - 1) - 1 = i
          BY <1>0
        <5>2. text[i + k - (k - 1) - 1] = s[k]
          BY <3>1, <5>1 DEF HasRest
        <5> QED
          BY <5>1, <5>2
      <4>3. ASSUME NEW l \in (k + 1)..Len(s) PROVE text[(i + 1) + l - k - 1] = s[l]
        <5>1. l \in ((k - 1) + 1)..Len(s) /\ i + l - (k - 1) - 1 = (i + 1) + l - k - 1
          BY <1>0
        <5>2. text[i + l - (k - 1) - 1] = s[l]
          BY <3>1, <5>1 DEF HasRest
        <5> QED
          BY <5>1, <5>2
      <4> QED
        BY <4>1, <4>2, <4>3 DEF HasRest
    <3>2. ASSUME i <= n, text[i] = s[k], HasRest(text, s, k, i + 1)
          PROVE  HasRest(text, s, k - 1, i)
      <4>1. i + (Len(s) - (k - 1)) <= Len(text) + 1
        BY <1>0, <3>2 DEF HasRest
      <4>2. ASSUME NEW l \in ((k - 1) + 1)..Len(s) PROVE text[i + l - (k - 1) - 1] = s[l]
        <5>1. CASE l = k
          <6>1. i + l - (k - 1) - 1 = i
            BY <1>0, <5>1
          <6> QED
            BY <3>2, <5>1, <6>1
        <5>2. CASE l # k
          <6>1. l \in (k + 1)..Len(s) /\ i + l - (k - 1) - 1 = (i + 1) + l - k - 1
            BY <1>0, <5>2
          <6>2. text[(i + 1) + l - k - 1] = s[l]
            BY <3>2, <6>1 DEF HasRest
          <6> QED
            BY <6>1, <6>2
        <5> QED
          BY <5>1, <5>2
      <4> QED
        BY <4>1, <4>2 DEF HasRest
    <3> QED
      BY <3>1, <3>2
  <2> QED
    BY <2>1, <2>2, <2>3
<1>4. ASSUME NEW d \in Nat, d \in T PROVE d + 1 \in T
  <2>1. SUFFICES ASSUME d + 1 <= L PROVE Same(L - (d + 1))
    OBVIOUS
  <2>2. L - d \in 1..L /\ d <= L /\ L - (d + 1) = (L - d) - 1
    BY <1>0, <2>1
  <2> HIDE DEF Same, L
  <2>3. Same(L - d)
    BY <1>4, <2>2
  <2>4. Same((L - d) - 1)
    BY <1>3, <2>2, <2>3
  <2> QED
    BY <2>2, <2>4
<1>5. \A d \in Nat : d \in T
  <2> HIDE DEF T
  <2> QED
    BY <1>2, <1>4, InEveryNumber
<1>6. ASSUME NEW k \in 0..L PROVE Same(k)
  <2>1. L - k \in Nat /\ L - k <= L /\ L - (L - k) = k
    BY <1>0
  <2>2. L - k \in T
    BY <1>5, <2>1
  <2> HIDE DEF Same, L
  <2> QED
    BY <2>1, <2>2
<1> QED
  BY <1>6

(* A search for s finds the texts in which s occurs. *)
LEMMA LikeFinds ==
    ASSUME NEW C, {"bs", "pct", "us"} \subseteq C, NEW s \in Seq(C), NEW text, Len(text) \in Nat
    PROVE  Like(text, LikePattern(s)) <=> Occurs(s, text)
<1> DEFINE p == LikePattern(s)
           n == Len(text)
<1>1. Len(p) \in Nat \ {0} /\ p[1] = "pct"
  BY PatternIs
<1>2. PICK match : SolvesLike(text, p, match) /\ Like(text, p) = match[<<1, 1>>]
  <2>1. Len(p) \in Nat
    BY <1>1
  <2> HIDE DEF p
  <2> QED
    BY <2>1, MatchExists, LikeIs
<1>3. match[<<1, 1>>] <=> \E i \in 1..(n + 1) : match[<<i, 2>>]
  <2> HIDE DEF p
  <2> QED
    BY <1>1, <1>2, FirstAny
<1>4. \A i \in 1..(n + 1) : match[<<i, 2>>] <=> HasRest(text, s, 0, i)
  <2>1. Len(UpTo(s, 0)) + 2 = 2
    <3>1. SubSeq(s, 1, 0) = <<>>
      OBVIOUS
    <3>2. UpTo(s, 0) = <<>>
      BY <3>1, EscapedEmpty DEF UpTo
    <3> QED
      BY <3>2
  <2>2. 0 \in 0..Len(s)
    OBVIOUS
  <2>3. \A i \in 1..(n + 1) : match[<<i, Len(UpTo(s, 0)) + 2>>] <=> HasRest(text, s, 0, i)
    BY <1>2, <2>2, RestOfSearch
  <2> QED
    BY <2>1, <2>3
<1>5. (\E i \in 1..(n + 1) : HasRest(text, s, 0, i)) <=> Occurs(s, text)
  <2>0. Len(s) \in Nat /\ DOMAIN s = 1..Len(s)
    OBVIOUS
  <2>1. ASSUME NEW i \in 1..(n + 1), HasRest(text, s, 0, i) PROVE Occurs(s, text)
    <3>1. i - 1 \in 0..(Len(text) - Len(s))
      BY <2>0, <2>1 DEF HasRest
    <3>2. ASSUME NEW l \in DOMAIN s PROVE text[(i - 1) + l] = s[l]
      <4>1. l \in (0 + 1)..Len(s) /\ i + l - 0 - 1 = (i - 1) + l
        BY <2>0
      <4>2. text[i + l - 0 - 1] = s[l]
        BY <2>1, <4>1 DEF HasRest
      <4> QED
        BY <4>1, <4>2
    <3> QED
      BY <3>1, <3>2 DEF Occurs
  <2>2. ASSUME Occurs(s, text) PROVE \E i \in 1..(n + 1) : HasRest(text, s, 0, i)
    <3>1. PICK k \in 0..(Len(text) - Len(s)) : \A l \in DOMAIN s : text[k + l] = s[l]
      BY <2>2 DEF Occurs
    <3>2. k + 1 \in 1..(n + 1) /\ (k + 1) + (Len(s) - 0) <= Len(text) + 1
      BY <2>0
    <3>3. ASSUME NEW l \in (0 + 1)..Len(s) PROVE text[(k + 1) + l - 0 - 1] = s[l]
      <4>1. l \in DOMAIN s /\ (k + 1) + l - 0 - 1 = k + l
        BY <2>0
      <4> QED
        BY <3>1, <4>1
    <3>4. HasRest(text, s, 0, k + 1)
      BY <3>2, <3>3 DEF HasRest
    <3> QED
      BY <3>2, <3>4
  <2> QED
    BY <2>1, <2>2
<1> QED
  BY <1>2, <1>3, <1>4, <1>5

(* The search of the events, for what any user types. *)
LEMMA SearchRight == RulesInv => SearchIsSubstring
<1> SUFFICES ASSUME RulesInv, topic = "search",
                    NEW hay \in SeqOf(ItemsOf["search"], MaxItems["search"])
             PROVE  Like(hay, LikePattern(items)) <=> Occurs(items, hay)
  BY DEF SearchIsSubstring, About
<1> DEFINE C == ItemsOf["search"] \cup {"bs", "pct", "us"}
<1>1. items \in Seq(C)
  <2>1. items \in Seq(ItemsOf["search"])
    BY DEF RulesInv, Typed
  <2> QED
    BY <2>1
<1>2. Len(hay) \in Nat
  BY RulesAssumption DEF SeqOf, Topics
<1>3. {"bs", "pct", "us"} \subseteq C
  OBVIOUS
<1> HIDE DEF C
<1> QED
  BY <1>1, <1>2, <1>3, LikeFinds

(* However a user's search is escaped, the database finds what contains it  *)
(* and nothing else: list_user_events.                                      *)
THEOREM SearchFindsWhatIsTyped == RulesSpec => []SearchIsSubstring
<1> QED
  BY RulesInvariance, SearchRight, PTL
=============================================================================
