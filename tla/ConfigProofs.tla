----------------------------- MODULE ConfigProofs -----------------------------
(* DeviceConfig: types, the multiplier that is measured with, a configuration    *)
(* that runs as it is stored, and the store it implements, for every set of keys *)
(* and files of every length.  A list is known by the values Get() finds in it,   *)
(* so the lemmas say what each operation of ssconfig.c does to those.            *)
EXTENDS DeviceConfig, Recursion, SequenceTheorems

Items == Lines \ {Comment}

\* No key is written as a comment or a missing file is, and every other line has one.
LEMMA KeysAreKeys ==
  /\ "#" \notin Keys /\ "missing" \notin Keys
  /\ Comment \in Lines /\ Comment.key = "#"
  /\ \A l \in Lines : l # Comment =>
       l.key # "#" /\ l.key \in Keys /\ l.value \in Values \cup {""}
<1>1. "#" \notin Keys /\ "missing" \notin Keys
  BY DeviceConfigAssumption
<1>2. Comment \in Lines /\ Comment.key = "#"
  BY DEF Lines, Comment
<1>3. ASSUME NEW l \in Lines, l # Comment
      PROVE  l.key # "#" /\ l.key \in Keys /\ l.value \in Values \cup {""}
  <2>1. l \in [key : Keys, value : Values \cup {""}]
    BY <1>3 DEF Lines
  <2> QED
    BY <1>1, <2>1
<1> QED
  BY <1>1, <1>2, <1>3

\* The value that stands for no file is none of a file.
LEMMA MissingIsNoFile == Missing \notin Seq(Lines)
<1> SUFFICES ASSUME Missing \in Seq(Lines) PROVE FALSE
  OBVIOUS
<1>1. Missing[1].key = "missing"
  BY DEF Missing
<1>2. Len(Missing) = 1
  BY DEF Missing
<1>3. 1 \in 1..Len(Missing)
  BY <1>2
<1>4. Missing[1] \in Lines
  BY <1>3, ElementOfSeq
<1> QED
  BY <1>1, <1>4, KeysAreKeys

-----------------------------------------------------------------------------
(* get_config() and set_config().                                              *)

\* A key that is not in a list has no value.
LEMMA GetNone ==
  ASSUME NEW list, NEW k, \A n \in 1..Len(list) : list[n].key # k
  PROVE  Get(list, k) = ""
BY DEF Get, At

\* A key that is named once has the value it is given.
LEMMA GetOne ==
  ASSUME NEW list, NoDuplicates(list), NEW k, k # "#",
         NEW n \in 1..Len(list), list[n].key = k
  PROVE  Get(list, k) = list[n].value
<1>1. At(list, k) = {n}
  <2>1. list[n] # Comment
    BY KeysAreKeys
  <2>2. \A m \in 1..Len(list) : list[m].key = k => m = n
    BY <2>1 DEF NoDuplicates
  <2> QED
    BY <2>2 DEF At
<1>2. Min({n}) = n
  BY DEF Min
<1> QED
  BY <1>1, <1>2 DEF Get

\* Where a key is, its first place is one of them.
LEMMA FirstAt ==
  ASSUME NEW list \in Seq(Lines), NEW k, At(list, k) # {}
  PROVE  Min(At(list, k)) \in 1..Len(list) /\ list[Min(At(list, k))].key = k
<1>1. At(list, k) \in SUBSET Nat
  BY DEF At
<1>2. \E m \in At(list, k) : \A n \in At(list, k) : m <= n
  BY <1>1, Least
<1>3. Min(At(list, k)) \in At(list, k)
  BY <1>2 DEF Min
<1> QED
  BY <1>3 DEF At

\* What set_config() makes of a list: one item is changed or put in front.
LEMMA SetItem ==
  ASSUME NEW list \in Seq(Lines), NEW line \in Items
  PROVE  /\ Set(list, line) \in Seq(Lines)
         /\ NoDuplicates(list) =>
              /\ NoDuplicates(Set(list, line))
              /\ \A k \in Keys : Get(Set(list, line), k) =
                                   IF k = line.key THEN line.value ELSE Get(list, k)
<1> DEFINE set == Set(list, line)
           N == Len(list)
<1>0. N \in Nat /\ line \in Lines /\ line # Comment /\ line.key # "#"
  <2>1. N \in Nat
    OBVIOUS
  <2> QED
    BY <2>1, KeysAreKeys DEF Items
<1>1. CASE At(list, line.key) = {}
  <2>1. set = <<line>> \o list
    BY <1>1 DEF Set
  <2>2. /\ set \in Seq(Lines) /\ Len(set) = N + 1
        /\ set[1] = line
        /\ \A n \in 1..N : set[n+1] = list[n]
    BY <1>0, <2>1
  <2>3. \A n \in 1..N : list[n].key # line.key
    BY <1>1 DEF At
  <2> HIDE DEF set, N
  <2>4. ASSUME NoDuplicates(list)
        PROVE  /\ NoDuplicates(set)
               /\ \A k \in Keys : Get(set, k) = IF k = line.key THEN line.value ELSE Get(list, k)
    <3>1. NoDuplicates(set)
      <4> SUFFICES ASSUME NEW m \in 1..Len(set), NEW n \in 1..Len(set), set[m].key = set[n].key
                   PROVE  m = n \/ set[m] = Comment
        BY DEF NoDuplicates
      <4>1. CASE m = 1 /\ n # 1
        <5>1. n - 1 \in 1..N /\ set[n] = list[n-1]
          BY <1>0, <2>2, <4>1
        <5> QED
          BY <2>2, <2>3, <4>1, <5>1
      <4>2. CASE n = 1 /\ m # 1
        <5>1. m - 1 \in 1..N /\ set[m] = list[m-1]
          BY <1>0, <2>2, <4>2
        <5> QED
          BY <2>2, <2>3, <4>2, <5>1
      <4>3. CASE m # 1 /\ n # 1
        <5>1. /\ m - 1 \in 1..N /\ set[m] = list[m-1]
              /\ n - 1 \in 1..N /\ set[n] = list[n-1]
          BY <1>0, <2>2, <4>3
        <5>2. m - 1 = n - 1 \/ list[m-1] = Comment
          BY <2>4, <5>1 DEF NoDuplicates, N
        <5> QED
          BY <5>1, <5>2
      <4> QED
        BY <4>1, <4>2, <4>3
    <3>2. ASSUME NEW k \in Keys
          PROVE  Get(set, k) = IF k = line.key THEN line.value ELSE Get(list, k)
      <4>1. k # "#"
        BY KeysAreKeys
      <4>2. CASE k = line.key
        <5>1. 1 \in 1..Len(set)
          BY <1>0, <2>2
        <5> QED
          BY <2>2, <3>1, <4>1, <4>2, <5>1, GetOne
      <4>3. CASE k # line.key /\ \E n \in 1..N : list[n].key = k
        <5>1. PICK n \in 1..N : list[n].key = k
          BY <4>3
        <5>2. n + 1 \in 1..Len(set) /\ set[n+1] = list[n]
          BY <1>0, <2>2
        <5>3. Get(set, k) = list[n].value
          BY <3>1, <4>1, <5>1, <5>2, GetOne
        <5>4. Get(list, k) = list[n].value
          BY <2>4, <4>1, <5>1, GetOne DEF N
        <5> QED
          BY <4>3, <5>3, <5>4
      <4>4. CASE k # line.key /\ \A n \in 1..N : list[n].key # k
        <5>1. \A n \in 1..Len(set) : set[n].key # k
          <6> SUFFICES ASSUME NEW n \in 1..Len(set) PROVE set[n].key # k
            OBVIOUS
          <6>1. n = 1 \/ (n - 1 \in 1..N /\ set[n] = list[n-1])
            BY <1>0, <2>2
          <6> QED
            BY <2>2, <4>4, <6>1
        <5> QED
          BY <4>4, <5>1, GetNone DEF N
      <4> QED
        BY <4>2, <4>3, <4>4
    <3> QED
      BY <3>1, <3>2
  <2> QED
    BY <2>2, <2>4 DEF set
<1>2. CASE At(list, line.key) # {}
  <2> DEFINE p == Min(At(list, line.key))
  <2>1. p \in 1..N /\ list[p].key = line.key
    BY <1>2, FirstAt
  <2>2. set = [list EXCEPT ![p] = line]
    BY <1>2 DEF Set
  <2> HIDE DEF p
  <2>3. /\ set \in Seq(Lines) /\ Len(set) = N
        /\ \A n \in 1..N : set[n] = IF n = p THEN line ELSE list[n]
        /\ set[p] = line
    BY <1>0, <2>1, <2>2, ExceptSeq
  <2> HIDE DEF set
  <2>4. \A n \in 1..N : set[n].key = list[n].key
    BY <2>1, <2>3
  <2>5. ASSUME NoDuplicates(list)
        PROVE  /\ NoDuplicates(set)
               /\ \A k \in Keys : Get(set, k) = IF k = line.key THEN line.value ELSE Get(list, k)
    <3>1. NoDuplicates(set)
      <4> SUFFICES ASSUME NEW m \in 1..N, NEW n \in 1..N, set[m].key = set[n].key
                   PROVE  m = n \/ set[m] = Comment
        BY <2>3 DEF NoDuplicates
      <4>1. m = n \/ list[m] = Comment
        BY <2>4, <2>5 DEF NoDuplicates
      <4>2. list[m] = Comment => set[m] = Comment
        BY <1>0, <2>1, <2>3, KeysAreKeys
      <4> QED
        BY <4>1, <4>2
    <3>2. ASSUME NEW k \in Keys
          PROVE  Get(set, k) = IF k = line.key THEN line.value ELSE Get(list, k)
      <4>1. k # "#"
        BY KeysAreKeys
      <4>2. CASE k = line.key
        BY <2>1, <2>3, <3>1, <4>1, <4>2, GetOne
      <4>3. CASE k # line.key /\ \E n \in 1..N : list[n].key = k
        <5>1. PICK n \in 1..N : list[n].key = k
          BY <4>3
        <5>2. n \in 1..Len(set) /\ set[n] = list[n]
          BY <2>1, <2>3, <4>3, <5>1
        <5> QED
          BY <2>5, <3>1, <4>1, <4>3, <5>1, <5>2, GetOne
      <4>4. CASE k # line.key /\ \A n \in 1..N : list[n].key # k
        <5>1. \A n \in 1..Len(set) : set[n].key # k
          BY <2>3, <2>4, <4>4
        <5>2. Get(set, k) = "" /\ Get(list, k) = ""
          BY <4>4, <5>1, GetNone
        <5> QED
          BY <4>4, <5>2
      <4> QED
        BY <4>2, <4>3, <4>4
    <3> QED
      BY <3>1, <3>2
  <2> QED
    BY <2>3, <2>5 DEF set
<1> QED
  BY <1>1, <1>2
-----------------------------------------------------------------------------
(* read_config() and what cfg_updater does with it.                            *)

\* read_config() line by line.
LEMMA ReadSteps ==
  ASSUME NEW s \in Seq(Lines)
  PROVE  \E list : /\ list[0] = <<>>
                   /\ \A n \in 1..Len(s) : list[n] = IF s[n] = Comment THEN list[n-1]
                                                    ELSE <<s[n]>> \o list[n-1]
                   /\ Read(s) = list[Len(s)]
<1> DEFINE N == Len(s)
           Next1(n, t) == IF s[n] = Comment THEN t ELSE <<s[n]>> \o t
           Def(g) == [n \in 0..N |-> IF n = 0 THEN <<>> ELSE IF s[n] = Comment THEN g[n-1]
                                                             ELSE <<s[n]>> \o g[n-1]]
           T == Seq(Lines)
           step == {p \in (1..N) \X T \X T : p[3] = Next1(p[1], p[2])}
<1>1. N \in Nat /\ \A n \in 1..N : s[n] \in Lines
  OBVIOUS
<1>2. \A n \in 1..N, t \in T : Next1(n, t) \in T
  BY <1>1
<1> HIDE DEF Next1, T
<1>3. \A n \in 1..N, t, u \in T : <<n, t, u>> \in step <=> u = Next1(n, t)
  OBVIOUS
<1>4. \A n \in 1..N, t \in T : \E u \in T : <<n, t, u>> \in step
  BY <1>2, <1>3
<1>5. <<>> \in T
  BY DEF T
<1> HIDE DEF N, step
<1>6. PICK f : /\ f[0] = <<>>
               /\ \A n \in 0..N : f[n] \in T
               /\ \A n \in 1..N : <<n, f[n-1], f[n]>> \in step
  BY <1>1, <1>4, <1>5, Recursion
<1>7. \A n \in 1..N : f[n] = Next1(n, f[n-1])
  <2> SUFFICES ASSUME NEW n \in 1..N PROVE f[n] = Next1(n, f[n-1])
    OBVIOUS
  <2>1. f[n-1] \in T /\ f[n] \in T
    BY <1>1, <1>6
  <2>2. <<n, f[n-1], f[n]>> \in step
    BY <1>6
  <2> QED
    BY <1>3, <2>1, <2>2
<1> DEFINE g == [n \in 0..N |-> f[n]]
<1>8. g = Def(g)
  <2>1. \A n \in 0..N : g[n] = Def(g)[n]
    BY <1>1, <1>6, <1>7 DEF Next1
  <2> QED
    BY <2>1
<1>9. Read(s) = (CHOOSE h : h = Def(h))[N]
  BY DEF Read, N
<1> HIDE DEF g
<1>10. PICK list : list = Def(list) /\ Read(s) = list[N]
  <2>1. \E h : h = Def(h)
    BY <1>8
  <2> HIDE DEF Def
  <2> QED
    BY <1>9, <2>1
<1>11. list[0] = <<>>
  BY <1>1, <1>10
<1>12. \A n \in 1..N : list[n] = IF s[n] = Comment THEN list[n-1] ELSE <<s[n]>> \o list[n-1]
  <2> SUFFICES ASSUME NEW n \in 1..N
               PROVE  list[n] = IF s[n] = Comment THEN list[n-1] ELSE <<s[n]>> \o list[n-1]
    OBVIOUS
  <2>1. n \in 0..N /\ n # 0
    BY <1>1
  <2>2. list[n] = Def(list)[n]
    BY <1>10
  <2> QED
    BY <2>1, <2>2
<1> QED
  BY <1>10, <1>11, <1>12 DEF N

\* A list holds exactly the items of the first j lines of a file.
Holds(list, s, j) ==
    /\ list \in Seq(Lines)
    /\ \A n \in 1..Len(list) : \E m \in 1..j : list[n] = s[m] /\ s[m] # Comment
    /\ \A m \in 1..j : s[m] # Comment => \E n \in 1..Len(list) : list[n] = s[m]
    /\ NoDuplicates(s) => NoDuplicates(list)

\* One more line is read.
LEMMA HoldsNext ==
  ASSUME NEW s \in Seq(Lines), NEW j \in 0..Len(s)-1, NEW list, Holds(list, s, j)
  PROVE  Holds(IF s[j+1] = Comment THEN list ELSE <<s[j+1]>> \o list, s, j + 1)
<1> DEFINE N == Len(s)
           l == s[j+1]
<1>1. j \in Nat /\ j + 1 \in 1..N /\ l \in Lines
  OBVIOUS
<1>2. CASE l = Comment
  BY <1>1, <1>2 DEF Holds
<1>3. CASE l # Comment
  <2> DEFINE t == <<l>> \o list
             M == Len(list)
  <2>1. M \in Nat
    BY DEF Holds
  <2>2. /\ t \in Seq(Lines) /\ Len(t) = M + 1
        /\ t[1] = l
        /\ \A n \in 1..M : t[n+1] = list[n]
    BY <1>1, <2>1 DEF Holds
  <2>3. \A n \in 1..Len(t) : n = 1 \/ (n - 1 \in 1..M /\ t[n] = list[n-1])
    BY <2>1, <2>2
  <2> HIDE DEF t, M, l, N
  <2>4. ASSUME NEW n \in 1..Len(t) PROVE \E m \in 1..j+1 : t[n] = s[m] /\ s[m] # Comment
    <3>1. CASE n = 1
      BY <1>1, <1>3, <2>2, <3>1 DEF l
    <3>2. CASE n # 1
      <4>1. n - 1 \in 1..Len(list) /\ t[n] = list[n-1]
        BY <2>3, <3>2 DEF M
      <4>2. PICK m \in 1..j : list[n-1] = s[m] /\ s[m] # Comment
        BY <4>1 DEF Holds
      <4>3. m \in 1..j+1
        BY <1>1
      <4> QED
        BY <4>1, <4>2, <4>3
    <3> QED
      BY <3>1, <3>2
  <2>5. ASSUME NEW m \in 1..j+1, s[m] # Comment PROVE \E n \in 1..Len(t) : t[n] = s[m]
    <3>1. CASE m = j + 1
      <4>1. 1 \in 1..Len(t) /\ t[1] = s[m]
        BY <2>1, <2>2, <3>1 DEF l
      <4> QED
        BY <4>1
    <3>2. CASE m # j + 1
      <4>1. m \in 1..j
        BY <1>1, <3>2
      <4>2. PICK n \in 1..M : list[n] = s[m]
        BY <2>5, <4>1 DEF Holds, M
      <4>3. n + 1 \in 1..Len(t) /\ t[n+1] = s[m]
        BY <2>1, <2>2, <4>2
      <4> QED
        BY <4>3
    <3> QED
      BY <3>1, <3>2
  <2>6. ASSUME NoDuplicates(s) PROVE NoDuplicates(t)
    <3>1. \A n \in 1..M : list[n].key # l.key
      <4> SUFFICES ASSUME NEW n \in 1..M, list[n].key = l.key PROVE FALSE
        OBVIOUS
      <4>1. PICK m \in 1..j : list[n] = s[m] /\ s[m] # Comment
        BY DEF Holds, M
      <4>2. m \in 1..Len(s) /\ j + 1 \in 1..Len(s) /\ m # j + 1
        BY <1>1 DEF N
      <4>3. s[m].key = s[j+1].key
        BY <4>1 DEF l
      <4> QED
        BY <2>6, <4>1, <4>2, <4>3 DEF NoDuplicates
    <3> SUFFICES ASSUME NEW m \in 1..Len(t), NEW n \in 1..Len(t), t[m].key = t[n].key
                 PROVE  m = n \/ t[m] = Comment
      BY DEF NoDuplicates
    <3>2. CASE m = 1 /\ n # 1
      BY <2>2, <2>3, <3>1, <3>2
    <3>3. CASE n = 1 /\ m # 1
      BY <2>2, <2>3, <3>1, <3>3
    <3>4. CASE m # 1 /\ n # 1
      <4>1. /\ m - 1 \in 1..M /\ t[m] = list[m-1]
            /\ n - 1 \in 1..M /\ t[n] = list[n-1]
        BY <2>3, <3>4
      <4>2. m - 1 = n - 1 \/ list[m-1] = Comment
        BY <2>6, <4>1 DEF NoDuplicates, Holds, M
      <4> QED
        BY <4>1, <4>2
    <3> QED
      BY <3>2, <3>3, <3>4
  <2>7. Holds(t, s, j + 1)
    BY <2>2, <2>4, <2>5, <2>6 DEF Holds
  <2> QED
    BY <1>3, <2>7 DEF t, l
<1> QED
  BY <1>2, <1>3

\* read_config() finds the items of the whole file.
LEMMA ReadHolds == ASSUME NEW s \in Seq(Lines) PROVE Holds(Read(s), s, Len(s))
<1>1. PICK list : /\ list[0] = <<>>
                  /\ \A n \in 1..Len(s) : list[n] = IF s[n] = Comment THEN list[n-1]
                                                   ELSE <<s[n]>> \o list[n-1]
                  /\ Read(s) = list[Len(s)]
  BY ReadSteps
<1> DEFINE N == Len(s)
           S == {n \in 0..N : Holds(list[n], s, n)}
<1>2. N \in Nat
  OBVIOUS
<1>3. 0 \in S
  <2>1. Holds(<<>>, s, 0)
    BY DEF Holds, NoDuplicates
  <2> QED
    BY <1>1, <1>2, <2>1
<1>4. ASSUME NEW n \in 0..N-1, n \in S PROVE n + 1 \in S
  <2>1. n + 1 \in 1..N /\ n + 1 \in 0..N /\ (n + 1) - 1 = n
    BY <1>2
  <2>2. list[n+1] = IF s[n+1] = Comment THEN list[n] ELSE <<s[n+1]>> \o list[n]
    BY <1>1, <2>1
  <2>3. Holds(list[n], s, n)
    BY <1>4
  <2>4. Holds(IF s[n+1] = Comment THEN list[n] ELSE <<s[n+1]>> \o list[n], s, n + 1)
    BY <2>3, HoldsNext
  <2>5. Holds(list[n+1], s, n + 1)
    BY <2>2, <2>4
  <2> QED
    BY <2>1, <2>5
<1> HIDE DEF S, N
<1>5. 0..N \subseteq S
  BY <1>2, <1>3, <1>4, InductionTo
<1>6. N \in S
  BY <1>2, <1>5
<1> QED
  BY <1>1, <1>6 DEF S, N

\* ... and finds every value that is in the file.
LEMMA GetRead ==
  ASSUME NEW s \in Seq(Lines), NoDuplicates(s), NEW k \in Keys
  PROVE  Get(Read(s), k) = Get(s, k)
<1> DEFINE list == Read(s)
<1>1. Holds(list, s, Len(s)) /\ k # "#"
  BY ReadHolds, KeysAreKeys
<1> HIDE DEF list
<1>2. CASE \E m \in 1..Len(s) : s[m].key = k
  <2>1. PICK m \in 1..Len(s) : s[m].key = k
    BY <1>2
  <2>2. s[m] # Comment
    BY <1>1, <2>1, KeysAreKeys
  <2>3. PICK n \in 1..Len(list) : list[n] = s[m]
    BY <1>1, <2>2 DEF Holds
  <2>4. Get(list, k) = list[n].value
    BY <1>1, <2>1, <2>3, GetOne DEF Holds
  <2>5. Get(s, k) = s[m].value
    BY <1>1, <2>1, GetOne
  <2> QED
    BY <2>3, <2>4, <2>5 DEF list
<1>3. CASE \A m \in 1..Len(s) : s[m].key # k
  <2>1. \A n \in 1..Len(list) : list[n].key # k
    BY <1>1, <1>3 DEF Holds
  <2>2. Get(list, k) = "" /\ Get(s, k) = ""
    BY <1>3, <2>1, GetNone
  <2> QED
    BY <2>2 DEF list
<1> QED
  BY <1>2, <1>3

\* cfg_updater line by line.
LEMMA SetAllSteps ==
  ASSUME NEW old \in Seq(Lines), NEW s \in Seq(Lines)
  PROVE  \E list : /\ list[0] = old
                   /\ \A n \in 1..Len(s) : list[n] = IF s[n] = Comment THEN list[n-1]
                                                    ELSE Set(list[n-1], s[n])
                   /\ SetAll(old, s) = list[Len(s)]
<1> DEFINE N == Len(s)
           Next1(n, t) == IF s[n] = Comment THEN t ELSE Set(t, s[n])
           Def(g) == [n \in 0..N |-> IF n = 0 THEN old ELSE IF s[n] = Comment THEN g[n-1]
                                                             ELSE Set(g[n-1], s[n])]
           T == Seq(Lines)
           step == {p \in (1..N) \X T \X T : p[3] = Next1(p[1], p[2])}
<1>1. N \in Nat /\ \A n \in 1..N : s[n] \in Lines
  OBVIOUS
<1>2. \A n \in 1..N, t \in T : Next1(n, t) \in T
  BY <1>1, SetItem DEF Items
<1> HIDE DEF Next1, T
<1>3. \A n \in 1..N, t, u \in T : <<n, t, u>> \in step <=> u = Next1(n, t)
  OBVIOUS
<1>4. \A n \in 1..N, t \in T : \E u \in T : <<n, t, u>> \in step
  BY <1>2, <1>3
<1>5. old \in T
  BY DEF T
<1> HIDE DEF N, step
<1>6. PICK f : /\ f[0] = old
               /\ \A n \in 0..N : f[n] \in T
               /\ \A n \in 1..N : <<n, f[n-1], f[n]>> \in step
  BY <1>1, <1>4, <1>5, Recursion
<1>7. \A n \in 1..N : f[n] = Next1(n, f[n-1])
  <2> SUFFICES ASSUME NEW n \in 1..N PROVE f[n] = Next1(n, f[n-1])
    OBVIOUS
  <2>1. f[n-1] \in T /\ f[n] \in T
    BY <1>1, <1>6
  <2>2. <<n, f[n-1], f[n]>> \in step
    BY <1>6
  <2> QED
    BY <1>3, <2>1, <2>2
<1> DEFINE g == [n \in 0..N |-> f[n]]
<1>8. g = Def(g)
  <2>1. \A n \in 0..N : g[n] = Def(g)[n]
    BY <1>1, <1>6, <1>7 DEF Next1
  <2> QED
    BY <2>1
<1>9. SetAll(old, s) = (CHOOSE h : h = Def(h))[N]
  BY DEF SetAll, N
<1> HIDE DEF g
<1>10. PICK list : list = Def(list) /\ SetAll(old, s) = list[N]
  <2>1. \E h : h = Def(h)
    BY <1>8
  <2> HIDE DEF Def
  <2> QED
    BY <1>9, <2>1
<1>11. list[0] = old
  BY <1>1, <1>10
<1>12. \A n \in 1..N : list[n] = IF s[n] = Comment THEN list[n-1] ELSE Set(list[n-1], s[n])
  <2> SUFFICES ASSUME NEW n \in 1..N
               PROVE  list[n] = IF s[n] = Comment THEN list[n-1] ELSE Set(list[n-1], s[n])
    OBVIOUS
  <2>1. n \in 0..N /\ n # 0
    BY <1>1
  <2>2. list[n] = Def(list)[n]
    BY <1>10
  <2> QED
    BY <2>1, <2>2
<1> QED
  BY <1>10, <1>11, <1>12 DEF N

\* The first j lines of a file have been set in a list.
Merged(list, old, s, j) ==
    /\ list \in Seq(Lines)
    /\ NoDuplicates(old) /\ NoDuplicates(s) =>
         /\ NoDuplicates(list)
         /\ \A k \in Keys : Get(list, k) = IF \E m \in 1..j : s[m].key = k THEN Get(s, k)
                                           ELSE Get(old, k)

\* One more line is set.
LEMMA MergedNext ==
  ASSUME NEW old \in Seq(Lines), NEW s \in Seq(Lines), NEW j \in 0..Len(s)-1,
         NEW list, Merged(list, old, s, j)
  PROVE  Merged(IF s[j+1] = Comment THEN list ELSE Set(list, s[j+1]), old, s, j + 1)
<1> DEFINE l == s[j+1]
           t == IF l = Comment THEN list ELSE Set(list, l)
<1>1. j \in Nat /\ j + 1 \in 1..Len(s) /\ l \in Lines
  OBVIOUS
<1>2. l # Comment => l \in Items /\ l.key # "#"
  BY <1>1, KeysAreKeys DEF Items
<1> HIDE DEF l
<1>3. t \in Seq(Lines)
  BY <1>2, SetItem DEF Merged
<1>4. ASSUME NoDuplicates(old), NoDuplicates(s)
      PROVE  /\ NoDuplicates(t)
             /\ \A k \in Keys : Get(t, k) = IF \E m \in 1..j+1 : s[m].key = k THEN Get(s, k)
                                            ELSE Get(old, k)
  <2>1. /\ list \in Seq(Lines) /\ NoDuplicates(list)
        /\ \A k \in Keys : Get(list, k) = IF \E m \in 1..j : s[m].key = k THEN Get(s, k)
                                          ELSE Get(old, k)
    BY <1>4 DEF Merged
  <2>2. NoDuplicates(t)
    BY <1>2, <2>1, SetItem
  <2>3. ASSUME NEW k \in Keys
        PROVE  Get(t, k) = IF \E m \in 1..j+1 : s[m].key = k THEN Get(s, k) ELSE Get(old, k)
    <3>1. k # "#"
      BY KeysAreKeys
    <3>2. CASE l.key = k
      <4>1. l # Comment
        BY <3>1, <3>2, KeysAreKeys
      <4>2. Get(t, k) = l.value
        BY <1>2, <2>1, <3>2, <4>1, SetItem
      <4>3. Get(s, k) = l.value
        BY <1>1, <1>4, <3>1, <3>2, GetOne DEF l
      <4>4. j + 1 \in 1..j+1 /\ s[j+1].key = k
        BY <1>1, <3>2 DEF l
      <4> QED
        BY <4>2, <4>3, <4>4
    <3>3. CASE l.key # k
      <4>1. Get(t, k) = Get(list, k)
        BY <1>2, <2>1, <3>3, SetItem
      <4>2. \A m \in 1..j+1 : m \in 1..j \/ m = j + 1
        BY <1>1
      <4>3. (\E m \in 1..j+1 : s[m].key = k) <=> (\E m \in 1..j : s[m].key = k)
        BY <1>1, <3>3, <4>2 DEF l
      <4> QED
        BY <2>1, <4>1, <4>3
    <3> QED
      BY <3>2, <3>3
  <2> QED
    BY <2>2, <2>3
<1>5. Merged(t, old, s, j + 1)
  BY <1>3, <1>4 DEF Merged
<1> QED
  BY <1>5 DEF l

\* cfg_updater sets the keys of the new file and leaves the others.
LEMMA SetAllMerges ==
  ASSUME NEW old \in Seq(Lines), NEW s \in Seq(Lines)
  PROVE  Merged(SetAll(old, s), old, s, Len(s))
<1>1. PICK list : /\ list[0] = old
                  /\ \A n \in 1..Len(s) : list[n] = IF s[n] = Comment THEN list[n-1]
                                                   ELSE Set(list[n-1], s[n])
                  /\ SetAll(old, s) = list[Len(s)]
  BY SetAllSteps
<1> DEFINE N == Len(s)
           S == {n \in 0..N : Merged(list[n], old, s, n)}
<1>2. N \in Nat
  OBVIOUS
<1>3. 0 \in S
  <2>1. Merged(old, old, s, 0)
    BY DEF Merged
  <2> QED
    BY <1>1, <1>2, <2>1
<1>4. ASSUME NEW n \in 0..N-1, n \in S PROVE n + 1 \in S
  <2>1. n + 1 \in 1..N /\ n + 1 \in 0..N /\ (n + 1) - 1 = n
    BY <1>2
  <2>2. list[n+1] = IF s[n+1] = Comment THEN list[n] ELSE Set(list[n], s[n+1])
    BY <1>1, <2>1
  <2>3. Merged(list[n], old, s, n)
    BY <1>4
  <2>4. Merged(IF s[n+1] = Comment THEN list[n] ELSE Set(list[n], s[n+1]), old, s, n + 1)
    BY <2>3, MergedNext
  <2>5. Merged(list[n+1], old, s, n + 1)
    BY <2>2, <2>4
  <2> QED
    BY <2>1, <2>5
<1> HIDE DEF S, N
<1>5. 0..N \subseteq S
  BY <1>2, <1>3, <1>4, InductionTo
<1>6. N \in S
  BY <1>2, <1>5
<1> QED
  BY <1>1, <1>6 DEF S, N

-----------------------------------------------------------------------------
(* main() and its defaults.                                                    *)

\* get_config() returns a value or "".
LEMMA GetValue ==
  ASSUME NEW list \in Seq(Lines), NEW k \in Keys
  PROVE  Get(list, k) \in Values \cup {""}
<1>1. CASE At(list, k) = {}
  BY <1>1 DEF Get
<1>2. CASE At(list, k) # {}
  <2> DEFINE p == Min(At(list, k))
  <2>1. p \in 1..Len(list) /\ list[p].key = k
    BY <1>2, FirstAt
  <2> HIDE DEF p
  <2>2. list[p] \in Lines /\ list[p] # Comment
    BY <2>1, ElementOfSeq, KeysAreKeys
  <2>3. Get(list, k) = list[p].value
    BY <1>2 DEF Get, p
  <2> QED
    BY <2>2, <2>3, KeysAreKeys
<1> QED
  BY <1>1, <1>2

\* A default is added for a key that has no value, and changes no other.
LEMMA AddDefaultAdds ==
  ASSUME NEW list \in Seq(Lines), NEW d
  PROVE  /\ AddDefault(list, d) \in Seq(Lines)
         /\ NoDuplicates(list) =>
              /\ NoDuplicates(AddDefault(list, d))
              /\ \A k \in Keys : Get(list, k) # "" => Get(AddDefault(list, d), k) = Get(list, k)
<1>1. CASE d \in Keys /\ Get(list, d) = ""
  <2> DEFINE l == Line(d, "default")
             t == AddDefault(list, d)
  <2>1. l.key = d /\ l \in Lines
    BY <1>1 DEF Line, Lines, Values
  <2>2. l \in Items
    BY <1>1, <2>1, KeysAreKeys DEF Items
  <2>3. t = Set(list, l)
    BY <1>1 DEF AddDefault
  <2> HIDE DEF l, t
  <2>4. t \in Seq(Lines)
    BY <2>2, <2>3, SetItem
  <2>5. ASSUME NoDuplicates(list)
        PROVE  NoDuplicates(t) /\ \A k \in Keys : Get(list, k) # "" => Get(t, k) = Get(list, k)
    <3>1. /\ NoDuplicates(t)
          /\ \A k \in Keys : Get(t, k) = IF k = l.key THEN l.value ELSE Get(list, k)
      BY <2>2, <2>3, <2>5, SetItem
    <3>2. \A k \in Keys : Get(list, k) # "" => k # l.key
      BY <1>1, <2>1
    <3> QED
      BY <3>1, <3>2
  <2> QED
    BY <2>4, <2>5 DEF t
<1>2. CASE ~(d \in Keys /\ Get(list, d) = "")
  BY <1>2 DEF AddDefault
<1> QED
  BY <1>1, <1>2

\* Defaults are added and what is there stays.
LEMMA CompleteAdds ==
  ASSUME NEW list \in Seq(Lines)
  PROVE  /\ Complete(list) \in Seq(Lines)
         /\ NoDuplicates(list) =>
              /\ NoDuplicates(Complete(list))
              /\ \A k \in Keys : Get(list, k) # "" => Get(Complete(list), k) = Get(list, k)
<1> DEFINE one == AddDefault(list, "upload")
           two == AddDefault(one, "telnet")
           three == AddDefault(two, "unit")
<1>1. /\ one \in Seq(Lines)
      /\ NoDuplicates(list) =>
           /\ NoDuplicates(one)
           /\ \A k \in Keys : Get(list, k) # "" => Get(one, k) = Get(list, k)
  BY AddDefaultAdds
<1> HIDE DEF one
<1>2. /\ two \in Seq(Lines)
      /\ NoDuplicates(one) =>
           /\ NoDuplicates(two)
           /\ \A k \in Keys : Get(one, k) # "" => Get(two, k) = Get(one, k)
  BY <1>1, AddDefaultAdds
<1> HIDE DEF two
<1>3. /\ three \in Seq(Lines)
      /\ NoDuplicates(two) =>
           /\ NoDuplicates(three)
           /\ \A k \in Keys : Get(two, k) # "" => Get(three, k) = Get(two, k)
  BY <1>2, AddDefaultAdds
<1>4. Complete(list) = three
  BY DEF Complete, one, two
<1> HIDE DEF three
<1> QED
  BY <1>1, <1>2, <1>3, <1>4
-----------------------------------------------------------------------------
(* The invariant.                                                              *)

Places == {"init", "script_write", "boot", "cali", "cali_write", "conf", "conf_write",
           "running", "killed"}

\* main() finds a file: the start-up script has written one.
Exists == pc # "init" => file # Missing

\* A page is asked for after that ...
Placed == page # "none" => pc \notin {"init", "script_write"}

\* ... and a file is in /tmp just while an update works on it.
Submitted == new # Missing <=> page \in {"update", "update_write"}

\* Writers that do not overlap find the file as they have truncated it.
Apart ==
    ~Overlapping =>
      /\ page # "none" => pc \notin Reading
      /\ page \in {"update", "update_write"} => pc \in {"boot", "killed"}
      /\ pc \in {"script_write", "conf_write"} \/ page = "update_write" => file = <<>>

\* No file and no list names a key twice, if none that is submitted does.
Unrepeated ==
    ~Duplicated /\ ~Overlapping =>
      /\ NoDuplicates(file) /\ NoDuplicates(items)
      /\ NoDuplicates(merged) /\ NoDuplicates(new)

\* AirSniffer's list is what it has read, or what it has just written.
Running == ~Overlapping /\ pc = "running" => items = file \/ items = Read(file)

\* device.cali is blank while it is written, else it holds the last form or, if
\* there was none, AirSniffer's own 1.
Calibrated ==
    ~Interrupted /\ ~Overlapping =>
      /\ pc = "cali_write" => cali_m = "1" /\ form = "1"
      /\ pc # "cali_write" /\ page # "calibrate" => cali = form \/ (cali = "-" /\ form = "1")

IInv ==
    /\ TypeOK /\ pc \in Places
    /\ Exists /\ Placed /\ Submitted /\ Apart
    /\ Unrepeated /\ Running /\ Calibrated

\* What a writer leaves in the file: lines, and its own where it works alone.
LEMMA WrittenOut ==
  ASSUME NEW list \in Seq(Lines), file \in Seq(Lines), WriteOut(list)
  PROVE  file' \in Seq(Lines) /\ file' # Missing /\ (file = <<>> => file' = list)
<1> DEFINE tail == SubSeq(file, Len(list) + 1, Len(file))
<1>1. tail \in Seq(Lines)
  <2>1. Len(list) + 1 \in 1..(Len(list) + 1) /\ Len(list) \in Nat /\ Len(file) \in Nat
    OBVIOUS
  <2> QED
    BY <2>1, SubSeqProperties
<1>2. file = <<>> => tail = <<>>
  <2>1. Len(list) \in Nat
    OBVIOUS
  <2> QED
    BY <2>1
<1>3. file' = list \o tail
  BY DEF WriteOut
<1> HIDE DEF tail
<1>4. file' \in Seq(Lines)
  BY <1>1, <1>3
<1>5. list \o <<>> = list
  OBVIOUS
<1> QED
  BY <1>2, <1>3, <1>4, <1>5, MissingIsNoFile

\* SeqOf() in the words of the sequences.
LEMMA SeqOfIsSeq ==
  ASSUME NEW s \in SeqOf(Lines, MaxLines)
  PROVE  s \in Seq(Lines)
<1>1. PICK n \in 0..MaxLines : s \in [1..n -> Lines]
  BY DeviceConfigAssumption DEF SeqOf
<1> QED
  BY <1>1, DeviceConfigAssumption

\* What is submitted.
LEMMA SubmissionIsFile ==
  ASSUME NEW s \in Submissions
  PROVE  s \in Seq(Lines) /\ s # Missing /\ (~Duplicated => NoDuplicates(s))
BY SeqOfIsSeq, MissingIsNoFile DEF Submissions

\* A list of nothing, and the mark of a missing file.
LEMMA Short == <<>> \in Seq(Lines) /\ NoDuplicates(<<>>) /\ NoDuplicates(Missing)
<1>1. <<>> \in Seq(Lines) /\ Len(<<>>) = 0 /\ Len(Missing) = 1
  BY DEF Missing
<1>2. NoDuplicates(<<>>)
  BY <1>1 DEF NoDuplicates
<1>3. \A m, n \in 1..Len(Missing) : m = n
  BY <1>1
<1> QED
  BY <1>1, <1>2, <1>3 DEF NoDuplicates

\* The file of the start-up script.
LEMMA ScriptFileIsFile == ScriptFile \in Seq(Lines) /\ NoDuplicates(ScriptFile)
<1> DEFINE a == InScript("dev_id")
           b == InScript("upload")
           c == InScript("telnet")
<1>1. ASSUME NEW k
      PROVE  /\ InScript(k) \in Seq(Lines) /\ Len(InScript(k)) \in 0..1
             /\ \A n \in 1..Len(InScript(k)) : InScript(k)[n].key = k
  <2>1. CASE k \in Keys
    <3>1. Line(k, "other") \in Lines /\ Line(k, "other").key = k
      BY <2>1 DEF Line, Lines, Values
    <3>2. InScript(k) = <<Line(k, "other")>>
      BY <2>1 DEF InScript
    <3> HIDE DEF InScript
    <3> QED
      BY <3>1, <3>2
  <2>2. CASE k \notin Keys
    <3>1. InScript(k) = <<>>
      BY <2>2 DEF InScript
    <3> QED
      BY <3>1
  <2> QED
    BY <2>1, <2>2
<1>2. /\ a \in Seq(Lines) /\ Len(a) \in 0..1 /\ \A n \in 1..Len(a) : a[n].key = "dev_id"
      /\ b \in Seq(Lines) /\ Len(b) \in 0..1 /\ \A n \in 1..Len(b) : b[n].key = "upload"
      /\ c \in Seq(Lines) /\ Len(c) \in 0..1 /\ \A n \in 1..Len(c) : c[n].key = "telnet"
  BY <1>1
<1>3. ScriptFile = a \o b \o c
  BY DEF ScriptFile
<1> HIDE DEF a, b, c
<1> DEFINE ab == a \o b
<1>4. /\ ab \in Seq(Lines) /\ Len(ab) = Len(a) + Len(b)
      /\ \A n \in 1..Len(ab) : ab[n].key = IF n <= Len(a) THEN "dev_id" ELSE "upload"
  <2>1. ab \in Seq(Lines) /\ Len(ab) = Len(a) + Len(b)
    BY <1>2
  <2>2. \A n \in 1..Len(ab) : ab[n] = IF n <= Len(a) THEN a[n] ELSE b[n - Len(a)]
    BY <1>2
  <2>3. \A n \in 1..Len(ab) : IF n <= Len(a) THEN n \in 1..Len(a) ELSE n - Len(a) \in 1..Len(b)
    BY <1>2, <2>1
  <2> HIDE DEF ab
  <2> QED
    BY <1>2, <2>1, <2>2, <2>3
<1>5. ScriptFile = ab \o c
  BY <1>3
<1> HIDE DEF ab
<1> DEFINE t == ab \o c
<1>6. /\ t \in Seq(Lines) /\ Len(t) = Len(a) + Len(b) + Len(c)
      /\ \A n \in 1..Len(t) : t[n].key = IF n <= Len(a) THEN "dev_id"
                                         ELSE IF n <= Len(a) + Len(b) THEN "upload" ELSE "telnet"
  <2>1. t \in Seq(Lines) /\ Len(t) = Len(ab) + Len(c)
    BY <1>2, <1>4
  <2>2. \A n \in 1..Len(t) : t[n] = IF n <= Len(ab) THEN ab[n] ELSE c[n - Len(ab)]
    BY <1>2, <1>4
  <2>3. \A n \in 1..Len(t) : IF n <= Len(ab) THEN n \in 1..Len(ab) ELSE n - Len(ab) \in 1..Len(c)
    BY <1>2, <1>4, <2>1
  <2> HIDE DEF t
  <2>4. Len(a) \in Nat /\ Len(b) \in Nat /\ Len(ab) = Len(a) + Len(b)
    BY <1>2, <1>4
  <2>5. ASSUME NEW n \in 1..Len(t)
        PROVE  t[n].key = IF n <= Len(a) THEN "dev_id"
                          ELSE IF n <= Len(a) + Len(b) THEN "upload" ELSE "telnet"
    <3>1. CASE n <= Len(ab)
      <4>1. n \in 1..Len(ab) /\ t[n] = ab[n]
        BY <2>2, <2>3, <3>1
      <4> QED
        BY <1>4, <2>4, <3>1, <4>1
    <3>2. CASE ~(n <= Len(ab))
      <4>1. n - Len(ab) \in 1..Len(c) /\ t[n] = c[n - Len(ab)]
        BY <2>2, <2>3, <3>2
      <4>2. ~(n <= Len(a) + Len(b)) /\ ~(n <= Len(a))
        BY <2>4, <3>2
      <4> QED
        BY <1>2, <4>1, <4>2
    <3> QED
      BY <3>1, <3>2
  <2> QED
    BY <2>1, <2>4, <2>5
<1> HIDE DEF t
<1>7. \A m, n \in 1..Len(t) : t[m].key = t[n].key => m = n
  BY <1>2, <1>6
<1> QED
  BY <1>5, <1>6, <1>7 DEF NoDuplicates, t

\* The invariant holds of every file a device may start with ...
LEMMA InitInvariant == Init => IInv
<1> SUFFICES ASSUME Init PROVE IInv
  OBVIOUS
<1> USE DEF Init
<1>1. TypeOK /\ pc \in Places /\ Submitted
  BY Short DEF TypeOK, Places, Submitted
<1>2. Exists /\ Placed /\ Apart /\ Unrepeated /\ Running /\ Calibrated
  BY Short DEF Exists, Placed, Apart, Unrepeated, Running, Calibrated
<1> QED
  BY <1>1, <1>2 DEF IInv

\* The start-up script.
LEMMA ScriptWrites == IInv /\ (StartScript \/ ScriptWrite \/ StartApp) => IInv'
<1> SUFFICES ASSUME IInv, StartScript \/ ScriptWrite \/ StartApp PROVE IInv'
  OBVIOUS
<1>1. CASE StartScript
  <2> USE <1>1 DEF StartScript, Truncate, request
  <2>1. TypeOK' /\ pc' \in Places
    BY ScriptFileIsFile, Short DEF IInv, TypeOK, Places
  <2>2. Unrepeated'
    BY ScriptFileIsFile, Short DEF IInv, Unrepeated
  <2>3. Exists'
    BY Short, MissingIsNoFile DEF IInv, Exists
  <2>4. page' = "none" /\ Placed' /\ Submitted' /\ Apart' /\ Running' /\ Calibrated'
    BY DEF IInv, TypeOK, Placed, Submitted, Apart, Running, Calibrated, Reading
  <2> QED
    BY <2>1, <2>2, <2>3, <2>4 DEF IInv
<1>2. CASE ScriptWrite
  <2>1. file \in Seq(Lines) /\ items \in Seq(Lines) /\ WriteOut(items)
    BY <1>2 DEF IInv, TypeOK, Exists, ScriptWrite
  <2>2. file' \in Seq(Lines) /\ file' # Missing /\ (file = <<>> => file' = items)
    BY <2>1, WrittenOut
  <2>3. /\ pc = "script_write" /\ pc' = "boot" /\ items' = <<>> /\ page = "none"
        /\ UNCHANGED <<cali, cali_m, new, update, merged, form, page>>
    BY <1>2 DEF ScriptWrite, request, IInv, Placed
  <2>4. TypeOK' /\ pc' \in Places
    BY <2>2, <2>3, Short DEF IInv, TypeOK, Places
  <2>5. Unrepeated'
    BY <2>2, <2>3, Short DEF IInv, Unrepeated, Apart
  <2>6. Exists' /\ Placed' /\ Submitted' /\ Apart' /\ Running' /\ Calibrated'
    BY <2>2, <2>3 DEF IInv, Exists, Placed, Submitted, Apart, Running, Calibrated, Reading
  <2> QED
    BY <2>4, <2>5, <2>6 DEF IInv
<1>3. CASE StartApp
  <2> USE <1>3 DEF StartApp, request
  <2>1. TypeOK' /\ pc' \in Places
    BY DEF IInv, TypeOK, Places
  <2>2. Exists' /\ Placed' /\ Submitted' /\ Unrepeated' /\ Running'
    BY DEF IInv, Exists, Placed, Submitted, Unrepeated, Running
  <2>3. Apart' /\ Calibrated'
    BY DEF IInv, Apart, Calibrated
  <2> QED
    BY <2>1, <2>2, <2>3 DEF IInv
<1> QED
  BY <1>1, <1>2, <1>3

\* The calibration, read by main() and written by the page.
LEMMA CaliKeeps == IInv /\ (ReadCali \/ CaliWrite \/ Calibrate \/ CalibrateWrite) => IInv'
<1> SUFFICES ASSUME IInv, ReadCali \/ CaliWrite \/ Calibrate \/ CalibrateWrite PROVE IInv'
  OBVIOUS
<1> USE DEF boot, request
<1>1. UNCHANGED <<file, items, new, update, merged>>
  BY DEF ReadCali, CaliWrite, Calibrate, CalibrateWrite
<1>2. TypeOK' /\ pc' \in Places
  BY <1>1 DEF IInv, TypeOK, Places, ReadCali, CaliWrite, Calibrate, CalibrateWrite
<1>3. Exists' /\ Placed' /\ Submitted'
  BY <1>1 DEF IInv, Exists, Placed, Submitted, ReadCali, CaliWrite, Calibrate, CalibrateWrite
<1>4. Apart'
  BY <1>1 DEF IInv, Apart, Reading, ReadCali, CaliWrite, Calibrate, CalibrateWrite
<1>5. Unrepeated'
  BY <1>1 DEF IInv, Unrepeated
<1>6. Running'
  BY <1>1 DEF IInv, Running, ReadCali, CaliWrite, Calibrate, CalibrateWrite
<1>7. Calibrated'
  <2> USE DEF IInv, Calibrated
  <2>1. CASE ReadCali
    <3>1. form # "-" /\ UNCHANGED <<form, page>>
      BY <2>1 DEF ReadCali, TypeOK
    <3>2. pc = "cali" /\ (~Overlapping => page # "calibrate")
      BY <2>1 DEF ReadCali, Apart, Reading
    <3> QED
      BY <2>1, <3>1, <3>2 DEF ReadCali
  <2>2. CASE CaliWrite
    BY <2>2 DEF CaliWrite
  <2>3. CASE Calibrate
    BY <2>3 DEF Calibrate, Reading
  <2>4. CASE CalibrateWrite
    BY <2>4 DEF CalibrateWrite, Apart, Reading
  <2> QED
    BY <2>1, <2>2, <2>3, <2>4
<1> QED
  BY <1>2, <1>3, <1>4, <1>5, <1>6, <1>7 DEF IInv

\* What AirSniffer makes of the file it reads.
LEMMA ReadIsFile ==
  ASSUME NEW s \in Seq(Lines)
  PROVE  /\ Read(s) \in Seq(Lines) /\ Complete(Read(s)) \in Seq(Lines)
         /\ NoDuplicates(s) => NoDuplicates(Read(s)) /\ NoDuplicates(Complete(Read(s)))
<1>1. Read(s) \in Seq(Lines) /\ (NoDuplicates(s) => NoDuplicates(Read(s)))
  BY ReadHolds DEF Holds
<1> QED
  BY <1>1, CompleteAdds

\* main() reads, completes and writes.
LEMMA ConfKeeps == IInv /\ (ReadConf \/ ConfWrite) => IInv'
<1> SUFFICES ASSUME IInv, ReadConf \/ ConfWrite PROVE IInv'
  OBVIOUS
<1>1. CASE ReadConf
  <2> DEFINE list == Read(file)
             full == Complete(list)
  <2>1. file \in Seq(Lines) /\ file # Missing
    BY <1>1 DEF ReadConf, IInv, TypeOK, Exists
  <2>2. /\ list \in Seq(Lines) /\ full \in Seq(Lines)
        /\ NoDuplicates(file) => NoDuplicates(list) /\ NoDuplicates(full)
    BY <2>1, ReadIsFile
  <2>3. /\ pc = "conf" /\ UNCHANGED <<new, update, merged, form, page, cali, cali_m>>
        /\ \/ pc' = "running" /\ items' = list /\ file' = file
           \/ pc' = "conf_write" /\ items' = full /\ file' = <<>>
    BY <1>1, <2>1 DEF ReadConf, Truncate, request
  <2>4. Running'
    BY <2>3 DEF Running
  <2> HIDE DEF list, full
  <2>5. TypeOK' /\ pc' \in Places
    BY <2>1, <2>2, <2>3, Short DEF IInv, TypeOK, Places
  <2>6. Exists'
    BY <2>1, <2>3, Short, MissingIsNoFile DEF Exists
  <2>7. Unrepeated'
    BY <2>2, <2>3, Short DEF IInv, Unrepeated
  <2>8. Placed' /\ Submitted' /\ Apart' /\ Calibrated'
    BY <2>3 DEF IInv, Placed, Submitted, Apart, Reading, Calibrated
  <2> QED
    BY <2>4, <2>5, <2>6, <2>7, <2>8 DEF IInv
<1>2. CASE ConfWrite
  <2>1. file \in Seq(Lines) /\ items \in Seq(Lines) /\ WriteOut(items)
    BY <1>2 DEF IInv, TypeOK, Exists, ConfWrite
  <2>2. file' \in Seq(Lines) /\ file' # Missing /\ (file = <<>> => file' = items)
    BY <2>1, WrittenOut
  <2>3. /\ pc = "conf_write" /\ pc' = "running"
        /\ UNCHANGED <<items, cali, cali_m, new, update, merged, form, page>>
    BY <1>2 DEF ConfWrite, request
  <2>4. TypeOK' /\ pc' \in Places
    BY <2>2, <2>3 DEF IInv, TypeOK, Places
  <2>5. Unrepeated' /\ Running'
    BY <2>2, <2>3 DEF IInv, Apart, Unrepeated, Running
  <2>6. Exists' /\ Placed' /\ Submitted' /\ Apart' /\ Calibrated'
    BY <2>2, <2>3 DEF IInv, Exists, Placed, Submitted, Apart, Reading, Calibrated
  <2> QED
    BY <2>4, <2>5, <2>6 DEF IInv
<1> QED
  BY <1>1, <1>2

\* A file is submitted.
LEMMA SubmitKeeps == IInv /\ Submit => IInv'
<1> SUFFICES ASSUME IInv, Submit PROVE IInv'
  OBVIOUS
<1>1. new' \in Seq(Lines) /\ new' # Missing /\ (~Duplicated => NoDuplicates(new'))
  BY SubmissionIsFile DEF Submit
<1>2. /\ pc \notin {"init", "script_write"} /\ page = "none" /\ page' = "update"
      /\ pc \in {"cali_write", "conf_write"} => Interrupted
      /\ update' \in BOOLEAN /\ UNCHANGED <<file, merged, cali, form, cali_m>>
      /\ pc' = (IF pc = "boot" THEN pc ELSE "killed") /\ (items' = items \/ items' = <<>>)
  BY DEF Submit
<1>3. TypeOK' /\ pc' \in Places
  BY <1>1, <1>2, Short DEF IInv, TypeOK, Places
<1>4. Exists' /\ Placed' /\ Submitted' /\ Apart'
  BY <1>1, <1>2 DEF IInv, Exists, Placed, Submitted, Apart, Reading
<1>5. Unrepeated'
  BY <1>1, <1>2, Short DEF IInv, Unrepeated
<1>6. Running' /\ Calibrated'
  BY <1>2 DEF IInv, Running, Calibrated
<1> QED
  BY <1>3, <1>4, <1>5, <1>6 DEF IInv

\* The file is merged, or takes the place of the old one.
LEMMA UpdateKeeps == IInv /\ (Merge \/ Replace \/ UpdateWrite) => IInv'
<1> SUFFICES ASSUME IInv, Merge \/ Replace \/ UpdateWrite PROVE IInv'
  OBVIOUS
<1>1. file \in Seq(Lines) /\ file # Missing
  BY DEF IInv, TypeOK, Exists, Placed, Merge, Replace, UpdateWrite
<1>2. CASE Merge
  <2> DEFINE old == IF file = Missing THEN <<>> ELSE Read(file)
  <2>1. /\ new \in Seq(Lines) /\ page = "update"
        /\ UNCHANGED <<update, cali, form, items, cali_m, pc>>
    BY <1>2 DEF Merge, boot, IInv, TypeOK, Submitted
  <2>2. old \in Seq(Lines) /\ (~Duplicated /\ ~Overlapping => NoDuplicates(old))
    BY ReadIsFile, Short DEF IInv, TypeOK, Unrepeated
  <2>3. /\ SetAll(old, new) \in Seq(Lines)
        /\ ~Duplicated /\ ~Overlapping => NoDuplicates(SetAll(old, new))
    BY <2>1, <2>2, SetAllMerges DEF Merged, IInv, Unrepeated
  <2>4. \/ page' = "none" /\ new' = Missing /\ UNCHANGED <<file, merged>>
        \/ /\ page' = "update_write" /\ merged' = SetAll(old, new)
           /\ file' = <<>> /\ new' = new
    BY <1>2 DEF Merge, Truncate
  <2> HIDE DEF old
  <2>5. TypeOK' /\ pc' \in Places
    BY <2>1, <2>3, <2>4, Short DEF IInv, TypeOK, Places
  <2>6. Exists' /\ Placed' /\ Submitted' /\ Apart'
    BY <1>1, <2>1, <2>4, Short, MissingIsNoFile
    DEF IInv, Exists, Placed, Submitted, Apart, Reading
  <2>7. Unrepeated'
    BY <2>1, <2>3, <2>4, Short DEF IInv, Unrepeated
  <2>8. Running' /\ Calibrated'
    BY <2>1, <2>4 DEF IInv, Apart, Running, Calibrated
  <2> QED
    BY <2>5, <2>6, <2>7, <2>8 DEF IInv
<1>3. CASE Replace
  <2> USE <1>3 DEF Replace, Truncate, boot
  <2>1. new \in Seq(Lines)
    BY DEF IInv, TypeOK, Submitted
  <2>2. TypeOK' /\ pc' \in Places
    BY <2>1, Short DEF IInv, TypeOK, Places
  <2>3. Exists' /\ Placed' /\ Submitted' /\ Apart'
    BY Short, MissingIsNoFile DEF IInv, Exists, Placed, Submitted, Apart, Reading
  <2>4. Unrepeated'
    BY Short DEF IInv, Unrepeated
  <2>5. Running' /\ Calibrated'
    BY DEF IInv, Apart, Running, Calibrated
  <2> QED
    BY <2>2, <2>3, <2>4, <2>5 DEF IInv
<1>4. CASE UpdateWrite
  <2>1. merged \in Seq(Lines) /\ WriteOut(merged)
    BY <1>4 DEF IInv, TypeOK, UpdateWrite
  <2>2. file' \in Seq(Lines) /\ file' # Missing /\ (file = <<>> => file' = merged)
    BY <1>1, <2>1, WrittenOut
  <2>3. /\ page = "update_write" /\ page' = "none" /\ new' = Missing /\ merged' = <<>>
        /\ UNCHANGED <<update, cali, form, items, cali_m, pc>>
    BY <1>4 DEF UpdateWrite, boot
  <2>4. TypeOK' /\ pc' \in Places
    BY <2>2, <2>3, Short DEF IInv, TypeOK, Places
  <2>5. Exists' /\ Placed' /\ Submitted' /\ Apart'
    BY <2>2, <2>3 DEF IInv, Exists, Placed, Submitted, Apart
  <2>6. Unrepeated'
    BY <2>2, <2>3, Short DEF IInv, Apart, Unrepeated
  <2>7. Running' /\ Calibrated'
    BY <2>3 DEF IInv, Apart, Running, Calibrated
  <2> QED
    BY <2>4, <2>5, <2>6, <2>7 DEF IInv
<1> QED
  BY <1>2, <1>3, <1>4

\* The reboot.
LEMMA RebootKeeps == IInv /\ Reboot => IInv'
<1> SUFFICES ASSUME IInv, Reboot PROVE IInv'
  OBVIOUS
<1> USE DEF Reboot
<1>1. TypeOK' /\ pc' \in Places
  BY Short DEF IInv, TypeOK, Places
<1>2. Exists' /\ Placed' /\ Submitted' /\ Apart' /\ Running'
  BY DEF Exists, Placed, Submitted, Apart, Running
<1>3. Unrepeated'
  BY Short DEF IInv, Unrepeated
<1>4. Calibrated'
  BY DEF IInv, Calibrated
<1> QED
  BY <1>1, <1>2, <1>3, <1>4 DEF IInv

\* ... and every step keeps it.
LEMMA NextKeeps == IInv /\ [Next]_vars => IInv'
<1> SUFFICES ASSUME IInv, [Next]_vars PROVE IInv'
  OBVIOUS
<1>1. CASE UNCHANGED vars
  <2>1. UNCHANGED <<file, items, new, update, merged, cali, form, cali_m, pc, page>>
    BY <1>1 DEF vars, boot, request
  <2>2. TypeOK' /\ pc' \in Places /\ Exists' /\ Placed' /\ Submitted'
    BY <2>1 DEF IInv, TypeOK, Exists, Placed, Submitted
  <2>3. Apart' /\ Running' /\ Calibrated'
    BY <2>1 DEF IInv, Apart, Running, Calibrated
  <2>4. Unrepeated'
    BY <2>1 DEF IInv, Unrepeated
  <2> QED
    BY <2>2, <2>3, <2>4 DEF IInv
<1> QED
  BY <1>1, ScriptWrites, CaliKeeps, ConfKeeps, SubmitKeeps, UpdateKeeps, RebootKeeps DEF Next

\* The invariant holds in every state.
THEOREM Invariant == Spec => []IInv
BY InitInvariant, NextKeeps, PTL DEF Spec

(* The files, the list in memory and what was submitted are well formed, with     *)
(* writes interrupted anywhere, pages beside a boot and keys named twice          *)
(* (ssconfig.c:28-146, main.c:883-934).                                         *)
THEOREM TypeCorrect == Spec => []TypeOK
<1>1. IInv => TypeOK
  BY DEF IInv
<1> QED
  BY Invariant, <1>1, PTL

(* AirSniffer runs with the configuration the file holds, whatever stopped it     *)
(* before, if no file that was submitted names a key twice and no page works      *)
(* while it starts (main.c:883-934).                                            *)
THEOREM RunsWithFile ==
  ASSUME Duplicated = FALSE, Overlapping = FALSE
  PROVE  Spec => []RunsAsStored
<1>1. ASSUME IInv PROVE RunsAsStored
  <2> SUFFICES ASSUME pc = "running", NEW k \in Keys
               PROVE  Get(items, k) = InFile(k)
    BY DEF RunsAsStored
  <2>1. file \in Seq(Lines) /\ file # Missing /\ NoDuplicates(file)
    BY <1>1 DEF IInv, TypeOK, Exists, Unrepeated
  <2>2. CASE items = file
    BY <2>1, <2>2, GetRead DEF InFile
  <2>3. CASE items = Read(file)
    BY <2>1, <2>3 DEF InFile
  <2> QED
    BY <1>1, <2>2, <2>3 DEF IInv, Running
<1> QED
  BY Invariant, <1>1, PTL

(* AirSniffer measures with the multiplier of the last form, blank if the form    *)
(* was, and with 1 before the first, if nothing comes between truncating            *)
(* device.cali and writing it (main.c:887-899, do_calibration:5-10).             *)
THEOREM MeasuresCalibrated ==
  ASSUME Interrupted = FALSE, Overlapping = FALSE
  PROVE  Spec => RunsCalibrated
<1>1. IInv /\ [Next]_vars => (pc' = "conf" /\ pc # pc' => cali_m' = form)
  <2> SUFFICES ASSUME IInv, [Next]_vars, pc' = "conf", pc # pc'
               PROVE  cali_m' = form
    OBVIOUS
  <2>1. ReadCali \/ CaliWrite
    BY DEF Next, vars, boot, request, StartScript, ScriptWrite, StartApp, ReadConf, ConfWrite,
           Submit, Merge, Replace, UpdateWrite, Calibrate, CalibrateWrite, Reboot
  <2> QED
    BY <2>1 DEF ReadCali, CaliWrite, IInv, Apart, Calibrated, Reading
<1> QED
  BY Invariant, <1>1, PTL DEF Spec, RunsCalibrated

-----------------------------------------------------------------------------
(* The store.  Its two variables are read off the state; each action moves them *)
(* as a request, its application or a boot does, or leaves them.                *)

Held == [k \in Keys |-> Stored(k)]

NoRequest == [names |-> {}, value |-> [k \in Keys |-> ""], keep |-> TRUE]

Names(s) == {s[n].key : n \in 1..Len(s)} \ {"#"}

RequestOf(s, keep) ==
    [names |-> Names(s), value |-> [k \in Keys |-> Get(Read(s), k)], keep |-> keep]

Request == IF new = Missing \/ page = "update_write" THEN NoRequest ELSE RequestOf(new, update)

\* device.conf or the list about to become it.
Source ==
    IF pc \in {"script_write", "conf_write"} THEN items
    ELSE IF page = "update_write" THEN merged ELSE file

\* The value of a key is the one read off that file, "" if there is none.
Now(k) == IF Source = Missing THEN "" ELSE Get(Source, k)

Found == \A k \in Keys : Stored(k) = Now(k) /\ Now(k) \in Values \cup {""}

\* The value under a key is there once where no key is written twice.
LEMMA StoredNow == ASSUME Duplicated = FALSE, Overlapping = FALSE PROVE IInv => Found
<1> SUFFICES ASSUME IInv, NEW k \in Keys
             PROVE  Stored(k) = Now(k) /\ Now(k) \in Values \cup {""}
  BY DEF Found
<1>1. Source = Missing \/ (Source \in Seq(Lines) /\ NoDuplicates(Source))
  BY DEF IInv, TypeOK, Unrepeated, Source
<1>2. pc \in {"script_write", "conf_write"} \/ page = "update_write" => Source # Missing
  BY MissingIsNoFile DEF IInv, TypeOK, Source
<1>3. Source \in Seq(Lines) /\ NoDuplicates(Source) =>
        Get(Read(Source), k) = Get(Source, k) /\ Get(Source, k) \in Values \cup {""}
  BY GetRead, GetValue
<1>4. Stored(k) = IF Source = Missing THEN "" ELSE Get(Read(Source), k)
  BY <1>2 DEF Stored, InFile, Source
<1> QED
  BY <1>1, <1>3, <1>4, MissingIsNoFile DEF Now

\* What is held is known by the file it is read off.
LEMMA SameSource ==
  ASSUME Duplicated = FALSE, Overlapping = FALSE
  PROVE  IInv /\ IInv' /\ Source' = Source => Held' = Held
<1>1. IInv => Found
  BY StoredNow
<1>2. IInv' => Found'
  BY <1>1, PTL
<1>3. ASSUME IInv, IInv', Source' = Source, NEW k \in Keys
      PROVE  Stored(k)' = Stored(k)
  BY <1>1, <1>2, <1>3 DEF Found, Now
<1> QED
  BY <1>3 DEF Held

\* A step that gives values to keys that have none.
Boots ==
    /\ Request' = NoRequest
    /\ Held' \in [Keys -> Values \cup {""}]
    /\ \A k \in Keys : Held[k] # "" => Held'[k] = Held[k]

\* A step that stores what is requested.
Applies ==
    /\ Held' = [k \in Keys |->
                  IF k \in Request.names THEN Request.value[k]
                  ELSE IF Request.keep THEN Held[k]
                  ELSE ""]
    /\ Request' = NoRequest

\* A step that brings a request.
Submits ==
    /\ Request = NoRequest
    /\ Request' \in [names : SUBSET Keys, value : [Keys -> Values \cup {""}], keep : BOOLEAN]
    /\ Held' = Held

Stutters == Held' = Held /\ Request' = Request

\* A source to which values were added is a boot.
LEMMA SourceBoots ==
  ASSUME Duplicated = FALSE, Overlapping = FALSE
  PROVE  (/\ IInv /\ IInv' /\ Request' = NoRequest
          /\ \A k \in Keys : Now(k) # "" => Now(k)' = Now(k))
         => Boots
<1>1. IInv => Found
  BY StoredNow
<1>2. IInv' => Found'
  BY <1>1, PTL
<1> SUFFICES ASSUME IInv, IInv', Request' = NoRequest,
                    \A k \in Keys : Now(k) # "" => Now(k)' = Now(k)
             PROVE  Boots
  OBVIOUS
<1>3. \A k \in Keys : Held[k] = Now(k) /\ Held'[k] = Now(k)'
  BY <1>1, <1>2 DEF Found, Held
<1>4. Held' \in [Keys -> Values \cup {""}]
  BY <1>2 DEF Found, Held
<1> QED
  BY <1>3, <1>4 DEF Boots

\* Nothing of the configuration moves while the calibration is looked at.
LEMMA CaliStutters ==
  ASSUME Duplicated = FALSE, Overlapping = FALSE
  PROVE  /\ IInv /\ IInv'
         /\ StartApp \/ ReadCali \/ CaliWrite \/ Calibrate \/ CalibrateWrite \/ UNCHANGED vars
         => Stutters
<1> SUFFICES ASSUME IInv, IInv',
                    \/ StartApp \/ ReadCali \/ CaliWrite
                    \/ Calibrate \/ CalibrateWrite \/ UNCHANGED vars
             PROVE  Stutters
  OBVIOUS
<1> USE DEF StartApp, ReadCali, CaliWrite, Calibrate, CalibrateWrite, vars, boot, request
<1>1. Source' = Source
  BY DEF Source
<1>2. Request' = Request
  BY DEF Request
<1> QED
  BY <1>1, <1>2, SameSource DEF Stutters

\* dump_config() is done with a file that was already decided.
LEMMA WriteStutters ==
  ASSUME Duplicated = FALSE, Overlapping = FALSE
  PROVE  IInv /\ IInv' /\ (ScriptWrite \/ ConfWrite \/ UpdateWrite) => Stutters
<1> SUFFICES ASSUME IInv, IInv', ScriptWrite \/ ConfWrite \/ UpdateWrite
             PROVE  Stutters
  OBVIOUS
<1>1. file = <<>> /\ file \in Seq(Lines) /\ items \in Seq(Lines) /\ merged \in Seq(Lines)
  BY Short DEF ScriptWrite, ConfWrite, UpdateWrite, IInv, TypeOK, Apart
<1>2. /\ WriteOut(items) => file' = items
      /\ WriteOut(merged) => file' = merged
  BY <1>1, WrittenOut
<1>3. Source' = Source
  BY <1>2 DEF ScriptWrite, ConfWrite, UpdateWrite, Source, request, boot,
              IInv, Placed, Apart, Reading
<1>4. Request' = Request
  BY DEF ScriptWrite, ConfWrite, UpdateWrite, Request, request, boot
<1> QED
  BY <1>3, <1>4, SameSource DEF Stutters

\* The start-up script and main() complete what is stored.
LEMMA BootBoots ==
  ASSUME Duplicated = FALSE, Overlapping = FALSE
  PROVE  IInv /\ IInv' /\ (StartScript \/ ReadConf) => Boots
<1> SUFFICES ASSUME IInv, IInv', StartScript \/ ReadConf
             PROVE  Boots
  OBVIOUS
<1>1. Request' = NoRequest
  BY DEF StartScript, ReadConf, Request, request, IInv, Placed, Apart, Reading, Submitted
<1>2. CASE StartScript
  <2>0. page = "none" /\ page' = "none"
    BY <1>2 DEF StartScript, request, IInv, Placed
  <2>1. CASE file = Missing
    BY <1>1, <1>2, <2>0, <2>1, SourceBoots DEF StartScript, Now, Source
  <2>2. CASE file # Missing
    <3>1. Source' = Source
      BY <1>2, <2>0, <2>2 DEF StartScript, Source
    <3> QED
      BY <1>1, <3>1, SourceBoots DEF Now
  <2> QED
    BY <2>1, <2>2
<1>3. CASE ReadConf
  <2> DEFINE list == Read(file)
             full == Complete(list)
  <2>1. file \in Seq(Lines) /\ NoDuplicates(file) /\ file # Missing
    BY <1>3 DEF ReadConf, IInv, TypeOK, Exists, Unrepeated
  <2>2. /\ pc = "conf" /\ page = "none" /\ page' = "none"
        /\ \/ pc' = "running" /\ file' = file
           \/ pc' = "conf_write" /\ items' = full
    BY <1>3, <2>1 DEF ReadConf, request, IInv, Apart, Reading
  <2>3. list \in Seq(Lines) /\ NoDuplicates(list) /\ full \in Seq(Lines) /\ full # Missing
    BY <2>1, ReadIsFile, MissingIsNoFile
  <2>4. \A k \in Keys : Get(list, k) = Get(file, k)
    BY <2>1, GetRead
  <2> HIDE DEF list
  <2>5. \A k \in Keys : Get(list, k) # "" => Get(full, k) = Get(list, k)
    BY <2>3, CompleteAdds
  <2> HIDE DEF full
  <2>6. Source = file /\ (Source' = file \/ Source' = full)
    BY <2>2 DEF Source
  <2>7. \A k \in Keys : Now(k) # "" => Now(k)' = Now(k)
    BY <2>1, <2>3, <2>4, <2>5, <2>6 DEF Now
  <2> QED
    BY <1>1, <2>7, SourceBoots
<1> QED
  BY <1>2, <1>3

\* A reboot, or a power cut, finds the file as it is.
LEMMA RebootBoots ==
  ASSUME Duplicated = FALSE, Interrupted = FALSE, Overlapping = FALSE
  PROVE  IInv /\ IInv' /\ Reboot => Boots
<1> SUFFICES ASSUME IInv, IInv', Reboot PROVE Boots
  OBVIOUS
<1>1. Request' = NoRequest
  BY DEF Reboot, Request
<1>2. Source' = Source
  BY DEF Reboot, Source
<1> QED
  BY <1>1, <1>2, SourceBoots DEF Now

\* A submitted file is a request for the keys it names.
LEMMA SubmitSubmits ==
  ASSUME Duplicated = FALSE, Interrupted = FALSE, Overlapping = FALSE
  PROVE  IInv /\ IInv' /\ Submit => Submits
<1> SUFFICES ASSUME IInv, IInv', Submit PROVE Submits
  OBVIOUS
<1>1. Source' = Source
  BY DEF Submit, Source
<1>2. Request = NoRequest
  BY DEF Submit, Request, IInv, Submitted
<1>3. new' \in Seq(Lines) /\ new' # Missing /\ NoDuplicates(new') /\ update' \in BOOLEAN
  BY SubmissionIsFile DEF Submit
<1>4. Request' = RequestOf(new', update')
  BY <1>3 DEF Submit, Request, RequestOf, Names, NoRequest
<1>5. ASSUME NEW s \in Seq(Lines), NEW keep \in BOOLEAN
      PROVE  RequestOf(s, keep) \in
               [names : SUBSET Keys, value : [Keys -> Values \cup {""}], keep : BOOLEAN]
  <2>1. Names(s) \in SUBSET Keys
    <3> SUFFICES ASSUME NEW n \in 1..Len(s), s[n].key # "#" PROVE s[n].key \in Keys
      BY DEF Names
    <3>1. s[n] \in Lines
      BY ElementOfSeq
    <3> QED
      BY <3>1, KeysAreKeys
  <2>2. \A k \in Keys : Get(Read(s), k) \in Values \cup {""}
    BY ReadIsFile, GetValue
  <2> QED
    BY <2>1, <2>2 DEF RequestOf
<1>6. Request' \in [names : SUBSET Keys, value : [Keys -> Values \cup {""}], keep : BOOLEAN]
  BY <1>3, <1>4, <1>5
<1> QED
  BY <1>1, <1>2, <1>6, SameSource DEF Submits

\* cfg_updater stores the keys of the new file and keeps the others; cat keeps none.
LEMMA UpdateApplies ==
  ASSUME Duplicated = FALSE, Overlapping = FALSE
  PROVE  IInv /\ IInv' /\ (Merge \/ Replace) => Applies
<1>1. IInv => Found
  BY StoredNow
<1>2. IInv' => Found'
  BY <1>1, PTL
<1> SUFFICES ASSUME IInv, IInv', Merge \/ Replace PROVE Applies
  OBVIOUS
<1>3. \A k \in Keys : Held[k] = Now(k) /\ Stored(k)' = Now(k)'
  BY <1>1, <1>2 DEF Found, Held
<1>4. /\ new \in Seq(Lines) /\ new # Missing /\ NoDuplicates(new) /\ page = "update"
      /\ pc' = pc /\ pc \notin {"script_write", "conf_write"}
  BY DEF Merge, Replace, boot, IInv, TypeOK, Submitted, Unrepeated, Apart
<1>5. Request = RequestOf(new, update)
  BY <1>4 DEF Request
<1>6. Request' = NoRequest
  BY DEF Merge, Replace, Truncate, Request
<1>7. \A k \in Keys : Get(Read(new), k) = Get(new, k)
  BY <1>4, GetRead
<1>8. \A k \in Keys : k \in Names(new) <=> \E n \in 1..Len(new) : new[n].key = k
  BY KeysAreKeys DEF Names
<1>9. \A k \in Keys : k \notin Names(new) => Get(new, k) = ""
  BY <1>8, GetNone
<1>10. ASSUME NEW k \in Keys
       PROVE  Now(k)' = IF k \in Names(new) THEN Get(new, k)
                        ELSE IF update THEN Now(k) ELSE ""
  <2>1. CASE Replace
    <3>1. Source' = new /\ ~update
      BY <2>1, <1>4 DEF Replace, Source
    <3> QED
      BY <1>4, <1>9, <3>1 DEF Now
  <2>2. CASE Merge /\ Read(new) = <<>>
    <3>1. Source' = Source /\ update
      BY <2>2, <1>4 DEF Merge, Source
    <3>2. k \notin Names(new)
      <4> SUFFICES ASSUME NEW n \in 1..Len(new), new[n].key = k PROVE FALSE
        BY <1>8
      <4>1. new[n] # Comment
        BY KeysAreKeys
      <4>2. Holds(Read(new), new, Len(new))
        BY <1>4, ReadHolds
      <4>3. PICK m \in 1..Len(Read(new)) : TRUE
        BY <4>1, <4>2 DEF Holds
      <4> QED
        BY <2>2, <4>3
    <3> QED
      BY <3>1, <3>2 DEF Now
  <2>3. CASE Merge /\ Read(new) # <<>>
    <3> DEFINE old == IF file = Missing THEN <<>> ELSE Read(file)
               all == SetAll(old, new)
    <3>1. Source' = all /\ Source = file /\ update
      BY <2>3, <1>4 DEF Merge, Source
    <3>2. old \in Seq(Lines) /\ NoDuplicates(old)
      BY ReadIsFile, Short DEF IInv, TypeOK, Unrepeated
    <3>3. Now(k) = Get(old, k)
      <4>1. CASE file = Missing
        <5>1. Get(<<>>, k) = ""
          <6>1. Len(<<>>) = 0
            OBVIOUS
          <6> QED
            BY <6>1 DEF Get, At
        <5> QED
          BY <3>1, <4>1, <5>1 DEF Now
      <4>2. CASE file # Missing
        <5>1. file \in Seq(Lines) /\ NoDuplicates(file)
          BY <4>2 DEF IInv, TypeOK, Unrepeated
        <5>2. Get(Read(file), k) = Get(file, k)
          BY <5>1, GetRead
        <5> QED
          BY <3>1, <4>2, <5>2 DEF Now
      <4> QED
        BY <4>1, <4>2
    <3> HIDE DEF old
    <3>4. Merged(all, old, new, Len(new))
      BY <1>4, <3>2, SetAllMerges
    <3> HIDE DEF all
    <3>5. all \in Seq(Lines) /\ all # Missing
      BY <3>4, MissingIsNoFile DEF Merged
    <3>6. Get(all, k) = IF k \in Names(new) THEN Get(new, k) ELSE Get(old, k)
      BY <1>4, <1>8, <3>2, <3>4 DEF Merged
    <3> QED
      BY <3>1, <3>3, <3>5, <3>6 DEF Now
  <2> QED
    BY <2>1, <2>2, <2>3
<1>11. Held' = [k \in Keys |->
                  IF k \in Request.names THEN Request.value[k]
                  ELSE IF Request.keep THEN Held[k]
                  ELSE ""]
  <2>1. /\ Request.names = Names(new) /\ Request.keep = update
        /\ \A k \in Keys : Request.value[k] = Get(new, k)
    BY <1>5, <1>7 DEF RequestOf
  <2>2. \A k \in Keys : Stored(k)' = IF k \in Request.names THEN Request.value[k]
                                     ELSE IF Request.keep THEN Held[k] ELSE ""
    BY <1>3, <1>10, <2>1
  <2> QED
    BY <2>2 DEF Held
<1> QED
  BY <1>6, <1>11 DEF Applies

\* Every step is one of the store, or none.
LEMMA StepStores ==
  ASSUME Duplicated = FALSE, Interrupted = FALSE, Overlapping = FALSE
  PROVE  IInv /\ IInv' /\ [Next]_vars => Boots \/ Applies \/ Submits \/ Stutters
<1> SUFFICES ASSUME IInv, IInv', [Next]_vars
             PROVE  Boots \/ Applies \/ Submits \/ Stutters
  OBVIOUS
<1>1. CASE StartApp \/ ReadCali \/ CaliWrite \/ Calibrate \/ CalibrateWrite \/ UNCHANGED vars
  BY <1>1, CaliStutters
<1>2. CASE ScriptWrite \/ ConfWrite \/ UpdateWrite
  BY <1>2, WriteStutters
<1>3. CASE StartScript \/ ReadConf
  BY <1>3, BootBoots
<1>4. CASE Reboot
  BY <1>4, RebootBoots
<1>5. CASE Submit
  BY <1>5, SubmitSubmits
<1>6. CASE Merge \/ Replace
  BY <1>6, UpdateApplies
<1> QED
  BY <1>1, <1>2, <1>3, <1>4, <1>5, <1>6 DEF Next

(* An update changes the keys its file names and no other, a file that replaces *)
(* the configuration is installed as it is, and a boot only completes what it    *)
(* finds: for every set of keys and files of every length, if none names a key   *)
(* twice, nothing comes between truncating a file and writing it, and no page    *)
(* works while AirSniffer starts.                                               *)
THEOREM RefinesConfigStore ==
  ASSUME Duplicated = FALSE, Interrupted = FALSE, Overlapping = FALSE
  PROVE  Spec => ImplementsConfigStore
<1>1. Init => Store!Init
  <2> SUFFICES ASSUME Init PROVE Store!Init
    OBVIOUS
  <2>1. \A k \in Keys : Stored(k) = ""
    BY DEF Init, Stored, InFile
  <2> QED
    BY <2>1 DEF Init, Store!Init, Store!NoRequest, Store!None
<1>2. IInv /\ IInv' /\ [Next]_vars => [Store!Next]_Store!vars
  <2> SUFFICES ASSUME IInv, IInv', [Next]_vars
               PROVE  [Store!Next]_Store!vars
    OBVIOUS
  <2> USE DEF Held, Request, RequestOf, Names, NoRequest, Store!NoRequest, Store!None
  <2>1. CASE Boots
    BY <2>1 DEF Boots, Store!Next, Store!Boot
  <2>2. CASE Applies
    BY <2>2 DEF Applies, Store!Next, Store!Apply
  <2>3. CASE Submits
    BY <2>3 DEF Submits, Store!Next, Store!Submit, Store!Requests
  <2>4. CASE Stutters
    BY <2>4 DEF Stutters, Store!vars
  <2> QED
    BY <2>1, <2>2, <2>3, <2>4, StepStores
<1> QED
  BY Invariant, <1>1, <1>2, PTL DEF Spec, ImplementsConfigStore, Store!Spec

(* A boot changes no value that is there, under the same conditions: what main() *)
(* says of "old version config file" is broken only by what comes in between.    *)
THEOREM KeepsConfig ==
  ASSUME Duplicated = FALSE, Interrupted = FALSE, Overlapping = FALSE
  PROVE  Spec => BootKeepsConfig
<1>1. IInv /\ IInv' /\ [Next]_vars =>
        \A k \in Keys :
          pc \in Reading /\ pc' # pc /\ Stored(k) # "" => Stored(k)' = Stored(k)
  <2> SUFFICES ASSUME IInv, IInv', [Next]_vars, NEW k \in Keys,
                      pc \in Reading, pc' # pc, Stored(k) # ""
               PROVE  Stored(k)' = Stored(k)
    OBVIOUS
  <2>1. Held[k] = Stored(k) /\ Held'[k] = Stored(k)'
    BY DEF Held
  <2>2. Boots \/ Submits \/ Stutters
    <3>1. CASE Merge \/ Replace \/ UpdateWrite \/ StartScript \/ ScriptWrite \/ StartApp
      BY <3>1 DEF Merge, Replace, UpdateWrite, boot, StartScript, ScriptWrite, StartApp, Reading
    <3>2. CASE \/ ReadCali \/ CaliWrite \/ Calibrate \/ CalibrateWrite \/ UNCHANGED vars
      BY <3>2, CaliStutters
    <3>3. CASE ConfWrite
      BY <3>3, WriteStutters
    <3>4. CASE ReadConf
      BY <3>4, BootBoots
    <3>5. CASE Reboot
      BY <3>5, RebootBoots
    <3>6. CASE Submit
      BY <3>6, SubmitSubmits
    <3> QED
      BY <3>1, <3>2, <3>3, <3>4, <3>5, <3>6 DEF Next
  <2> QED
    BY <2>1, <2>2 DEF Boots, Submits, Stutters
<1>2. IInv /\ IInv' /\ [Next]_vars =>
        [\A k \in Keys :
           /\ pc \in Reading /\ pc' # pc /\ Stored(k) # ""
           /\ pc' = "init" => page # "update_write"
           => Stored(k)' = Stored(k)]_vars
  BY <1>1
<1> QED
  BY Invariant, <1>2, PTL DEF Spec, BootKeepsConfig

=============================================================================
