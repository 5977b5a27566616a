---------------------------- MODULE ClientProofs ----------------------------
(***************************************************************************)
(* The two programs on the user's machine.                                 *)
(*                                                                         *)
(* The playground: for every number of requests, chunks, loads and         *)
(* operations, the text of a reply is its own or that of a request left    *)
(* open, a message that is being generated is the last one, and what the   *)
(* user said is stored. The argument sorts the steps by what they do to    *)
(* the conversation (Answer, Rewrite, Quiet, Sends; an edit, the edit      *)
(* dialog and a load are on their own) and shows that each kind keeps      *)
(* ChatInv.                                                                *)
(*                                                                         *)
(* The desktop shell: it leaves no server behind and sends fewer than      *)
(* twice maxRetries probes, for every maxRetries and any number of windows.*)
(***************************************************************************)
EXTENDS PlaygroundChat, DesktopShell, SumLemmas, SequenceTheorems, TLAPS

-----------------------------------------------------------------------------
(* The playground: what a list of messages keeps.                          *)

\* What Keep has collected after the first n messages of a list.
Kept1(h, list, at, n) == IF n \in at THEN Append(h[n - 1], list[n]) ELSE h[n - 1]
KeepFun(list, at) == CHOOSE F : F = [n \in 0..Len(list) |-> IF n = 0 THEN <<>> ELSE Kept1(F, list, at, n)]

\* Keep is the last value of its recursive function.
LEMMA KeepIsLast == ASSUME NEW list, NEW at PROVE Keep(list, at) = KeepFun(list, at)[Len(list)]
  BY DEF Keep, KeepFun, Kept1

\* The function that Keep is defined by exists.
LEMMA KeepFunExists ==
    ASSUME NEW S, NEW list \in Seq(S), NEW at
    PROVE  /\ KeepFun(list, at)[0] = <<>>
           /\ \A n \in 1..Len(list) : KeepFun(list, at)[n] = Kept1(KeepFun(list, at), list, at, n)
<1> DEFINE Is(F, m) == F = [n \in 0..m |-> IF n = 0 THEN <<>> ELSE Kept1(F, list, at, n)]
           G == {m \in Nat : \E F : Is(F, m)}
<1>0. Len(list) \in Nat
  BY LenProperties
<1>1. 0 \in G
  <2>1. Is([n \in 0..0 |-> <<>>], 0)
    OBVIOUS
  <2> QED
    BY <2>1
<1>2. ASSUME NEW m \in Nat, m \in G PROVE m + 1 \in G
  <2>1. PICK F : Is(F, m)
    BY <1>2
  <2> DEFINE H == [n \in 0..m + 1 |-> IF n <= m THEN F[n] ELSE Kept1(F, list, at, n)]
  <2>2. \A n \in 0..m : F[n] = IF n = 0 THEN <<>> ELSE Kept1(F, list, at, n)
    BY <2>1
  <2>3. \A n \in 0..m : H[n] = F[n]
    OBVIOUS
  <2>4. \A n \in 1..m + 1 : Kept1(H, list, at, n) = Kept1(F, list, at, n)
    <3> HIDE DEF H
    <3> QED
      BY <2>3 DEF Kept1
  <2>5. \A n \in 0..m + 1 : H[n] = IF n = 0 THEN <<>> ELSE Kept1(H, list, at, n)
    <3> SUFFICES ASSUME NEW n \in 0..m + 1 PROVE H[n] = IF n = 0 THEN <<>> ELSE Kept1(H, list, at, n)
      OBVIOUS
    <3>1. CASE n <= m
      <4> HIDE DEF H
      <4> QED
        BY <3>1, <2>2, <2>3, <2>4
    <3>2. CASE n = m + 1
      <4>1. H[n] = Kept1(F, list, at, n)
        BY <3>2
      <4> HIDE DEF H
      <4> QED
        BY <3>2, <4>1, <2>4
    <3> QED
      BY <3>1, <3>2
  <2>6. Is(H, m + 1)
    <3>1. DOMAIN H = 0..m + 1 /\ H = [n \in 0..m + 1 |-> H[n]]
      OBVIOUS
    <3> HIDE DEF H
    <3> QED
      BY <3>1, <2>5
  <2> HIDE DEF H
  <2> QED
    BY <2>6
<1>3. \A m \in Nat : m \in G
  <2> HIDE DEF G
  <2> QED
    BY <1>1, <1>2, NatSetInduction
<1>4. PICK F : Is(F, Len(list))
  BY <1>0, <1>3
<1>5. Is(KeepFun(list, at), Len(list))
  BY <1>4 DEF KeepFun
<1> HIDE DEF G
<1> QED
  BY <1>0, <1>5

\* What Keep collects are messages of the list, in their order: the last message of the list
\* can only be the last one kept.
LEMMA KeepOrigin ==
    ASSUME NEW S, NEW list \in Seq(S), NEW at
    PROVE  /\ Keep(list, at) \in Seq(S)
           /\ \A j \in 1..Len(Keep(list, at)) : \E i \in 1..Len(list) :
                /\ Keep(list, at)[j] = list[i]
                /\ i = Len(list) => j = Len(Keep(list, at))
<1> DEFINE h == KeepFun(list, at)
           Good(n) == /\ h[n] \in Seq(S)
                      /\ \A j \in 1..Len(h[n]) : \E i \in 1..n : /\ h[n][j] = list[i]
                                                                 /\ i = n => j = Len(h[n])
           G == {n \in Nat : n <= Len(list) => Good(n)}
<1>0. Len(list) \in Nat
  BY LenProperties
<1>1. 0 \in G
  <2>1. h[0] = <<>>
    BY KeepFunExists
  <2> HIDE DEF h
  <2>2. Good(0)
    BY <2>1
  <2> QED
    BY <2>2
<1>2. ASSUME NEW n \in Nat, n \in G PROVE n + 1 \in G
  <2> SUFFICES ASSUME n + 1 <= Len(list) PROVE Good(n + 1)
    OBVIOUS
  <2>1. h[n + 1] = IF n + 1 \in at THEN Append(h[n], list[n + 1]) ELSE h[n]
    <3>1. n + 1 \in 1..Len(list) /\ (n + 1) - 1 = n
      BY <1>0
    <3>2. h[n + 1] = Kept1(h, list, at, n + 1)
      BY <3>1, KeepFunExists
    <3> HIDE DEF h
    <3> QED
      BY <3>1, <3>2 DEF Kept1
  <2> HIDE DEF h
  <2>2. Good(n) /\ list[n + 1] \in S
    BY <1>0, <1>2, ElementOfSeq
  <2>3. CASE n + 1 \in at
    <3>1. h[n + 1] = Append(h[n], list[n + 1])
      BY <2>1, <2>3
    <3>2. /\ h[n + 1] \in Seq(S) /\ Len(h[n + 1]) = Len(h[n]) + 1 /\ Len(h[n]) \in Nat
          /\ \A j \in 1..Len(h[n]) : h[n + 1][j] = h[n][j]
          /\ h[n + 1][Len(h[n]) + 1] = list[n + 1]
      BY <2>2, <3>1, AppendProperties, LenProperties
    <3>3. \A j \in 1..Len(h[n + 1]) : \E i \in 1..n + 1 :
             h[n + 1][j] = list[i] /\ (i = n + 1 => j = Len(h[n + 1]))
      <4> SUFFICES ASSUME NEW j \in 1..Len(h[n + 1])
                   PROVE  \E i \in 1..n + 1 : h[n + 1][j] = list[i] /\ (i = n + 1 => j = Len(h[n + 1]))
        OBVIOUS
      <4>1. CASE j = Len(h[n + 1])
        BY <4>1, <3>2
      <4>2. CASE j \in 1..Len(h[n])
        <5>1. PICK i \in 1..n : h[n][j] = list[i]
          BY <2>2, <4>2
        <5> QED
          BY <5>1, <4>2, <3>2
      <4> QED
        BY <3>2, <4>1, <4>2
    <3> QED
      BY <3>2, <3>3
  <2>4. CASE n + 1 \notin at
    <3>1. h[n + 1] = h[n]
      BY <2>1, <2>4
    <3>2. \A j \in 1..Len(h[n + 1]) : \E i \in 1..n + 1 :
             h[n + 1][j] = list[i] /\ (i = n + 1 => j = Len(h[n + 1]))
      <4> SUFFICES ASSUME NEW j \in 1..Len(h[n])
                   PROVE  \E i \in 1..n + 1 : h[n][j] = list[i] /\ (i = n + 1 => j = Len(h[n]))
        BY <3>1
      <4>1. PICK i \in 1..n : h[n][j] = list[i]
        BY <2>2
      <4> QED
        BY <4>1
    <3> QED
      BY <2>2, <3>1, <3>2
  <2> QED
    BY <2>3, <2>4
<1>3. \A n \in Nat : n \in G
  <2> HIDE DEF G
  <2> QED
    BY <1>1, <1>2, NatSetInduction
<1>4. Good(Len(list))
  BY <1>0, <1>3
<1> HIDE DEF G
<1> QED
  BY <1>4, KeepIsLast

\* Of two lists with the same uids the same positions keep the same uids.
LEMMA KeepUids ==
    ASSUME NEW list1 \in Seq(Messages), NEW list2 \in Seq(Messages), NEW at, NEW N \in Nat,
           N = Len(list1), N = Len(list2), \A i \in 1..N : list1[i].uid = list2[i].uid
    PROVE  Uids(Keep(list1, at)) = Uids(Keep(list2, at))
<1> DEFINE h1 == KeepFun(list1, at)
           h2 == KeepFun(list2, at)
           Good(n) == /\ h1[n] \in Seq(Messages) /\ h2[n] \in Seq(Messages)
                      /\ Len(h1[n]) = Len(h2[n])
                      /\ \A j \in 1..Len(h1[n]) : h1[n][j].uid = h2[n][j].uid
           G == {n \in Nat : n <= N => Good(n)}
<1>1. 0 \in G
  <2>1. h1[0] = <<>> /\ h2[0] = <<>>
    BY KeepFunExists
  <2> HIDE DEF h1, h2
  <2>2. Good(0)
    BY <2>1
  <2> QED
    BY <2>2
<1>2. ASSUME NEW n \in Nat, n \in G PROVE n + 1 \in G
  <2> SUFFICES ASSUME n + 1 <= N PROVE Good(n + 1)
    OBVIOUS
  <2>1. /\ h1[n + 1] = IF n + 1 \in at THEN Append(h1[n], list1[n + 1]) ELSE h1[n]
        /\ h2[n + 1] = IF n + 1 \in at THEN Append(h2[n], list2[n + 1]) ELSE h2[n]
    <3>1. n + 1 \in 1..N /\ (n + 1) - 1 = n
      OBVIOUS
    <3>2. h1[n + 1] = Kept1(h1, list1, at, n + 1) /\ h2[n + 1] = Kept1(h2, list2, at, n + 1)
      BY <3>1, KeepFunExists
    <3> HIDE DEF h1, h2
    <3> QED
      BY <3>1, <3>2 DEF Kept1
  <2> HIDE DEF h1, h2
  <2>2. Good(n) /\ list1[n + 1] \in Messages /\ list2[n + 1] \in Messages
        /\ list1[n + 1].uid = list2[n + 1].uid
    <3>1. n + 1 \in 1..N
      OBVIOUS
    <3>2. Good(n)
      <4> HIDE DEF Good
      <4> QED
        BY <1>2
    <3> HIDE DEF Good
    <3> QED
      BY <3>1, <3>2, ElementOfSeq
  <2>3. CASE n + 1 \in at
    <3>1. h1[n + 1] = Append(h1[n], list1[n + 1]) /\ h2[n + 1] = Append(h2[n], list2[n + 1])
      BY <2>1, <2>3
    <3>2. /\ h1[n + 1] \in Seq(Messages) /\ Len(h1[n + 1]) = Len(h1[n]) + 1 /\ Len(h1[n]) \in Nat
          /\ \A j \in 1..Len(h1[n]) : h1[n + 1][j] = h1[n][j]
          /\ h1[n + 1][Len(h1[n]) + 1] = list1[n + 1]
      BY <2>2, <3>1, AppendProperties, LenProperties
    <3>3. /\ h2[n + 1] \in Seq(Messages) /\ Len(h2[n + 1]) = Len(h2[n]) + 1 /\ Len(h2[n]) \in Nat
          /\ \A j \in 1..Len(h2[n]) : h2[n + 1][j] = h2[n][j]
          /\ h2[n + 1][Len(h2[n]) + 1] = list2[n + 1]
      BY <2>2, <3>1, AppendProperties, LenProperties
    <3>4. \A j \in 1..Len(h1[n + 1]) : j \in 1..Len(h1[n]) \/ j = Len(h1[n]) + 1
      BY <3>2
    <3> QED
      BY <2>2, <3>2, <3>3, <3>4
  <2>4. CASE n + 1 \notin at
    BY <2>1, <2>2, <2>4
  <2> QED
    BY <2>3, <2>4
<1>3. \A n \in Nat : n \in G
  <2> HIDE DEF G
  <2> QED
    BY <1>1, <1>2, NatSetInduction
<1>4. Good(N)
  <2> HIDE DEF Good
  <2> QED
    BY <1>3
<1>5. Keep(list1, at) = h1[N] /\ Keep(list2, at) = h2[N]
  BY KeepIsLast
<1> HIDE DEF G, h1, h2
<1>6. DOMAIN h1[N] = 1..Len(h1[N]) /\ DOMAIN h2[N] = 1..Len(h1[N])
  BY <1>4, LenProperties
<1> QED
  BY <1>4, <1>5, <1>6 DEF Uids

\* A message at the end that is not kept changes nothing.
LEMMA KeepAppend ==
    ASSUME NEW S, NEW list \in Seq(S), NEW x \in S, NEW at1, NEW at2,
           Len(list) + 1 \notin at2, \A n \in 1..Len(list) : n \in at1 <=> n \in at2
    PROVE  Keep(Append(list, x), at2) = Keep(list, at1)
<1> DEFINE long == Append(list, x)
           h1 == KeepFun(list, at1)
           h2 == KeepFun(long, at2)
           G == {n \in Nat : n <= Len(list) => h1[n] = h2[n]}
<1>0. /\ Len(list) \in Nat /\ long \in Seq(S) /\ Len(long) = Len(list) + 1
      /\ \A n \in 1..Len(list) : long[n] = list[n]
  BY LenProperties, AppendProperties
<1>a. /\ h1[0] = <<>> /\ h2[0] = <<>>
      /\ \A n \in 1..Len(list) : h1[n] = Kept1(h1, list, at1, n)
      /\ \A n \in 1..Len(long) : h2[n] = Kept1(h2, long, at2, n)
  <2> HIDE DEF long
  <2> QED
    BY <1>0, KeepFunExists
<1> HIDE DEF long, h1, h2
<1>1. 0 \in G
  BY <1>a
<1>2. ASSUME NEW n \in Nat, n \in G PROVE n + 1 \in G
  <2> SUFFICES ASSUME n + 1 <= Len(list) PROVE h1[n + 1] = h2[n + 1]
    OBVIOUS
  <2>1. n + 1 \in 1..Len(list) /\ n + 1 \in 1..Len(long) /\ (n + 1) - 1 = n /\ h1[n] = h2[n]
    BY <1>0, <1>2
  <2>2. h1[n + 1] = Kept1(h1, list, at1, n + 1) /\ h2[n + 1] = Kept1(h2, long, at2, n + 1)
    BY <1>a, <2>1
  <2> QED
    BY <1>0, <2>1, <2>2 DEF Kept1
<1>3. \A n \in Nat : n \in G
  <2> HIDE DEF G
  <2> QED
    BY <1>1, <1>2, NatSetInduction
<1>4. h1[Len(list)] = h2[Len(list)]
  BY <1>0, <1>3
<1>5. h2[Len(long)] = h2[Len(list)]
  <2>1. Len(long) \in 1..Len(long) /\ Len(long) \notin at2 /\ Len(long) - 1 = Len(list)
    BY <1>0
  <2> QED
    BY <1>a, <2>1 DEF Kept1
<1> QED
  BY <1>4, <1>5, KeepIsLast DEF long, h1, h2

\* The user's messages of two lists have the same uids if the lists agree on uids and on who
\* speaks.
LEMMA SaidSame ==
    ASSUME NEW list1 \in Seq(Messages), NEW list2 \in Seq(Messages), Len(list1) = Len(list2),
           \A i \in 1..Len(list1) : /\ list1[i].uid = list2[i].uid
                                    /\ list1[i].role = "user" <=> list2[i].role = "user"
    PROVE  Uids(Said(list1)) = Uids(Said(list2))
<1>1. /\ Len(list1) \in Nat /\ DOMAIN list1 = 1..Len(list1) /\ DOMAIN list2 = 1..Len(list1)
  BY LenProperties
<1>2. {i \in DOMAIN list1 : list1[i].role = "user"} = {i \in DOMAIN list2 : list2[i].role = "user"}
  BY <1>1
<1> QED
  BY <1>1, <1>2, KeepUids DEF Said

\* A reply at the end of a list adds nothing to what the user said.
LEMMA SaidAppend ==
    ASSUME NEW list \in Seq(Messages), NEW m \in Messages, m.role # "user"
    PROVE  Said(Append(list, m)) = Said(list)
<1> DEFINE at1 == {i \in DOMAIN list : list[i].role = "user"}
           at2 == {i \in DOMAIN Append(list, m) : Append(list, m)[i].role = "user"}
<1>1. /\ Len(list) \in Nat /\ DOMAIN list = 1..Len(list)
      /\ DOMAIN Append(list, m) = 1..Len(list) + 1
      /\ \A i \in 1..Len(list) : Append(list, m)[i] = list[i]
      /\ Append(list, m)[Len(list) + 1] = m
  BY LenProperties, AppendProperties
<1>2. Len(list) + 1 \notin at2 /\ \A n \in 1..Len(list) : n \in at1 <=> n \in at2
  BY <1>1
<1>3. Said(list) = Keep(list, at1) /\ Said(Append(list, m)) = Keep(Append(list, m), at2)
  BY DEF Said
<1> HIDE DEF at1, at2
<1> QED
  BY <1>2, <1>3, KeepAppend

\* Replacing the last message of a list.
LEMMA ReplaceLast ==
    ASSUME NEW S, NEW list \in Seq(S), list # <<>>, NEW m \in S
    PROVE  LET new == Front(list) \o <<m>>
           IN /\ new \in Seq(S) /\ Len(new) = Len(list) /\ Len(list) \in Nat \ {0}
              /\ Last(new) = m /\ new[Len(list)] = m
              /\ \A i \in 1..Len(list) : i # Len(list) => new[i] = list[i]
<1>1. Len(list) \in Nat \ {0} /\ \A i \in 1..Len(list) : list[i] \in S
  BY EmptySeq, LenProperties, ElementOfSeq
<1>2. /\ Front(list) \in Seq(S) /\ Len(Front(list)) = Len(list) - 1
      /\ \A i \in 1..Len(list) - 1 : Front(list)[i] = list[i]
  <2>1. \A i \in 1..Len(list) - 1 : list[i] \in S
    BY <1>1
  <2>2. /\ SubSeq(list, 1, Len(list) - 1) \in Seq(S)
        /\ Len(SubSeq(list, 1, Len(list) - 1)) = IF 1 <= Len(list) - 1 THEN Len(list) - 1 - 1 + 1 ELSE 0
        /\ \A i \in 1..(Len(list) - 1) - 1 + 1 : SubSeq(list, 1, Len(list) - 1)[i] = list[1 + i - 1]
    BY <1>1, <2>1, SubSeqProperties
  <2>3. Len(SubSeq(list, 1, Len(list) - 1)) = Len(list) - 1
    <3>1. PICK n \in Nat \ {0} : n = Len(list)
      BY <1>1
    <3>2. (IF 1 <= n - 1 THEN n - 1 - 1 + 1 ELSE 0) = n - 1
      OBVIOUS
    <3>3. Len(SubSeq(list, 1, n - 1)) = IF 1 <= n - 1 THEN n - 1 - 1 + 1 ELSE 0
      BY <2>2, <3>1, Zenon
    <3> QED
      BY <3>1, <3>2, <3>3, Zenon
  <2>4. ASSUME NEW i \in 1..Len(list) - 1 PROVE SubSeq(list, 1, Len(list) - 1)[i] = list[i]
    <3>1. i \in 1..(Len(list) - 1) - 1 + 1 /\ 1 + i - 1 = i
      BY <1>1
    <3> QED
      BY <2>2, <3>1
  <2> QED
    BY <2>2, <2>3, <2>4 DEF Front
<1>3. <<m>> \in Seq(S) /\ Len(<<m>>) = 1 /\ <<m>>[1] = m
  OBVIOUS
<1> HIDE DEF Front
<1>4. /\ Front(list) \o <<m>> \in Seq(S) /\ Len(Front(list) \o <<m>>) = Len(list)
      /\ \A i \in 1..Len(list) : (Front(list) \o <<m>>)[i] =
                IF i <= Len(list) - 1 THEN Front(list)[i] ELSE <<m>>[i - (Len(list) - 1)]
  <2>1. /\ Front(list) \o <<m>> \in Seq(S) /\ Len(Front(list) \o <<m>>) = Len(Front(list)) + Len(<<m>>)
        /\ \A i \in 1..Len(Front(list)) + Len(<<m>>) : (Front(list) \o <<m>>)[i] =
                IF i <= Len(Front(list)) THEN Front(list)[i] ELSE <<m>>[i - Len(Front(list))]
    BY <1>2, <1>3, ConcatProperties
  <2>2. Len(Front(list)) + Len(<<m>>) = Len(list)
    BY <1>1, <1>2, <1>3
  <2> QED
    BY <1>2, <2>1, <2>2
<1>5. (Front(list) \o <<m>>)[Len(list)] = m
  <2>1. Len(list) \in 1..Len(list) /\ ~(Len(list) <= Len(list) - 1) /\ Len(list) - (Len(list) - 1) = 1
    BY <1>1
  <2> QED
    BY <1>3, <1>4, <2>1
<1>6. \A i \in 1..Len(list) : i # Len(list) => (Front(list) \o <<m>>)[i] = list[i]
  <2> SUFFICES ASSUME NEW i \in 1..Len(list), i # Len(list) PROVE (Front(list) \o <<m>>)[i] = list[i]
    OBVIOUS
  <2>1. i \in 1..Len(list) - 1 /\ i <= Len(list) - 1
    BY <1>1
  <2> QED
    BY <1>2, <1>4, <2>1
<1> QED
  BY <1>1, <1>4, <1>5, <1>6 DEF Last

\* The same for a list that is defined to be the changed one.
LEMMA LastReplaced ==
    ASSUME NEW S, NEW list \in Seq(S), list # <<>>, NEW m \in S, NEW new, new = Front(list) \o <<m>>
    PROVE  /\ new \in Seq(S) /\ Len(new) = Len(list) /\ Len(list) \in Nat \ {0}
           /\ Last(new) = m /\ new[Len(list)] = m
           /\ \A i \in 1..Len(list) : i # Len(list) => new[i] = list[i]
  BY ReplaceLast

\* The first messages of a list.
LEMMA Prefix ==
    ASSUME NEW S, NEW list \in Seq(S), NEW n \in 0..Len(list), NEW new, new = SubSeq(list, 1, n)
    PROVE  new \in Seq(S) /\ Len(new) = n /\ \A i \in 1..n : new[i] = list[i]
<1>1. Len(list) \in Nat /\ n \in Nat /\ \A i \in 1..Len(list) : list[i] \in S
  BY LenProperties, ElementOfSeq
<1>2. \A i \in 1..n : list[i] \in S
  BY <1>1
<1>3. /\ SubSeq(list, 1, n) \in Seq(S)
      /\ Len(SubSeq(list, 1, n)) = IF 1 <= n THEN n - 1 + 1 ELSE 0
      /\ \A i \in 1..n - 1 + 1 : SubSeq(list, 1, n)[i] = list[1 + i - 1]
  BY <1>1, <1>2, SubSeqProperties
<1>4. (IF 1 <= n THEN n - 1 + 1 ELSE 0) = n /\ n - 1 + 1 = n /\ \A i \in 1..n : 1 + i - 1 = i
  BY <1>1
<1> QED
  BY <1>3, <1>4

\* A set of positions that is not empty has a first and a last element.
LEMMA FirstAndLast ==
    ASSUME NEW n \in Nat, NEW I \in SUBSET (1..n), I # {}
    PROVE  Min(I) \in I /\ Max(I) \in I
<1> DEFINE Lo == {k \in Nat : (\E x \in I : x <= k) => \E x \in I : \A y \in I : x <= y}
           Hi == {k \in Nat : (\E x \in I : n - x <= k) => \E x \in I : \A y \in I : y <= x}
<1>1. \A k \in Nat : k \in Lo
  <2>1. 0 \in Lo
    OBVIOUS
  <2>2. ASSUME NEW k \in Nat, k \in Lo PROVE k + 1 \in Lo
    <3> SUFFICES ASSUME NEW x \in I, x <= k + 1, ~ \E z \in I : z <= k
                 PROVE  \A y \in I : x <= y
      BY <2>2
    <3> QED
      OBVIOUS
  <2> HIDE DEF Lo
  <2> QED
    BY <2>1, <2>2, NatSetInduction
<1>2. \A k \in Nat : k \in Hi
  <2>1. 0 \in Hi
    OBVIOUS
  <2>2. ASSUME NEW k \in Nat, k \in Hi PROVE k + 1 \in Hi
    <3> SUFFICES ASSUME NEW x \in I, n - x <= k + 1, ~ \E z \in I : n - z <= k
                 PROVE  \A y \in I : y <= x
      BY <2>2
    <3> QED
      OBVIOUS
  <2> HIDE DEF Hi
  <2> QED
    BY <2>1, <2>2, NatSetInduction
<1>3. n \in Lo /\ n \in Hi
  BY <1>1, <1>2
<1>4. \E x \in I : \A y \in I : x <= y
  <2>1. PICK x \in I : TRUE
    OBVIOUS
  <2>2. x <= n
    OBVIOUS
  <2> QED
    BY <1>3, <2>2
<1>5. \E x \in I : \A y \in I : y <= x
  <2>1. PICK x \in I : TRUE
    OBVIOUS
  <2>2. n - x <= n
    OBVIOUS
  <2> QED
    BY <1>3, <2>2
<1> HIDE DEF Lo, Hi
<1> QED
  BY <1>4, <1>5 DEF Min, Max
-----------------------------------------------------------------------------
(* The inductive invariant.                                                *)

\* The exceptions of SpinnerIsLast, the messages whose text is their own, and the fetches.
Excused == silent \/ stale \/ crossed
Clean(m) == m.parts \subseteq {ReplyOf(m)}
Fetching == {k \in Requests : request[k] = "fetch"}

\* What holds of a message, wherever a copy of it is, when n requests have been sent, those of
\* left were left open and those of fetching are fetches: its request has been sent, only the
\* default messages have ids below FirstId, its text is its own or that of a request left open,
\* and no fetch has begun to fill it.
Fine(m, n, left, fetching) ==
    /\ m.uid <= 2 * n + 1
    /\ m.uid <= 1 <=> m.id < FirstId
    /\ m.parts \subseteq {ReplyOf(m)} \union left
    /\ m.status = "incomplete" /\ Clean(m) => ReplyOf(m) \notin fetching

\* What holds of a list of messages: besides, only its last message is being generated.
ListOK(list, n, left, fetching, excused) ==
    \A i \in 1..Len(list) :
        /\ Fine(list[i], n, left, fetching)
        /\ i < Len(list) /\ Generating(list[i]) /\ Clean(list[i]) => excused

\* The copies that are stored or wait to be, and all lists that may be shown again.
Copies == {Kept} \union {saves[i] : i \in 1..Len(saves)}
Lists == {message} \union Copies \union (IF dialog.kind = "edit" THEN {dialog.list} ELSE {})

\* The types, and the bounds on which they rest.
ChatType ==
    /\ TypeOK
    /\ nextId >= FirstId
    /\ dialog # NoDialog => Len(saves) <= MaxSaves
    /\ dialog.kind = "edit" => dialog.list \in Seq(Messages) /\ dialog.index \in Nat

ListsInv == \A list \in Lists : ListOK(list, sent, loose, Fetching, Excused)

\* A request that is open and was not left open is the one that the last message waits for.
AwaitInv == Unawaited \subseteq loose

\* A handler can only throw because of a request that was left open.
CrashInv == crashed => loose # {}

\* The exchange that is being edited is not being generated.
EditInv ==
    editing # NoMessage =>
        /\ editing.uid <= 2 * sent + 1
        /\ editing.uid <= 1 <=> editing.id < FirstId
        /\ \A i \in 1..Len(message) :
            message[i].id = editing.id /\ ReplyOf(message[i]) = ReplyOf(editing) => ~Generating(message[i])

\* The conversation has gone on since its last message was the last of the list.
Moved(list) ==
    \/ Len(message) # Len(list)
    \/ Last(list).status = "loading" /\ Last(message).status # "loading"
    \/ ~Generating(Last(message))

\* The list that the edit dialog holds: if its last message is being generated then the request
\* is still open, or the dialog would notice that the conversation has gone on.
DialogInv ==
    dialog.kind = "edit" =>
        /\ editing = NoMessage
        /\ dialog.index < Len(dialog.list)
        /\ Len(dialog.list) <= Len(message)
        /\ \A i \in 1..Len(dialog.list) :
            Generating(dialog.list[i]) /\ Clean(dialog.list[i]) =>
                \/ Excused
                \/ i = Len(dialog.list) /\ (ReplyOf(dialog.list[i]) \in Open \/ Moved(dialog.list))

\* The newest copy of the conversation holds what the user said, unless a regeneration that is
\* still to come has cut the conversation short, or that copy could not be stored.
Newest == IF saves = <<>> THEN Kept ELSE Last(saves)
Lost == saves = <<>> /\ dropped
WordsInv ==
    (\A i \in 1..Len(resend) : resend[i] # "send") /\ ~wiped /\ ~Lost =>
        Uids(Said(message)) = Uids(Said(Newest))

ChatInv ==
    /\ ChatType /\ ListsInv /\ AwaitInv /\ CrashInv
    /\ EditInv /\ DialogInv /\ SpinnerIsLast /\ WordsInv

-----------------------------------------------------------------------------
(* Facts about messages and lists.                                         *)

\* The request of a message is half its uid.
LEMMA ReplyOfRange ==
    ASSUME NEW m \in Messages
    PROVE  /\ m.uid \in Nat /\ m.id \in Nat /\ ReplyOf(m) \in Nat
           /\ 2 * ReplyOf(m) <= m.uid /\ m.uid <= 2 * ReplyOf(m) + 1
<1>1. m.uid \in Nat /\ m.id \in Nat
  BY BoundAssumption DEF Messages
<1> QED
  BY <1>1, Z3 DEF ReplyOf

\* Messages with the same uid belong to the same request.
LEMMA SameReply == ASSUME NEW m, NEW x, m.uid = x.uid PROVE ReplyOf(m) = ReplyOf(x)
  BY DEF ReplyOf

\* A message stays fine when more requests have been sent and more were left open.
LEMMA FineGrows ==
    ASSUME NEW m \in Messages, NEW n \in Nat, NEW n2 \in Nat, NEW left, NEW left2, NEW fetching, NEW fetching2,
           Fine(m, n, left, fetching), n <= n2, left \subseteq left2,
           \A k \in fetching2 : k <= n => k \in fetching
    PROVE  Fine(m, n2, left2, fetching2)
<1>1. ReplyOf(m) <= n
  BY ReplyOfRange, Z3 DEF Fine
<1>2. m.uid <= 2 * n2 + 1
  BY ReplyOfRange, Z3 DEF Fine
<1> QED
  BY <1>1, <1>2 DEF Fine

\* So does a list.
LEMMA ListGrows ==
    ASSUME NEW list \in Seq(Messages), NEW n \in Nat, NEW n2 \in Nat, NEW left, NEW left2,
           NEW fetching, NEW fetching2, NEW excused, NEW excused2,
           ListOK(list, n, left, fetching, excused), n <= n2, left \subseteq left2,
           \A k \in fetching2 : k <= n => k \in fetching,
           excused => excused2
    PROVE  ListOK(list, n2, left2, fetching2, excused2)
<1> SUFFICES ASSUME NEW i \in 1..Len(list)
             PROVE  /\ Fine(list[i], n2, left2, fetching2)
                    /\ i < Len(list) /\ Generating(list[i]) /\ Clean(list[i]) => excused2
  BY DEF ListOK
<1>1. list[i] \in Messages /\ Fine(list[i], n, left, fetching)
  BY ElementOfSeq DEF ListOK
<1>2. Fine(list[i], n2, left2, fetching2)
  BY <1>1, FineGrows
<1> QED
  BY <1>2 DEF ListOK

\* The default messages are fine.
LEMMA DefaultOK ==
    /\ Default \in Seq(Messages) /\ Len(Default) = 2
    /\ \A i \in 1..2 : ~Generating(Default[i]) /\ Default[i].uid \in {0, 1}
    /\ \A n \in Nat : \A left, fetching, excused : ListOK(Default, n, left, fetching, excused)
<1>1. /\ Default[1] \in Messages /\ Default[1].uid = 0 /\ Default[1].id = 2 /\ Default[1].parts = {}
      /\ Default[1].status = "none"
  BY BoundAssumption DEF Default, Msg, Messages
<1>2. /\ Default[2] \in Messages /\ Default[2].uid = 1 /\ Default[2].id = 3 /\ Default[2].parts = {}
      /\ Default[2].status = "none"
  BY BoundAssumption DEF Default, Msg, Messages
<1>3. Len(Default) = 2 /\ Default \in Seq(Messages)
  <2>1. \A a, b \in Messages : <<a, b>> \in Seq(Messages) /\ Len(<<a, b>>) = 2
    OBVIOUS
  <2>2. Default = <<Default[1], Default[2]>>
    BY DEF Default
  <2> QED
    BY <1>1, <1>2, <2>1, <2>2, Zenon
<1>4. \A i \in 1..2 : i = 1 \/ i = 2
  OBVIOUS
<1>5. \A i \in 1..2 : ~Generating(Default[i]) /\ Default[i].uid \in {0, 1}
  BY <1>1, <1>2, <1>4 DEF Generating
<1>6. ASSUME NEW n \in Nat, NEW left, NEW fetching, NEW excused PROVE ListOK(Default, n, left, fetching, excused)
  <2>1. 0 <= 2 * n + 1 /\ 1 <= 2 * n + 1
    OBVIOUS
  <2>2. Fine(Default[1], n, left, fetching)
    BY <1>1, <2>1 DEF Fine, FirstId
  <2>3. Fine(Default[2], n, left, fetching)
    BY <1>2, <2>1 DEF Fine, FirstId
  <2> QED
    BY <1>3, <1>4, <1>5, <2>2, <2>3 DEF ListOK
<1> QED
  BY <1>3, <1>5, <1>6
-----------------------------------------------------------------------------
(* Answers.                                                                *)

\* What becomes of the last message m when something arrives from request k.
Continues(m, x, k, kind) ==
    /\ x.uid = m.uid /\ x.id = m.id /\ x.role = m.role
    /\ x.parts \subseteq m.parts \union {k}
    /\ Generating(x) =>
        /\ Generating(m) /\ m.parts \subseteq x.parts
        /\ x.status = "loading" => m.status = "loading"
        /\ x.status = "incomplete" /\ m.status = "loading" => kind = "stream" /\ k \in x.parts

\* list is the conversation with its last message changed by request k.
Answered(list, k) ==
    /\ list \in Seq(Messages) /\ Len(list) = Len(message)
    /\ \A i \in 1..Len(message) : i # Len(message) => list[i] = message[i]
    /\ message # <<>> => Continues(Last(message), Last(list), k, request[k])

\* A handler either stores nothing or puts the new conversation at the end of the saves.
Stores ==
    /\ stored' = stored /\ dropped' = dropped
    /\ \/ saves' = saves
       \/ saves' = Append(saves, message') /\ (Len(saves) < MaxSaves \/ (dialog # NoDialog /\ dialog' = NoDialog))

\* A step that only handles what arrives from request k.
Answer(k) ==
    /\ k \in Open
    /\ Answered(message', k)
    /\ Open' \subseteq Open /\ Open \ {k} \subseteq Open' /\ Fetching' \subseteq Fetching
    /\ k \in Open' \/ silent' \/ ~LastGenerating' \/ (k \in Fetching /\ Last(message).status = "incomplete")
    /\ \/ Open \subseteq loose'
       \/ k \notin Open' /\ Ends(k)
       \/ loose' = loose /\ (LastGenerating => LastGenerating')
    /\ loose \subseteq loose' /\ loose' \subseteq Requests
    /\ Stores
    /\ crashed' \in BOOLEAN /\ (crashed' => crashed \/ message = <<>>)
    /\ silent => silent'
    /\ UNCHANGED <<resend, nextId, sent, editing, dialog, stale, crossed, wiped>>
    /\ request' \in [Requests -> {"none", "stream", "fetch", "closed"}]
    /\ chunks' \in [Requests -> 0..MaxChunks]
    /\ sseRef' \in {0, sseRef}

\* The last message of a list that is not empty.
LEMMA LastIn ==
    ASSUME NEW S, NEW list \in Seq(S), list # <<>>
    PROVE  Last(list) \in S /\ Len(list) \in Nat \ {0} /\ Last(list) = list[Len(list)]
<1>1. Len(list) \in Nat \ {0}
  BY EmptySeq
<1> QED
  BY <1>1, ElementOfSeq DEF Last

\* A list that has a position is not empty.
LEMMA NotEmpty == ASSUME NEW S, NEW list \in Seq(S), NEW i \in 1..Len(list) PROVE list # <<>>
<1>1. Len(<<>>) = 0
  OBVIOUS
<1>2. Len(list) \in Nat
  BY LenProperties
<1> QED
  BY <1>1, <1>2

\* Lists of the same length are empty together.
LEMMA SameLength ==
    ASSUME NEW S, NEW list1 \in Seq(S), NEW list2 \in Seq(S), Len(list1) = Len(list2)
    PROVE  list1 = <<>> <=> list2 = <<>>
  BY EmptySeq

\* A change of the status of a message.
LEMMA NewStatus ==
    ASSUME NEW m \in Messages, NEW status \in {"none", "loading", "incomplete", "complete", "error"}
    PROVE  LET x == [m EXCEPT !.status = status]
           IN /\ x \in Messages /\ x.uid = m.uid /\ x.id = m.id /\ x.role = m.role
              /\ x.status = status /\ x.parts = m.parts
  BY DEF Messages

\* A change of the text of a message.
LEMMA NewParts ==
    ASSUME NEW m \in Messages, NEW parts \in SUBSET Requests
    PROVE  LET x == [m EXCEPT !.parts = parts]
           IN /\ x \in Messages /\ x.uid = m.uid /\ x.id = m.id /\ x.role = m.role
              /\ x.status = m.status /\ x.parts = parts
  BY DEF Messages

\* A change of who speaks.
LEMMA NewRole ==
    ASSUME NEW m \in Messages, NEW role \in {"user", "assistant", "system"}
    PROVE  LET x == [m EXCEPT !.role = role]
           IN /\ x \in Messages /\ x.uid = m.uid /\ x.id = m.id /\ x.role = role
              /\ x.status = m.status /\ x.parts = m.parts
  BY DEF Messages

\* A message is continued by itself.
LEMMA ContinuesSelf == ASSUME NEW m, NEW k, NEW kind PROVE Continues(m, m, k, kind)
  BY DEF Continues, Generating

\* Nothing changed is a change by any request.
LEMMA AnsweredSelf == ASSUME TypeOK, NEW k PROVE Answered(message, k)
  BY ContinuesSelf DEF Answered, TypeOK

\* An answer that replaces the last message.
LEMMA AnsweredLast ==
    ASSUME TypeOK, NEW k, message # <<>>, NEW x \in Messages, Continues(Last(message), x, k, request[k])
    PROVE  Answered(Front(message) \o <<x>>, k) /\ Last(Front(message) \o <<x>>) = x
<1>1. message \in Seq(Messages)
  BY DEF TypeOK
<1> DEFINE new == Front(message) \o <<x>>
<1>2. /\ new \in Seq(Messages) /\ Len(new) = Len(message) /\ Last(new) = x
      /\ \A i \in 1..Len(message) : i # Len(message) => new[i] = message[i]
  BY <1>1, ReplaceLast
<1> HIDE DEF new
<1>3. Answered(new, k)
  BY <1>2 DEF Answered
<1> QED
  BY <1>2, <1>3 DEF new

\* A chunk from stream k.
LEMMA StreamedAnswers ==
    ASSUME TypeOK, NEW k \in Requests, request[k] = "stream"
    PROVE  /\ Answered(Streamed(k), k)
           /\ LastGenerating => Streamed(k) # <<>> /\ Generating(Last(Streamed(k)))
<1>1. CASE message = <<>> \/ Last(message).role # "assistant" \/ ~Generating(Last(message))
  BY <1>1, AnsweredSelf DEF Streamed, LastGenerating
<1>2. CASE ~(message = <<>> \/ Last(message).role # "assistant" \/ ~Generating(Last(message)))
  <2> DEFINE m == Last(message)
             y == [m EXCEPT !.parts = m.parts \union {k}]
             x == [y EXCEPT !.status = "incomplete"]
  <2>1. m \in Messages
    BY <1>2, LastIn DEF TypeOK
  <2>2. m.parts \union {k} \in SUBSET Requests
    BY <2>1 DEF Messages
  <2>3. y \in Messages /\ y.uid = m.uid /\ y.id = m.id /\ y.role = m.role /\ y.parts = m.parts \union {k}
    BY <2>1, <2>2, NewParts
  <2>4. /\ x \in Messages /\ x.uid = y.uid /\ x.id = y.id /\ x.role = y.role /\ x.parts = y.parts
        /\ x.status = "incomplete"
    <3> HIDE DEF y
    <3> QED
      BY <2>3, NewStatus
  <2>5. Streamed(k) = Front(message) \o <<x>>
    BY <1>2 DEF Streamed, SetLast
  <2> HIDE DEF x, y
  <2>6. Continues(m, x, k, request[k]) /\ Generating(x)
    BY <1>2, <2>3, <2>4 DEF Continues, Generating
  <2>7. Answered(Streamed(k), k) /\ Last(Streamed(k)) = x
    BY <1>2, <2>4, <2>5, <2>6, AnsweredLast
  <2>8. Streamed(k) # <<>>
    BY <1>2, <2>7, SameLength DEF Answered, TypeOK
  <2> QED
    BY <2>6, <2>7, <2>8
<1> QED
  BY <1>1, <1>2

\* completeMessage ends the last message, if there is one.
LEMMA CompleteAnswers ==
    ASSUME TypeOK, NEW k, NEW list, Answered(list, k), NEW status \in {"complete", "error"},
           Complete(list, status)
    PROVE  /\ Answered(message', k) /\ ~LastGenerating'
           /\ saves' = saves \/ saves' = Append(saves, message')
           /\ crashed' \in BOOLEAN /\ (crashed' => crashed \/ message = <<>>)
<1>1. list \in Seq(Messages) /\ message \in Seq(Messages) /\ Len(list) = Len(message) /\ crashed \in BOOLEAN
  BY DEF Answered, TypeOK
<1>2. list = <<>> <=> message = <<>>
  BY <1>1, SameLength
<1>3. CASE list = <<>>
  BY <1>2, <1>3 DEF Complete, LastGenerating
<1>4. CASE list # <<>> /\ Last(list).status \in {"complete", "error"}
  BY <1>1, <1>4 DEF Complete, LastGenerating, Generating
<1>5. CASE list # <<>> /\ Last(list).status \notin {"complete", "error"}
  <2> DEFINE m == Last(message)
             y == Last(list)
             x == [y EXCEPT !.status = status]
  <2>1. y \in Messages /\ m \in Messages
    BY <1>1, <1>2, <1>5, LastIn
  <2>2. /\ x \in Messages /\ x.uid = y.uid /\ x.id = y.id /\ x.role = y.role
        /\ x.status = status /\ x.parts = y.parts
    <3> HIDE DEF y
    <3>1. status \in {"none", "loading", "incomplete", "complete", "error"}
      OBVIOUS
    <3> QED
      BY <2>1, <3>1, NewStatus
  <2>3. Continues(m, y, k, request[k])
    BY <1>2, <1>5 DEF Answered
  <2>4. message' = Front(list) \o <<x>> /\ saves' = Append(saves, message') /\ crashed' = crashed
    BY <1>5 DEF Complete, Save
  <2> HIDE DEF x
  <2>5. /\ message' \in Seq(Messages) /\ Len(message') = Len(list) /\ Last(message') = x
        /\ \A i \in 1..Len(list) : i # Len(list) => message'[i] = list[i]
    BY <1>1, <1>5, <2>2, <2>4, ReplaceLast
  <2>6. ~Generating(x)
    BY <2>2 DEF Generating
  <2>7. Continues(m, x, k, request[k])
    <3> HIDE DEF m, y
    <3> QED
      BY <2>2, <2>3, <2>6 DEF Continues
  <2>8. Answered(message', k)
    BY <1>1, <2>5, <2>7 DEF Answered
  <2>9. ~LastGenerating'
    BY <2>5, <2>6 DEF LastGenerating
  <2> QED
    BY <1>1, <2>4, <2>8, <2>9
<1> QED
  BY <1>3, <1>4, <1>5

\* Closing a request.
LEMMA Closing ==
    ASSUME TypeOK, NEW k \in Requests, request' = [request EXCEPT ![k] = "closed"]
    PROVE  /\ Open' = Open \ {k} /\ Fetching' \subseteq Fetching
           /\ request' \in [Requests -> {"none", "stream", "fetch", "closed"}]
  BY DEF TypeOK, Open, Fetching

\* Leaving all requests as they are.
LEMMA NotClosing ==
    ASSUME TypeOK, request' = request
    PROVE  /\ Open' = Open /\ Fetching' = Fetching
           /\ request' \in [Requests -> {"none", "stream", "fetch", "closed"}]
  BY DEF TypeOK, Open, Fetching

\* What Ends adds are requests.
LEMMA EndsGrows ==
    ASSUME TypeOK, NEW k, Ends(k)
    PROVE  loose \subseteq loose' /\ loose' \subseteq Requests
  BY DEF Ends, Unawaited, Open, TypeOK

\* A chunk continues the last message and closes nothing.
LEMMA ChunkAnswers == ASSUME TypeOK, NEW k \in Requests, Chunk(k) PROVE Answer(k)
<1> USE DEF Chunk, Listens, history, page
<1>1. k \in Open /\ request[k] = "stream"
  BY DEF Open
<1>2. /\ Answered(message', k) /\ (LastGenerating => LastGenerating')
  BY <1>1, StreamedAnswers DEF LastGenerating
<1>3. Open' = Open /\ Fetching' = Fetching /\ request' \in [Requests -> {"none", "stream", "fetch", "closed"}]
  BY NotClosing
<1>4. chunks' \in [Requests -> 0..MaxChunks]
  BY BoundAssumption DEF TypeOK
<1>5. Stores
  BY DEF Stores
<1>6. loose' \subseteq Requests /\ crashed' \in BOOLEAN
  BY DEF TypeOK
<1> QED
  BY <1>1, <1>2, <1>3, <1>4, <1>5, <1>6 DEF Answer

\* [DONE] completes the last message and closes its own stream.
LEMMA DoneAnswers == ASSUME TypeOK, NEW k \in Requests, Done(k) PROVE Answer(k)
<1> USE DEF Done, Listens
<1>1. k \in Open
  BY DEF Open
<1>2. /\ Answered(message', k) /\ ~LastGenerating'
      /\ saves' = saves \/ saves' = Append(saves, message')
      /\ crashed' \in BOOLEAN /\ (crashed' => crashed \/ message = <<>>)
  BY AnsweredSelf, CompleteAnswers
<1>3. /\ Open' = Open \ {k} /\ Fetching' \subseteq Fetching
      /\ request' \in [Requests -> {"none", "stream", "fetch", "closed"}]
  BY Closing
<1>4. chunks' \in [Requests -> 0..MaxChunks]
  BY DEF TypeOK
<1>5. Stores
  <2>1. Len(saves) < MaxSaves /\ stored' = stored
    OBVIOUS
  <2> QED
    BY <1>2, <2>1, Zenon DEF Stores
<1>6. loose \subseteq loose' /\ loose' \subseteq Requests
  BY EndsGrows
<1> QED
  BY <1>1, <1>2, <1>3, <1>4, <1>5, <1>6 DEF Answer

\* A chunk that is no JSON ends the last message and closes nothing.
LEMMA ParseErrorAnswers == ASSUME TypeOK, NEW k \in Requests, ParseError(k) PROVE Answer(k)
<1> USE DEF ParseError, Listens
<1>1. k \in Open /\ request[k] = "stream"
  BY DEF Open
<1>2. /\ Answered(message', k) /\ ~LastGenerating'
      /\ saves' = saves \/ saves' = Append(saves, message')
      /\ crashed' \in BOOLEAN /\ (crashed' => crashed \/ message = <<>>)
  BY <1>1, StreamedAnswers, CompleteAnswers
<1>3. /\ Open' = Open /\ Fetching' = Fetching
      /\ request' \in [Requests -> {"none", "stream", "fetch", "closed"}]
  BY NotClosing
<1>4. chunks' \in [Requests -> 0..MaxChunks]
  BY BoundAssumption DEF TypeOK
<1>5. Stores
  <2>1. Len(saves) < MaxSaves /\ stored' = stored
    OBVIOUS
  <2> QED
    BY <1>2, <2>1, Zenon DEF Stores
<1>6. loose \subseteq loose' /\ loose' \subseteq Requests /\ Open \subseteq loose'
  BY DEF TypeOK, Open
<1> QED
  BY <1>1, <1>2, <1>3, <1>4, <1>5, <1>6 DEF Answer

\* An HTTP error ends the last message and closes the stream.
LEMMA HttpErrorAnswers == ASSUME TypeOK, NEW k \in Requests, HttpError(k) PROVE Answer(k)
<1> USE DEF HttpError, Listens
<1>1. k \in Open /\ request[k] = "stream"
  BY DEF Open
<1>2. /\ Answered(message', k) /\ ~LastGenerating'
      /\ saves' = saves \/ saves' = Append(saves, message')
      /\ crashed' \in BOOLEAN /\ (crashed' => crashed \/ message = <<>>)
  BY <1>1, StreamedAnswers, CompleteAnswers
<1>3. /\ Open' = Open \ {k} /\ Fetching' \subseteq Fetching
      /\ request' \in [Requests -> {"none", "stream", "fetch", "closed"}]
  BY Closing
<1>4. chunks' \in [Requests -> 0..MaxChunks]
  BY DEF TypeOK
<1>5. Stores
  <2>1. Len(saves) < MaxSaves /\ stored' = stored
    OBVIOUS
  <2> QED
    BY <1>2, <2>1, Zenon DEF Stores
<1>6. loose \subseteq loose' /\ loose' \subseteq Requests
  BY EndsGrows
<1> QED
  BY <1>1, <1>2, <1>3, <1>4, <1>5, <1>6 DEF Answer

\* An error event ends the last message and closes the stream.
LEMMA SseErrorAnswers == ASSUME TypeOK, NEW k \in Requests, SseError(k) PROVE Answer(k)
<1> USE DEF SseError, Listens, page
<1>1. k \in Open
  BY DEF Open
<1>2. Answered(message', k) /\ ~LastGenerating'
  <2>1. CASE message = <<>> \/ Last(message).status \in {"complete", "error"}
    BY <2>1, AnsweredSelf DEF LastGenerating, Generating
  <2>2. CASE ~(message = <<>> \/ Last(message).status \in {"complete", "error"})
    <3> DEFINE m == Last(message)
               y == [m EXCEPT !.status = "error"]
               x == [y EXCEPT !.parts = m.parts \union {k}]
    <3>1. m \in Messages
      BY <2>2, LastIn DEF TypeOK
    <3>2. y \in Messages /\ y.uid = m.uid /\ y.id = m.id /\ y.role = m.role /\ y.status = "error" /\ y.parts = m.parts
      BY <3>1, NewStatus
    <3>3. m.parts \union {k} \in SUBSET Requests
      BY <3>1 DEF Messages
    <3>4. message' = Front(message) \o <<x>>
      <4>1. m \in Messages /\ y.parts = m.parts
        BY <3>1, <3>2
      <4> QED
        BY <2>2, <4>1 DEF SetLast
    <3>5. /\ x \in Messages /\ x.uid = y.uid /\ x.id = y.id /\ x.role = y.role /\ x.status = "error"
          /\ x.parts = m.parts \union {k}
      <4> HIDE DEF y, m
      <4> QED
        BY <3>2, <3>3, NewParts
    <3> HIDE DEF x, y
    <3>6. Continues(m, x, k, request[k]) /\ ~Generating(x)
      BY <3>2, <3>5 DEF Continues, Generating
    <3>7. Answered(message', k) /\ Last(message') = x
      BY <2>2, <3>4, <3>5, <3>6, AnsweredLast
    <3> QED
      BY <3>6, <3>7 DEF LastGenerating
  <2> QED
    BY <2>1, <2>2
<1>3. /\ Open' = Open \ {k} /\ Fetching' \subseteq Fetching
      /\ request' \in [Requests -> {"none", "stream", "fetch", "closed"}]
  BY Closing
<1>4. chunks' \in [Requests -> 0..MaxChunks] /\ crashed' \in BOOLEAN
  BY DEF TypeOK
<1>5. Stores
  BY <1>2 DEF Stores
<1>6. loose \subseteq loose' /\ loose' \subseteq Requests
  BY EndsGrows
<1> QED
  BY <1>1, <1>2, <1>3, <1>4, <1>5, <1>6 DEF Answer

\* An answer that ends silently closes its request only.
LEMMA EndSilentlyAnswers == ASSUME TypeOK, NEW k \in Requests, EndSilently(k) PROVE Answer(k)
<1> USE DEF EndSilently, page, conversation
<1>1. Answered(message', k) /\ (LastGenerating => LastGenerating')
  BY AnsweredSelf DEF LastGenerating
<1>2. /\ Open' = Open \ {k} /\ Fetching' \subseteq Fetching
      /\ request' \in [Requests -> {"none", "stream", "fetch", "closed"}]
  BY Closing
<1>3. chunks' \in [Requests -> 0..MaxChunks] /\ crashed' \in BOOLEAN /\ loose' \subseteq Requests
  BY DEF TypeOK
<1>4. Stores
  BY DEF Stores
<1> QED
  BY <1>1, <1>2, <1>3, <1>4 DEF Answer

\* The end of a fetch fills a last message that still loads and closes the request.
LEMMA FetchAnswers ==
    ASSUME TypeOK, NEW k \in Requests, NEW status \in {"complete", "error"}, FetchEnds(k, status)
    PROVE  Answer(k)
<1> USE DEF FetchEnds, page
<1>1. k \in Open /\ k \in Fetching
  BY DEF Open, Fetching
<1>2. Answered(message', k) /\ (~LastGenerating' \/ Last(message).status = "incomplete")
  <2>1. CASE message = <<>> \/ Last(message).status # "loading"
    BY <2>1, AnsweredSelf DEF LastGenerating, Generating
  <2>2. CASE ~(message = <<>> \/ Last(message).status # "loading")
    <3> DEFINE m == Last(message)
               y == [m EXCEPT !.status = status]
               x == [y EXCEPT !.parts = {k}]
    <3>1. m \in Messages
      BY <2>2, LastIn DEF TypeOK
    <3>2. y \in Messages /\ y.uid = m.uid /\ y.id = m.id /\ y.role = m.role /\ y.status = status
      <4>1. status \in {"none", "loading", "incomplete", "complete", "error"}
        OBVIOUS
      <4> QED
        BY <3>1, <4>1, NewStatus
    <3>3. {k} \in SUBSET Requests
      OBVIOUS
    <3>4. message' = Front(message) \o <<x>>
      BY <2>2 DEF SetLast
    <3>5. /\ x \in Messages /\ x.uid = y.uid /\ x.id = y.id /\ x.role = y.role /\ x.status = y.status
          /\ x.parts = {k}
      <4> HIDE DEF y, m
      <4> QED
        BY <3>2, <3>3, NewParts
    <3> HIDE DEF x, y
    <3>6. Continues(m, x, k, request[k]) /\ ~Generating(x)
      BY <3>2, <3>5 DEF Continues, Generating
    <3>7. Answered(message', k) /\ Last(message') = x
      BY <2>2, <3>4, <3>5, <3>6, AnsweredLast
    <3> QED
      BY <3>6, <3>7 DEF LastGenerating
  <2> QED
    BY <2>1, <2>2
<1>3. /\ Open' = Open \ {k} /\ Fetching' \subseteq Fetching
      /\ request' \in [Requests -> {"none", "stream", "fetch", "closed"}]
  BY Closing
<1>4. chunks' \in [Requests -> 0..MaxChunks] /\ crashed' \in BOOLEAN
  BY DEF TypeOK
<1>5. Stores
  BY <1>2 DEF Stores
<1>6. loose \subseteq loose' /\ loose' \subseteq Requests
  BY EndsGrows
<1> QED
  BY <1>1, <1>2, <1>3, <1>4, <1>5, <1>6 DEF Answer
-----------------------------------------------------------------------------
(* What keeps the invariant, whatever the step.                            *)

\* History only grows, and a request that was sent does not become a fetch.
Grows ==
    /\ sent' \in Nat /\ sent <= sent' /\ loose \subseteq loose'
    /\ Excused => Excused'
    /\ \A k \in Fetching' : k <= sent => k \in Fetching

\* The lists are sequences of messages.
LEMMA ListsType == ASSUME ChatType PROVE Lists \subseteq Seq(Messages) /\ Kept \in Seq(Messages) /\ sent \in Nat
<1>1. Kept \in Seq(Messages)
  BY DefaultOK DEF Kept, ChatType, TypeOK
<1>2. \A i \in 1..Len(saves) : saves[i] \in Seq(Messages)
  BY ElementOfSeq DEF ChatType, TypeOK
<1>3. message \in Seq(Messages) /\ sent \in Nat
  BY BoundAssumption DEF ChatType, TypeOK
<1>4. dialog.kind = "edit" => dialog.list \in Seq(Messages)
  BY DEF ChatType
<1> QED
  BY <1>1, <1>2, <1>3, <1>4 DEF Lists, Copies

\* Lists that were fine stay so; it is the new ones that have to be looked at.
LEMMA ListsStep ==
    ASSUME ChatType, ListsInv, Grows,
           \A list \in Lists' : list \in Lists \/ ListOK(list, sent', loose', Fetching', Excused')
    PROVE  ListsInv'
<1> SUFFICES ASSUME NEW list \in Lists' PROVE ListOK(list, sent', loose', Fetching', Excused')
  BY DEF ListsInv
<1>1. CASE list \in Lists
  <2>1. list \in Seq(Messages) /\ sent \in Nat /\ ListOK(list, sent, loose, Fetching, Excused)
    BY <1>1, ListsType DEF ListsInv
  <2>2. /\ sent' \in Nat /\ sent <= sent' /\ loose \subseteq loose' /\ (Excused => Excused')
        /\ \A k \in Fetching' : k <= sent => k \in Fetching
    BY DEF Grows
  <2> QED
    BY <2>1, <2>2, ListGrows
<1> QED
  BY <1>1

\* A handler that may store the new conversation.
LEMMA StoresStep ==
    ASSUME ChatType, message' \in Seq(Messages), Stores
    PROVE  /\ saves' \in Seq(Seq(Messages)) /\ stored' \in Seq(Messages) \union {Nothing}
           /\ Len(saves') <= MaxSaves + 1
           /\ dialog' = dialog /\ dialog # NoDialog => Len(saves') <= MaxSaves
           /\ Copies' \subseteq Copies \union {message'}
           /\ \/ saves' = saves /\ Newest' = Newest
              \/ saves' = Append(saves, message') /\ Newest' = message'
<1>1. /\ saves \in Seq(Seq(Messages)) /\ stored \in Seq(Messages) \union {Nothing} /\ Len(saves) \in Nat
      /\ Len(saves) <= MaxSaves + 1 /\ (dialog # NoDialog => Len(saves) <= MaxSaves) /\ MaxSaves \in Nat
  BY BoundAssumption, LenProperties DEF ChatType, TypeOK
<1>2. stored' = stored /\ Kept' = Kept
  BY DEF Stores, Kept
<1>3. CASE saves' = saves
  BY <1>1, <1>2, <1>3 DEF Copies, Newest
<1>4. CASE saves' # saves
  <2>0. /\ saves' = Append(saves, message')
        /\ Len(saves) < MaxSaves \/ (dialog # NoDialog /\ dialog' = NoDialog)
    BY <1>4 DEF Stores
  <2>1. /\ saves' \in Seq(Seq(Messages)) /\ Len(saves') = Len(saves) + 1 /\ saves' # <<>>
        /\ \A i \in 1..Len(saves) : saves'[i] = saves[i]
        /\ saves'[Len(saves) + 1] = message'
    BY <1>1, <2>0, AppendProperties
  <2>2. Newest' = message'
    BY <2>1 DEF Newest, Last
  <2>3. Copies' \subseteq Copies \union {message'}
    <3> SUFFICES ASSUME NEW list \in Copies' PROVE list \in Copies \union {message'}
      OBVIOUS
    <3>1. CASE list = Kept'
      BY <3>1, <1>2 DEF Copies
    <3>2. CASE \E i \in 1..Len(saves') : list = saves'[i]
      <4>1. PICK i \in 1..Len(saves') : list = saves'[i]
        BY <3>2
      <4>2. i \in 1..Len(saves) \/ i = Len(saves) + 1
        BY <1>1, <2>1
      <4> QED
        BY <2>1, <4>1, <4>2 DEF Copies
    <3> QED
      BY <3>1, <3>2 DEF Copies
  <2>4. Len(saves') <= MaxSaves + 1 /\ (dialog' = dialog /\ dialog # NoDialog => Len(saves') <= MaxSaves)
    BY <1>1, <2>0, <2>1
  <2> QED
    BY <1>1, <1>2, <2>0, <2>1, <2>2, <2>3, <2>4
<1> QED
  BY <1>3, <1>4

\* The dialog that is open holds no new list.
LEMMA DialogLists ==
    ASSUME Copies' \subseteq Copies \union {message'}, dialog' = dialog \/ dialog'.kind # "edit"
    PROVE  Lists' \subseteq Lists \union {message'}
  BY DEF Lists

\* No dialog is open once it is closed.
LEMMA NoDialogKind == NoDialog.kind = "none"
  BY DEF NoDialog

\* What the user said is stored, or it did not change.
LEMMA WordsStep ==
    ASSUME ChatType, WordsInv, message' \in Seq(Messages), Stores,
           \/ saves' = Append(saves, message')
           \/ /\ Uids(Said(message')) = Uids(Said(message))
              /\ (\A i \in 1..Len(resend') : resend'[i] # "send") => \A i \in 1..Len(resend) : resend[i] # "send"
              /\ ~wiped' => ~wiped
           \/ wiped'
           \/ \E i \in 1..Len(resend') : resend'[i] = "send"
    PROVE  WordsInv'
<1>1. \/ saves' = saves /\ Newest' = Newest
      \/ saves' = Append(saves, message') /\ Newest' = message'
  BY StoresStep
<1>2. CASE saves' = Append(saves, message')
  <2>1. saves \in Seq(Seq(Messages)) /\ saves' # saves
    <3>1. saves \in Seq(Seq(Messages))
      BY DEF ChatType, TypeOK
    <3>2. Len(saves') = Len(saves) + 1 /\ Len(saves) \in Nat
      BY <3>1, <1>2, AppendProperties, LenProperties
    <3> QED
      BY <3>1, <3>2
  <2>2. Newest' = message'
    BY <1>1, <2>1
  <2> QED
    BY <2>2 DEF WordsInv
<1>3. CASE saves' # Append(saves, message')
  <2>1. saves' = saves /\ Newest' = Newest /\ dropped' = dropped
    BY <1>1, <1>3 DEF Stores
  <2> QED
    BY <1>3, <2>1 DEF WordsInv, Lost
<1> QED
  BY <1>2, <1>3
-----------------------------------------------------------------------------
(* Answers keep the invariant.                                             *)

\* Nothing but requests, chunks and the conversation changes.
LEMMA AnswerType == ASSUME ChatType, NEW k, Answer(k) PROVE ChatType' /\ Grows
<1>1. /\ message' \in Seq(Messages) /\ Stores
      /\ UNCHANGED <<resend, nextId, sent, editing, dialog, stale, crossed, wiped>>
      /\ loose' \subseteq Requests /\ crashed' \in BOOLEAN /\ sseRef' \in {0, sseRef}
      /\ request' \in [Requests -> {"none", "stream", "fetch", "closed"}]
      /\ chunks' \in [Requests -> 0..MaxChunks]
  BY DEF Answer, Answered
<1>2. /\ saves' \in Seq(Seq(Messages)) /\ stored' \in Seq(Messages) \union {Nothing}
      /\ Len(saves') <= MaxSaves + 1 /\ (dialog # NoDialog => Len(saves') <= MaxSaves)
  BY <1>1, StoresStep
<1>3. sseRef' \in 0..sent'
  BY <1>1 DEF ChatType, TypeOK
<1>4. TypeOK'
  BY <1>1, <1>2, <1>3 DEF ChatType, TypeOK
<1>5. ChatType'
  BY <1>1, <1>2, <1>4 DEF ChatType
<1>6. /\ loose \subseteq loose' /\ (Excused => Excused') /\ Fetching' \subseteq Fetching
  BY <1>1 DEF Answer, Excused
<1>7. Grows
  <2>1. sent \in Nat /\ sent' = sent
    BY <1>1, ListsType
  <2> QED
    BY <1>6, <2>1 DEF Grows
<1> QED
  BY <1>5, <1>7

\* The request that answers is awaited by the last message or was left open.
LEMMA Awaited ==
    ASSUME AwaitInv, NEW k \in Open, k \notin loose
    PROVE  message # <<>> /\ Generating(Last(message)) /\ ReplyOf(Last(message)) = k
  BY DEF AwaitInv, Unawaited, LastGenerating

\* The last message after an answer is fine, and if it is still being generated with words of
\* its own then so it was before.
LEMMA AnswerLast ==
    ASSUME ChatType, ListsInv, AwaitInv, NEW k, Answer(k), message # <<>>
    PROVE  LET m == Last(message)
               x == Last(message')
           IN /\ m \in Messages /\ x \in Messages /\ ReplyOf(x) = ReplyOf(m)
              /\ Fine(m, sent, loose, Fetching)
              /\ Fine(x, sent', loose', Fetching')
              /\ Generating(x) /\ Clean(x) => Generating(m) /\ Clean(m)
<1> DEFINE m == Last(message)
           x == Last(message')
<1>1. /\ message \in Seq(Messages) /\ message' \in Seq(Messages) /\ Len(message') = Len(message)
      /\ Continues(m, x, k, request[k]) /\ k \in Open /\ sent' = sent
      /\ loose \subseteq loose' /\ Fetching' \subseteq Fetching
  BY DEF Answer, Answered, ChatType, TypeOK
<1>2. message' # <<>>
  BY <1>1, SameLength
<1>3. m \in Messages /\ x \in Messages /\ Len(message) \in 1..Len(message) /\ m = message[Len(message)]
  BY <1>1, <1>2, LastIn
<1>4. Fine(m, sent, loose, Fetching)
  BY <1>3 DEF ListsInv, Lists, ListOK
<1> HIDE DEF m, x
<1>5. ReplyOf(x) = ReplyOf(m)
  BY <1>1, SameReply DEF Continues
<1>6. Generating(x) /\ Clean(x) => Generating(m) /\ Clean(m)
  BY <1>1, <1>5 DEF Continues, Clean
<1>7. x.parts \subseteq {ReplyOf(x)} \union loose'
  <2>1. k \in loose' \/ k = ReplyOf(m)
    BY <1>1, Awaited DEF m
  <2> QED
    BY <1>1, <1>4, <1>5, <2>1 DEF Continues, Fine
<1>8. x.status = "incomplete" /\ Clean(x) => ReplyOf(x) \notin Fetching'
  <2> SUFFICES ASSUME x.status = "incomplete", Clean(x) PROVE ReplyOf(x) \notin Fetching
    BY <1>1
  <2>1. Generating(m) /\ Clean(m)
    BY <1>6 DEF Generating
  <2>2. CASE m.status = "incomplete"
    BY <1>4, <1>5, <2>1, <2>2 DEF Fine
  <2>3. CASE m.status = "loading"
    <3>1. request[k] = "stream" /\ k \in x.parts
      BY <1>1, <2>3 DEF Continues, Generating
    <3> QED
      BY <3>1 DEF Clean, Fetching
  <2> QED
    BY <2>1, <2>2, <2>3 DEF Generating
<1>9. x.uid <= 2 * sent' + 1 /\ (x.uid <= 1 <=> x.id < FirstId)
  BY <1>1, <1>4 DEF Continues, Fine
<1>10. Fine(x, sent', loose', Fetching')
  BY <1>7, <1>8, <1>9 DEF Fine
<1> QED
  BY <1>3, <1>4, <1>5, <1>6, <1>10 DEF m, x

\* The answer leaves the conversation in order: what is still being generated is the last
\* message, and its request is still open.
LEMMA AnswerSpinner ==
    ASSUME ChatType, ListsInv, AwaitInv, SpinnerIsLast, NEW k, Answer(k)
    PROVE  SpinnerIsLast' /\ ListOK(message', sent', loose', Fetching', Excused')
<1>1. /\ message \in Seq(Messages) /\ message' \in Seq(Messages) /\ Len(message') = Len(message)
      /\ \A i \in 1..Len(message) : i # Len(message) => message'[i] = message[i]
      /\ Open \ {k} \subseteq Open' /\ sent' = sent
  BY DEF Answer, Answered, ChatType, TypeOK
<1>2. Len(message) \in Nat /\ DOMAIN message = 1..Len(message) /\ DOMAIN message' = 1..Len(message)
  BY <1>1, LenProperties
<1>3. Excused => Excused'
  BY DEF Answer, Excused
<1>4. ASSUME NEW i \in 1..Len(message), Generating(message[i]), Clean(message[i])
      PROVE  Excused \/ (i = Len(message) /\ ReplyOf(message[i]) \in Open)
  BY <1>2, <1>4 DEF SpinnerIsLast, Excused, Clean
<1>5. ASSUME NEW i \in 1..Len(message), Generating(message'[i]), Clean(message'[i])
      PROVE  Excused' \/ (i = Len(message) /\ ReplyOf(message'[i]) \in Open')
  <2>1. CASE i # Len(message)
    BY <1>1, <1>3, <1>4, <1>5, <2>1
  <2>2. CASE i = Len(message)
    <3>1. message # <<>> /\ message' # <<>>
      BY <1>1, <1>2, NotEmpty, SameLength
    <3>2. message'[i] = Last(message') /\ message[i] = Last(message)
      BY <1>1, <2>2 DEF Last
    <3>3. /\ Generating(message[i]) /\ Clean(message[i]) /\ ReplyOf(message'[i]) = ReplyOf(message[i])
          /\ Fine(message[i], sent, loose, Fetching)
      BY <1>5, <3>1, <3>2, AnswerLast
    <3>4. Excused \/ ReplyOf(message[i]) \in Open
      BY <1>4, <3>3
    <3>5. CASE ReplyOf(message[i]) = k
      <4>1. LastGenerating'
        BY <1>5, <3>1, <3>2 DEF LastGenerating
      <4>2. k \in Open' \/ silent' \/ (k \in Fetching /\ message[i].status = "incomplete")
        BY <3>2, <4>1 DEF Answer
      <4>3. ~(k \in Fetching /\ message[i].status = "incomplete")
        BY <3>3, <3>5 DEF Fine
      <4> QED
        BY <2>2, <3>3, <3>5, <4>2, <4>3 DEF Excused
    <3> QED
      BY <1>1, <1>3, <2>2, <3>3, <3>4, <3>5
  <2> QED
    BY <2>1, <2>2
<1>6. SpinnerIsLast'
  <2> SUFFICES ASSUME NEW i \in 1..Len(message), Generating(message'[i]), Clean(message'[i])
               PROVE  (i = Len(message') /\ ReplyOf(message'[i]) \in Open') \/ Excused'
    BY <1>2 DEF SpinnerIsLast, Excused, Clean
  <2> QED
    BY <1>1, <1>5
<1>7. ListOK(message', sent', loose', Fetching', Excused')
  <2> SUFFICES ASSUME NEW i \in 1..Len(message)
               PROVE  /\ Fine(message'[i], sent', loose', Fetching')
                      /\ i < Len(message) /\ Generating(message'[i]) /\ Clean(message'[i]) => Excused'
    BY <1>1 DEF ListOK
  <2>0. i < Len(message) => i # Len(message)
    <3>1. \A n \in Nat : \A j \in 1..n : j < n => j # n
      OBVIOUS
    <3> QED
      BY <1>2, <3>1, Zenon
  <2>1. i < Len(message) /\ Generating(message'[i]) /\ Clean(message'[i]) => Excused'
    BY <2>0, <1>5
  <2>2. CASE i # Len(message)
    <3>1. message[i] \in Messages /\ Fine(message[i], sent, loose, Fetching) /\ message'[i] = message[i]
      BY <1>1, <2>2, ElementOfSeq DEF ListsInv, Lists, ListOK
    <3>2. sent \in Nat /\ sent <= sent' /\ loose \subseteq loose' /\ Fetching' \subseteq Fetching
      BY <1>1, ListsType DEF Answer
    <3> QED
      BY <1>1, <2>1, <3>1, <3>2, FineGrows
  <2>3. CASE i = Len(message)
    <3>1. message # <<>> /\ message'[i] = Last(message')
      BY <1>1, <2>3, NotEmpty DEF Last
    <3> QED
      BY <2>1, <3>1, AnswerLast
  <2> QED
    BY <2>2, <2>3
<1> QED
  BY <1>6, <1>7

\* An answer changes the conversation shown and at most adds it to the saves.
LEMMA AnswerLists ==
    ASSUME ChatType, ListsInv, AwaitInv, SpinnerIsLast, NEW k, Answer(k)
    PROVE  ListsInv'
<1>1. message' \in Seq(Messages) /\ Stores /\ dialog' = dialog
  BY DEF Answer, Answered
<1>2. Lists' \subseteq Lists \union {message'}
  BY <1>1, StoresStep, DialogLists
<1>3. ListOK(message', sent', loose', Fetching', Excused') /\ Grows
  BY AnswerSpinner, AnswerType
<1> QED
  BY <1>2, <1>3, ListsStep

\* A request is not forgotten silently.
LEMMA AnswerAwait == ASSUME ChatType, AwaitInv, CrashInv, NEW k, Answer(k) PROVE AwaitInv' /\ CrashInv'
<1>1. /\ message \in Seq(Messages) /\ message' \in Seq(Messages) /\ Len(message') = Len(message)
      /\ message # <<>> => Continues(Last(message), Last(message'), k, request[k])
      /\ k \in Open /\ Open' \subseteq Open /\ loose \subseteq loose'
      /\ crashed' => crashed \/ message = <<>>
      /\ \/ Open \subseteq loose'
         \/ k \notin Open' /\ Ends(k)
         \/ loose' = loose /\ (LastGenerating => LastGenerating')
  BY DEF Answer, Answered, ChatType, TypeOK
<1>2. AwaitInv'
  <2> SUFFICES ASSUME NEW j \in Unawaited', j \notin loose' PROVE FALSE
    BY DEF AwaitInv
  <2>1. j \in Open' /\ j \in Open /\ j \notin loose
    BY <1>1 DEF Unawaited
  <2>2. message # <<>> /\ Generating(Last(message)) /\ ReplyOf(Last(message)) = j
    BY <2>1, Awaited
  <2>3. CASE k \notin Open' /\ Ends(k)
    <3>1. k \notin loose
      BY <2>3 DEF Ends
    <3>2. ReplyOf(Last(message)) = k
      BY <1>1, <3>1, Awaited
    <3> QED
      BY <2>1, <2>2, <2>3, <3>2
  <2>4. CASE loose' = loose /\ (LastGenerating => LastGenerating')
    <3>1. LastGenerating'
      BY <2>2, <2>4 DEF LastGenerating
    <3>2. ReplyOf(Last(message')) = ReplyOf(Last(message))
      BY <1>1, <2>2, SameReply DEF Continues
    <3> QED
      BY <2>2, <3>1, <3>2 DEF Unawaited
  <2> QED
    BY <1>1, <2>1, <2>3, <2>4
<1>3. CrashInv'
  <2>1. message = <<>> => k \in loose
    BY <1>1, Awaited
  <2> QED
    BY <1>1, <2>1 DEF CrashInv
<1> QED
  BY <1>2, <1>3

\* Nothing that arrives makes a message be generated again.
LEMMA AnswerStatus ==
    ASSUME ChatType, NEW k, Answer(k), NEW i \in 1..Len(message)
    PROVE  /\ message'[i].uid = message[i].uid /\ message'[i].id = message[i].id
           /\ message'[i].role = message[i].role /\ ReplyOf(message'[i]) = ReplyOf(message[i])
           /\ Generating(message'[i]) => Generating(message[i])
           /\ message'[i].status = "loading" => message[i].status = "loading"
<1>1. /\ message \in Seq(Messages) /\ message' \in Seq(Messages) /\ Len(message') = Len(message)
      /\ \A j \in 1..Len(message) : j # Len(message) => message'[j] = message[j]
      /\ message # <<>> => Continues(Last(message), Last(message'), k, request[k])
  BY DEF Answer, Answered, ChatType, TypeOK
<1>2. CASE i # Len(message)
  BY <1>1, <1>2
<1>3. CASE i = Len(message)
  <2>1. message # <<>> /\ message'[i] = Last(message') /\ message[i] = Last(message)
    BY <1>1, <1>3, NotEmpty DEF Last
  <2>2. Continues(message[i], message'[i], k, request[k])
    BY <1>1, <2>1
  <2> QED
    BY <2>2, SameReply DEF Continues, Generating
<1> QED
  BY <1>2, <1>3

\* An answer does not begin to generate the exchange that is being edited.
LEMMA AnswerEdit == ASSUME ChatType, EditInv, NEW k, Answer(k) PROVE EditInv'
<1>1. editing' = editing /\ sent' = sent /\ Len(message') = Len(message)
  BY DEF Answer, Answered
<1> SUFFICES ASSUME editing # NoMessage PROVE EditInv'
  BY <1>1 DEF EditInv
<1>2. \A i \in 1..Len(message) :
        message'[i].id = editing.id /\ ReplyOf(message'[i]) = ReplyOf(editing) => ~Generating(message'[i])
  BY AnswerStatus DEF EditInv
<1> QED
  BY <1>1, <1>2 DEF EditInv

\* An answer changes nothing that the user said.
LEMMA AnswerWords == ASSUME ChatType, WordsInv, NEW k, Answer(k) PROVE WordsInv'
<1>1. /\ message \in Seq(Messages) /\ message' \in Seq(Messages) /\ Len(message) = Len(message')
      /\ Stores /\ resend' = resend /\ wiped' = wiped
  BY DEF Answer, Answered, ChatType, TypeOK
<1>2. \A i \in 1..Len(message) : /\ message[i].uid = message'[i].uid
                                 /\ message[i].role = "user" <=> message'[i].role = "user"
  BY AnswerStatus
<1>3. Uids(Said(message')) = Uids(Said(message))
  BY <1>1, <1>2, SaidSame
<1> QED
  BY <1>1, <1>3, WordsStep

\* When the request ends that the list of the edit dialog waits for, the conversation has
\* visibly gone on.
LEMMA AnswerKeepsDialog ==
    ASSUME ChatType, ListsInv, DialogInv, NEW k, Answer(k)
    PROVE  DialogInv'
<1>1. /\ message \in Seq(Messages) /\ message' \in Seq(Messages) /\ Len(message') = Len(message)
      /\ dialog' = dialog /\ editing' = editing /\ Open \ {k} \subseteq Open' /\ (Excused => Excused')
  BY DEF Answer, Answered, ChatType, TypeOK, Excused
<1> SUFFICES ASSUME dialog.kind = "edit" PROVE DialogInv'
  BY <1>1 DEF DialogInv
<1> DEFINE L == dialog.list
<1>2. /\ L \in Seq(Messages) /\ L \in Lists /\ dialog.index \in Int
      /\ editing = NoMessage /\ dialog.index < Len(L) /\ Len(L) <= Len(message)
      /\ \A i \in 1..Len(L) : Generating(L[i]) /\ Clean(L[i]) =>
            Excused \/ (i = Len(L) /\ (ReplyOf(L[i]) \in Open \/ Moved(L)))
  BY DEF DialogInv, ChatType, Lists
<1> HIDE DEF L
<1>3. Moved(L) => Moved(L)'
  <2> SUFFICES ASSUME Moved(L), Len(message) = Len(L) PROVE Moved(L)'
    BY <1>1 DEF Moved, L
  <2>1. CASE message = <<>>
    <3>1. message' = message
      BY <1>1, <2>1, EmptySeq
    <3> QED
      BY <1>1, <3>1 DEF Moved, L
  <2>2. CASE message # <<>>
    <3>1. Len(message) \in 1..Len(message)
      BY <1>1, <2>2, LastIn
    <3>2. Last(message') = message'[Len(message)] /\ Last(message) = message[Len(message)]
      BY <1>1 DEF Last
    <3>3. /\ Generating(Last(message')) => Generating(Last(message))
          /\ Last(message').status = "loading" => Last(message).status = "loading"
      BY <3>1, <3>2, AnswerStatus
    <3>4. L' = L
      BY <1>1 DEF L
    <3> QED
      BY <3>3, <3>4 DEF Moved
  <2> QED
    BY <2>1, <2>2
<1>4. ASSUME NEW i \in 1..Len(L), Generating(L[i]), Clean(L[i])
      PROVE  Excused' \/ (i = Len(L) /\ (ReplyOf(L[i]) \in Open' \/ Moved(L)'))
  <2>1. CASE Excused
    BY <1>1, <2>1
  <2>2. CASE i = Len(L) /\ Moved(L)
    BY <1>3, <2>2
  <2>3. CASE i = Len(L) /\ ReplyOf(L[i]) \in Open /\ ReplyOf(L[i]) # k
    BY <1>1, <2>3
  <2>4. CASE i = Len(L) /\ ReplyOf(L[i]) = k /\ ~Moved(L)
    <3>0. Last(L) = L[i] /\ L' = L
      BY <1>1, <2>4 DEF Last, L
    <3>1. Len(message) = Len(L) /\ Generating(Last(message))
          /\ ~(L[i].status = "loading" /\ Last(message).status # "loading")
      BY <2>4, <3>0 DEF Moved
    <3>2. k \in Open' \/ silent' \/ ~LastGenerating' \/ (k \in Fetching /\ Last(message).status = "incomplete")
      BY DEF Answer
    <3>3. CASE ~LastGenerating'
      <4>1. i \in 1..Len(message')
        BY <1>1, <2>4, <3>1
      <4>2. message' # <<>>
        BY <1>1, <4>1, NotEmpty
      <4>3. ~Generating(Last(message'))
        BY <3>3, <4>2 DEF LastGenerating
      <4> QED
        BY <2>4, <4>3 DEF Moved
    <3>4. CASE k \in Fetching /\ Last(message).status = "incomplete"
      <4>1. L[i].status = "incomplete"
        BY <1>4, <3>1, <3>4 DEF Generating
      <4>2. Fine(L[i], sent, loose, Fetching)
        BY <1>2 DEF ListsInv, ListOK
      <4> QED
        BY <1>4, <2>4, <3>4, <4>1, <4>2 DEF Fine
    <3> QED
      BY <2>4, <3>2, <3>3, <3>4 DEF Excused
  <2> QED
    BY <1>2, <1>4, <2>1, <2>2, <2>3, <2>4
<1>5. dialog'.list = L /\ L' = L
  BY <1>1 DEF L
<1> QED
  BY <1>1, <1>2, <1>4, <1>5 DEF DialogInv

\* Answers keep the invariant.
LEMMA AnswerStep == ASSUME ChatInv, NEW k, Answer(k) PROVE ChatInv'
<1>1. /\ ChatType /\ ListsInv /\ AwaitInv /\ CrashInv
      /\ EditInv /\ DialogInv /\ SpinnerIsLast /\ WordsInv
  BY DEF ChatInv
<1>2. ChatType'
  BY <1>1, AnswerType
<1>3. ListsInv' /\ SpinnerIsLast'
  BY <1>1, AnswerLists, AnswerSpinner
<1>4. AwaitInv' /\ CrashInv'
  BY <1>1, AnswerAwait
<1>5. EditInv' /\ DialogInv' /\ WordsInv'
  BY <1>1, AnswerEdit, AnswerKeepsDialog, AnswerWords
<1> QED
  BY <1>2, <1>3, <1>4, <1>5 DEF ChatInv
-----------------------------------------------------------------------------
(* What the user does to the conversation.                                 *)

\* A message that a rewriting of the conversation keeps.
Keeps(m, x) ==
    /\ x \in Messages /\ x.uid = m.uid /\ x.id = m.id /\ x.parts = m.parts
    /\ Generating(x) => x = m

\* A step of the user that ends, removes or marks messages, or puts the default ones in their
\* place. What it does not end stays the last message and its request stays open.
Rewrite ==
    /\ message' \in Seq(Messages)
    /\ \/ message' = Default
       \/ \A j \in 1..Len(message') : \E i \in 1..Len(message) :
            /\ Keeps(message[i], message'[j])
            /\ Generating(message'[j]) /\ i = Len(message) => j = Len(message') /\ Open' = Open
    /\ Unawaited' \subseteq loose' /\ loose \subseteq loose' /\ loose' \subseteq Requests
    /\ Fetching' \subseteq Fetching
    /\ Stores
    /\ dialog' = NoDialog /\ (dialog = NoDialog \/ dialog.kind = "delete")
    /\ UNCHANGED <<editing, sent, crashed, silent, stale, crossed, nextId, chunks>>
    /\ request' \in [Requests -> {"none", "stream", "fetch", "closed"}]
    /\ sseRef' \in {0, sseRef} /\ resend' \in Seq({"send", "reply"})
    /\ \/ saves' = Append(saves, message')
       \/ message' = message /\ resend' = resend /\ (wiped => wiped')
       \/ wiped'
       \/ \E i \in 1..Len(resend') : resend'[i] = "send"

\* The types after a change by the user.
LEMMA RewriteType == ASSUME ChatType, Rewrite PROVE ChatType' /\ Grows
<1>1. /\ message' \in Seq(Messages) /\ Stores /\ dialog' = NoDialog
      /\ UNCHANGED <<editing, sent, crashed, silent, stale, crossed, nextId, chunks>>
      /\ loose' \subseteq Requests /\ sseRef' \in {0, sseRef} /\ resend' \in Seq({"send", "reply"})
      /\ request' \in [Requests -> {"none", "stream", "fetch", "closed"}]
  BY DEF Rewrite
<1>2. /\ saves' \in Seq(Seq(Messages)) /\ stored' \in Seq(Messages) \union {Nothing}
      /\ Len(saves') <= MaxSaves + 1
  BY <1>1, StoresStep
<1>3. sseRef' \in 0..sent' /\ dialog'.kind = "none"
  BY <1>1, NoDialogKind DEF ChatType, TypeOK
<1>4. TypeOK'
  BY <1>1, <1>2, <1>3 DEF ChatType, TypeOK
<1>5. ChatType'
  BY <1>1, <1>3, <1>4 DEF ChatType
<1>6. /\ loose \subseteq loose' /\ (Excused => Excused') /\ Fetching' \subseteq Fetching
  BY <1>1 DEF Rewrite, Excused
<1>7. Grows
  <2>1. sent \in Nat /\ sent' = sent
    BY <1>1, ListsType
  <2> QED
    BY <1>6, <2>1 DEF Grows
<1> QED
  BY <1>5, <1>7

\* A message that was kept is still fine.
LEMMA KeepsFine ==
    ASSUME NEW m \in Messages, NEW x, Keeps(m, x), NEW n, NEW left, NEW fetching, Fine(m, n, left, fetching)
    PROVE  Fine(x, n, left, fetching) /\ ReplyOf(x) = ReplyOf(m)
<1>1. ReplyOf(x) = ReplyOf(m)
  BY SameReply DEF Keeps
<1> QED
  BY <1>1 DEF Keeps, Fine, Clean, Generating

\* What a change by the user leaves being generated is still last and its request open.
LEMMA RewriteSpinner ==
    ASSUME ChatType, ListsInv, SpinnerIsLast, Rewrite
    PROVE  SpinnerIsLast' /\ ListOK(message', sent', loose', Fetching', Excused')
<1>1. /\ message \in Seq(Messages) /\ message' \in Seq(Messages) /\ (Excused => Excused')
      /\ sent' = sent /\ sent \in Nat /\ loose \subseteq loose' /\ Fetching' \subseteq Fetching
  BY ListsType DEF Rewrite, ChatType, TypeOK, Excused
<1>2. /\ DOMAIN message = 1..Len(message) /\ DOMAIN message' = 1..Len(message')
      /\ Len(message) \in Nat /\ Len(message') \in Nat
  BY <1>1, LenProperties
<1>3. CASE message' = Default
  <2>1. \A i \in 1..Len(message') : ~Generating(message'[i])
    BY <1>3, DefaultOK
  <2>2. SpinnerIsLast'
    BY <1>2, <2>1 DEF SpinnerIsLast
  <2> QED
    BY <1>1, <1>3, <2>2, DefaultOK
<1>4. CASE \A j \in 1..Len(message') : \E i \in 1..Len(message) :
            /\ Keeps(message[i], message'[j])
            /\ Generating(message'[j]) /\ i = Len(message) => j = Len(message') /\ Open' = Open
  <2>1. ASSUME NEW j \in 1..Len(message')
        PROVE  /\ Fine(message'[j], sent', loose', Fetching')
               /\ Generating(message'[j]) /\ Clean(message'[j]) =>
                    Excused' \/ (j = Len(message') /\ ReplyOf(message'[j]) \in Open')
    <3>1. PICK i \in 1..Len(message) :
            /\ Keeps(message[i], message'[j])
            /\ Generating(message'[j]) /\ i = Len(message) => j = Len(message') /\ Open' = Open
      BY <1>4
    <3>2. message[i] \in Messages /\ Fine(message[i], sent, loose, Fetching)
      BY <1>1, ElementOfSeq DEF ListsInv, Lists, ListOK
    <3>3. Fine(message'[j], sent, loose, Fetching) /\ message'[j] \in Messages
      BY <3>1, <3>2, KeepsFine DEF Keeps
    <3>4. Fine(message'[j], sent', loose', Fetching')
      BY <1>1, <3>3, FineGrows
    <3>5. ASSUME Generating(message'[j]), Clean(message'[j])
          PROVE  Excused' \/ (j = Len(message') /\ ReplyOf(message'[j]) \in Open')
      <4>1. message'[j] = message[i]
        BY <3>1, <3>5 DEF Keeps
      <4>2. Excused \/ (i = Len(message) /\ ReplyOf(message[i]) \in Open)
        BY <1>2, <3>5, <4>1 DEF SpinnerIsLast, Excused, Clean
      <4> QED
        BY <1>1, <3>1, <3>5, <4>1, <4>2
    <3> QED
      BY <3>4, <3>5
  <2>2. SpinnerIsLast'
    <3> SUFFICES ASSUME NEW i \in 1..Len(message'), Generating(message'[i]), Clean(message'[i])
                 PROVE  (i = Len(message') /\ ReplyOf(message'[i]) \in Open') \/ Excused'
      BY <1>2 DEF SpinnerIsLast, Excused, Clean
    <3> QED
      BY <2>1
  <2>3. ListOK(message', sent', loose', Fetching', Excused')
    <3>1. \A n \in Nat : \A j \in 1..n : j < n => j # n
      OBVIOUS
    <3>2. \A j \in 1..Len(message') : j < Len(message') => j # Len(message')
      BY <1>2, <3>1, Zenon
    <3> QED
      BY <2>1, <3>2 DEF ListOK
  <2> QED
    BY <2>2, <2>3
<1> QED
  BY <1>3, <1>4 DEF Rewrite

\* The user's changes keep the invariant.
LEMMA RewriteStep == ASSUME ChatInv, Rewrite PROVE ChatInv'
<1>1. /\ ChatType /\ ListsInv /\ AwaitInv /\ CrashInv
      /\ EditInv /\ DialogInv /\ SpinnerIsLast /\ WordsInv
  BY DEF ChatInv
<1>2. ChatType' /\ Grows
  BY <1>1, RewriteType
<1>3. SpinnerIsLast' /\ ListOK(message', sent', loose', Fetching', Excused')
  BY <1>1, RewriteSpinner
<1>4. /\ message' \in Seq(Messages) /\ Stores /\ dialog' = NoDialog /\ dialog'.kind # "edit"
      /\ message \in Seq(Messages)
  BY <1>1, NoDialogKind DEF Rewrite, ChatType, TypeOK
<1>5. ListsInv'
  <2>1. Lists' \subseteq Lists \union {message'}
    BY <1>1, <1>4, StoresStep, DialogLists
  <2> QED
    BY <1>1, <1>2, <1>3, <2>1, ListsStep
<1>6. AwaitInv' /\ CrashInv'
  BY <1>1 DEF Rewrite, AwaitInv, CrashInv
<1>7. EditInv'
  <2>1. editing' = editing /\ sent' = sent
    BY DEF Rewrite
  <2> SUFFICES ASSUME editing # NoMessage, NEW j \in 1..Len(message'),
                      message'[j].id = editing.id, ReplyOf(message'[j]) = ReplyOf(editing),
                      Generating(message'[j])
               PROVE  FALSE
    BY <1>1, <2>1 DEF EditInv
  <2>2. CASE message' = Default
    BY <2>2, DefaultOK
  <2>3. CASE \E i \in 1..Len(message) : Keeps(message[i], message'[j])
    <3>1. PICK i \in 1..Len(message) : message'[j] = message[i]
      BY <2>3 DEF Keeps
    <3> QED
      BY <1>1, <3>1 DEF EditInv
  <2> QED
    BY <2>2, <2>3 DEF Rewrite
<1>8. DialogInv'
  BY <1>4 DEF DialogInv
<1>9. WordsInv'
  BY <1>1, <1>4, WordsStep DEF Rewrite
<1> QED
  BY <1>2, <1>3, <1>5, <1>6, <1>7, <1>8, <1>9 DEF ChatInv

\* A message is kept as it is.
LEMMA KeepsSelf == ASSUME NEW m \in Messages PROVE Keeps(m, m)
  BY DEF Keeps

\* The conversation is left as it is.
LEMMA KeepsAll ==
    ASSUME ChatType, message' = message, Open' = Open
    PROVE  \A j \in 1..Len(message') : \E i \in 1..Len(message) :
            /\ Keeps(message[i], message'[j])
            /\ Generating(message'[j]) /\ i = Len(message) => j = Len(message') /\ Open' = Open
<1>1. message \in Seq(Messages)
  BY DEF ChatType, TypeOK
<1>2. \A j \in 1..Len(message) : Keeps(message[j], message[j])
  BY <1>1, ElementOfSeq, KeepsSelf
<1> QED
  BY <1>2

\* What is unawaited is open.
LEMMA OpenLoose == ASSUME Open' \subseteq loose' PROVE Unawaited' \subseteq loose'
  BY DEF Unawaited

\* If nothing is being generated, every open request has been left open.
LEMMA QuietLoose == ASSUME ChatType, AwaitInv, ~AnyGenerating PROVE Open \subseteq loose
<1>1. message \in Seq(Messages)
  BY DEF ChatType, TypeOK
<1>2. ~LastGenerating
  <2> SUFFICES ASSUME message # <<>>, Generating(Last(message)) PROVE FALSE
    BY DEF LastGenerating
  <2>1. Len(message) \in DOMAIN message /\ Last(message) = message[Len(message)]
    BY <1>1, LastIn, LenProperties
  <2> QED
    BY <2>1 DEF AnyGenerating
<1> QED
  BY <1>2 DEF AwaitInv, Unawaited

\* Stop ends the last message, and leaves every request open but the stream it closes.
LEMMA StopRewrites == ASSUME ChatType, Stop PROVE Rewrite
<1> DEFINE m == Last(message)
           x == [m EXCEPT !.status = "complete"]
<1>1. message \in Seq(Messages) /\ message # <<>>
  BY DEF ChatType, TypeOK, LastGenerating, Stop
<1>2. m \in Messages /\ m = message[Len(message)] /\ Len(message) \in Nat \ {0}
  BY <1>1, LastIn
<1>3. x \in Messages /\ x.uid = m.uid /\ x.id = m.id /\ x.parts = m.parts /\ x.status = "complete"
  BY <1>2, NewStatus
<1>4. message' = Front(message) \o <<x>> /\ saves' = Append(saves, message')
  BY DEF SetLast, Save, Stop
<1> HIDE DEF m, x
<1>5. /\ message' \in Seq(Messages) /\ Len(message') = Len(message) /\ message'[Len(message)] = x
      /\ \A i \in 1..Len(message) : i # Len(message) => message'[i] = message[i]
  <2>1. x \in Messages /\ message' = Front(message) \o <<x>>
    BY <1>3, <1>4
  <2>2. LET new == Front(message) \o <<x>>
        IN /\ new \in Seq(Messages) /\ Len(new) = Len(message) /\ new[Len(message)] = x
           /\ \A i \in 1..Len(message) : i # Len(message) => new[i] = message[i]
    BY <1>1, <2>1, ReplaceLast
  <2> QED
    BY <2>1, <2>2
<1> USE DEF Stop, Reacts, page
<1>6. \A j \in 1..Len(message') : \E i \in 1..Len(message) :
            /\ Keeps(message[i], message'[j])
            /\ Generating(message'[j]) /\ i = Len(message) => j = Len(message') /\ Open' = Open
  <2> SUFFICES ASSUME NEW j \in 1..Len(message)
               PROVE  /\ Keeps(message[j], message'[j])
                      /\ ~(Generating(message'[j]) /\ j = Len(message))
    BY <1>5
  <2>1. CASE j = Len(message)
    BY <1>2, <1>3, <1>5, <2>1 DEF Keeps, Generating
  <2>2. CASE j # Len(message)
    BY <1>1, <1>5, <2>2, ElementOfSeq, KeepsSelf
  <2> QED
    BY <2>1, <2>2
<1>7. /\ request' \in [Requests -> {"none", "stream", "fetch", "closed"}]
      /\ Open' \subseteq Open \ {sseRef} /\ Fetching' \subseteq Fetching
  <2>1. sseRef # 0 => sseRef \in Requests
    BY BoundAssumption DEF ChatType, TypeOK, Requests
  <2>2. CASE sseRef = 0
    <3>1. 0 \notin Open
      BY BoundAssumption DEF Open, Requests
    <3> QED
      BY <2>2, <3>1 DEF ChatType, TypeOK, Open, Fetching
  <2>3. CASE sseRef # 0
    BY <2>1, <2>3, Closing DEF ChatType
  <2> QED
    BY <2>2, <2>3
<1>8. /\ Unawaited' \subseteq loose' /\ loose \subseteq loose' /\ loose' \subseteq Requests
  BY <1>7, OpenLoose DEF ChatType, TypeOK, Open
<1>9. Stores /\ dialog' = NoDialog /\ dialog = NoDialog /\ resend' \in Seq({"send", "reply"})
  BY <1>4 DEF Stores, ChatType, TypeOK
<1> QED
  BY <1>4, <1>5, <1>6, <1>7, <1>8, <1>9 DEF Rewrite

\* Clearing removes all messages and leaves every open request behind.
LEMMA ClearRewrites == ASSUME ChatType, Clear PROVE Rewrite
<1> USE DEF Clear, Reacts, page, network
<1>1. message' \in Seq(Messages) /\ Len(message') = 0 /\ saves' = Append(saves, message')
  BY DEF Save
<1>2. /\ \A j \in 1..Len(message') : \E i \in 1..Len(message) :
            /\ Keeps(message[i], message'[j])
            /\ Generating(message'[j]) /\ i = Len(message) => j = Len(message') /\ Open' = Open
  BY <1>1
<1>3. /\ Open' = Open /\ Fetching' = Fetching
      /\ request' \in [Requests -> {"none", "stream", "fetch", "closed"}]
  BY NotClosing DEF ChatType
<1>4. /\ Unawaited' \subseteq loose' /\ loose \subseteq loose' /\ loose' \subseteq Requests
  BY <1>3, OpenLoose DEF ChatType, TypeOK, Open
<1>5. Stores /\ dialog' = NoDialog /\ dialog = NoDialog /\ resend' \in Seq({"send", "reply"})
  BY <1>1 DEF Stores, ChatType, TypeOK
<1> QED
  BY <1>1, <1>2, <1>3, <1>4, <1>5 DEF Rewrite

\* The user message at or before a position is one of the conversation.
LEMMA PromptRange ==
    ASSUME ChatType, NEW i \in DOMAIN message, Prompt(i) > 0
    PROVE  Prompt(i) \in 1..Len(message)
<1> DEFINE I == {j \in 1..i : message[j].role = "user"}
<1>1. message \in Seq(Messages) /\ Len(message) \in Nat /\ i \in 1..Len(message)
  BY LenProperties DEF ChatType, TypeOK
<1>2. I \in SUBSET (1..Len(message))
  BY <1>1
<1>3. Prompt(i) = IF I # {} THEN Max(I) ELSE 0
  BY DEF Prompt, SelectLastInSubSeq
<1> HIDE DEF I
<1>4. I # {}
  BY <1>3
<1> QED
  BY <1>1, <1>2, <1>3, <1>4, FirstAndLast

\* A regeneration keeps the messages before the prompt.
LEMMA ResetRewrites ==
    ASSUME ChatType, AwaitInv, NEW i \in DOMAIN message, Reset(i) PROVE Rewrite
<1>1. /\ message \in Seq(Messages) /\ Len(message) \in Nat /\ DOMAIN message = 1..Len(message)
      /\ \A j \in 1..Len(message) : message[j] \in Messages
  BY LenProperties, ElementOfSeq DEF ChatType, TypeOK
<1>2. PICK p \in 1..Len(message) : p = Prompt(i)
  BY PromptRange DEF Reset
<1>3. message' = SubSeq(message, 1, p - 1)
  BY <1>2 DEF Reset
<1>4. /\ message' \in Seq(Messages) /\ Len(message') = p - 1
      /\ \A j \in 1..p - 1 : message'[j] = message[j]
  <2>1. PICK q \in 0..Len(message) : q = p - 1
    BY <1>1
  <2>2. PICK new : new = message'
    OBVIOUS
  <2>3. new = SubSeq(message, 1, q)
    BY <1>3, <2>1, <2>2
  <2>4. new \in Seq(Messages) /\ Len(new) = q /\ \A j \in 1..q : new[j] = message[j]
    BY <1>1, <2>3, Prefix
  <2> QED
    BY <2>1, <2>2, <2>4
<1> USE DEF Reset, Enabled, Reacts, page, network
<1>5. \A j \in 1..Len(message') : \E n \in 1..Len(message) :
            /\ Keeps(message[n], message'[j])
            /\ Generating(message'[j]) /\ n = Len(message) => j = Len(message') /\ Open' = Open
  <2> SUFFICES ASSUME NEW j \in 1..p - 1
               PROVE  j \in 1..Len(message) /\ Keeps(message[j], message'[j]) /\ j # Len(message)
    BY <1>4
  <2>1. j \in 1..Len(message) /\ j # Len(message)
    <3>1. \A n \in Nat : \A q \in 1..n : \A a \in 1..q - 1 : a \in 1..n /\ a # n
      OBVIOUS
    <3> QED
      BY <1>1, <3>1, Zenon
  <2> QED
    BY <1>1, <1>4, <2>1, KeepsSelf
<1>6. /\ Open' = Open /\ Fetching' = Fetching
      /\ request' \in [Requests -> {"none", "stream", "fetch", "closed"}]
  BY NotClosing DEF ChatType
<1>7. /\ Unawaited' \subseteq loose' /\ loose \subseteq loose' /\ loose' \subseteq Requests
  BY <1>6, OpenLoose DEF ChatType, TypeOK, Open
<1>8. Stores /\ dialog' = NoDialog /\ dialog = NoDialog
  BY DEF Stores
<1>9. /\ resend' \in Seq({"send", "reply"})
      /\ \E j \in 1..Len(resend') : resend'[j] = "send"
  <2>1. resend' = Append(resend, "send") /\ resend \in Seq({"send", "reply"})
    BY DEF ChatType, TypeOK
  <2>2. /\ resend' \in Seq({"send", "reply"}) /\ Len(resend') = Len(resend) + 1 /\ Len(resend) \in Nat
        /\ resend'[Len(resend) + 1] = "send"
    BY <2>1, AppendProperties, LenProperties
  <2>3. Len(resend) + 1 \in 1..Len(resend')
    BY <2>2
  <2> QED
    BY <2>2, <2>3
<1> QED
  BY <1>4, <1>5, <1>6, <1>7, <1>8, <1>9 DEF Rewrite

\* A change of role touches messages that are not being generated.
LEMMA RoleRewrites ==
    ASSUME ChatType, AwaitInv, NEW i \in DOMAIN message, RoleToggle(i) PROVE Rewrite
<1> USE DEF Enabled, Reacts, page, network
<1> DEFINE role == IF message[i].role = "assistant" THEN "system" ELSE "assistant"
           Turned(m) == IF m.id = message[i].id /\ m.role # "user" THEN [m EXCEPT !.role = role] ELSE m
<1>1. /\ message \in Seq(Messages) /\ Len(message) \in Nat /\ DOMAIN message = 1..Len(message)
      /\ \A j \in 1..Len(message) : message[j] \in Messages
  BY LenProperties, ElementOfSeq DEF ChatType, TypeOK
<1>2. message' = [j \in DOMAIN message |-> Turned(message[j])] /\ saves' = Append(saves, message')
  BY DEF RoleToggle, Save
<1>3. ASSUME NEW m \in Messages, ~Generating(m) PROVE Keeps(m, Turned(m)) /\ ~Generating(Turned(m))
  <2>1. role \in {"user", "assistant", "system"}
    OBVIOUS
  <2> HIDE DEF role
  <2>2. CASE m.id = message[i].id /\ m.role # "user"
    <3>1. LET x == [m EXCEPT !.role = role]
          IN /\ x \in Messages /\ x.uid = m.uid /\ x.id = m.id /\ x.status = m.status /\ x.parts = m.parts
      BY <2>1, NewRole
    <3> QED
      BY <1>3, <2>2, <3>1 DEF Keeps, Generating
  <2>3. CASE ~(m.id = message[i].id /\ m.role # "user")
    BY <1>3, <2>3, KeepsSelf
  <2> QED
    BY <2>2, <2>3
<1> HIDE DEF Turned
<1>4. \A j \in 1..Len(message) : ~Generating(message[j])
  BY <1>1 DEF RoleToggle, AnyGenerating
<1>5. \A j \in 1..Len(message) : Keeps(message[j], Turned(message[j])) /\ ~Generating(Turned(message[j]))
  BY <1>1, <1>3, <1>4
<1>6. /\ message' \in Seq(Messages) /\ Len(message') = Len(message)
      /\ \A j \in 1..Len(message) : message'[j] = Turned(message[j])
  <2>1. message' = [j \in 1..Len(message) |-> Turned(message[j])]
    BY <1>1, <1>2
  <2>2. \A j \in 1..Len(message) : Turned(message[j]) \in Messages
    BY <1>5 DEF Keeps
  <2> QED
    BY <1>1, <2>1, <2>2
<1>7. \A j \in 1..Len(message') : \E n \in 1..Len(message) :
            /\ Keeps(message[n], message'[j])
            /\ Generating(message'[j]) /\ n = Len(message) => j = Len(message') /\ Open' = Open
  BY <1>5, <1>6
<1>8. /\ Open' = Open /\ Fetching' = Fetching
      /\ request' \in [Requests -> {"none", "stream", "fetch", "closed"}]
  BY NotClosing DEF ChatType, RoleToggle
<1>9. /\ Unawaited' \subseteq loose' /\ loose \subseteq loose' /\ loose' \subseteq Requests
  BY <1>8, QuietLoose, OpenLoose DEF ChatType, TypeOK, RoleToggle
<1>10. Stores /\ dialog' = NoDialog /\ dialog = NoDialog /\ resend' \in Seq({"send", "reply"})
  BY <1>2 DEF Stores, RoleToggle, ChatType, TypeOK
<1> QED
  BY <1>2, <1>6, <1>7, <1>8, <1>9, <1>10 DEF Rewrite, RoleToggle

\* A deletion keeps the other messages in their order.
LEMMA DeleteRewrites == ASSUME ChatType, Delete PROVE Rewrite
<1> USE DEF network
<1>1. message \in Seq(Messages)
  BY DEF ChatType, TypeOK
<1>2. /\ Open' = Open /\ Fetching' = Fetching
      /\ request' \in [Requests -> {"none", "stream", "fetch", "closed"}]
  BY NotClosing DEF ChatType, Delete
<1>3. \/ message' = message /\ saves' = saves
      \/ (\E at : message' = Keep(message, at)) /\ saves' = Append(saves, message')
  BY DEF Delete, Save
<1>4. /\ message' \in Seq(Messages)
      /\ \A j \in 1..Len(message') : \E i \in 1..Len(message) :
            /\ Keeps(message[i], message'[j])
            /\ Generating(message'[j]) /\ i = Len(message) => j = Len(message') /\ Open' = Open
  <2>1. CASE message' = message
    BY <1>1, <1>2, <2>1, KeepsAll
  <2>2. CASE \E at : message' = Keep(message, at)
    <3>1. /\ message' \in Seq(Messages)
          /\ \A j \in 1..Len(message') : \E i \in 1..Len(message) :
                message'[j] = message[i] /\ (i = Len(message) => j = Len(message'))
      BY <1>1, <2>2, KeepOrigin
    <3>2. \A i \in 1..Len(message) : Keeps(message[i], message[i])
      BY <1>1, ElementOfSeq, KeepsSelf
    <3> QED
      BY <1>2, <3>1, <3>2
  <2> QED
    BY <1>3, <2>1, <2>2
<1>5. /\ Unawaited' \subseteq loose' /\ loose \subseteq loose' /\ loose' \subseteq Requests
  BY <1>2 DEF Delete, ChatType, TypeOK, Unawaited, Open
<1>6. dialog' = NoDialog /\ dialog.kind = "delete" /\ resend' = resend
      /\ stored' = stored /\ wiped' = wiped /\ dropped' = dropped
  BY DEF Delete
<1>7. dialog # NoDialog /\ resend' \in Seq({"send", "reply"})
  BY <1>6, NoDialogKind DEF ChatType, TypeOK
<1>8. Stores
  BY <1>3, <1>6, <1>7 DEF Stores
<1>9. saves' = Append(saves, message') \/ (message' = message /\ resend' = resend /\ (wiped => wiped'))
  BY <1>3, <1>6
<1> QED
  BY <1>2, <1>4, <1>5, <1>6, <1>7, <1>8, <1>9 DEF Rewrite, Delete

\* A change of language puts the default messages in place of all others, or changes nothing.
LEMMA LanguageRewrites == ASSUME ChatType, AwaitInv, ChangeLanguage PROVE Rewrite
<1> USE DEF ChangeLanguage, page, network
<1>1. /\ Open' = Open /\ Fetching' = Fetching
      /\ request' \in [Requests -> {"none", "stream", "fetch", "closed"}]
  BY NotClosing DEF ChatType
<1>2. Stores /\ dialog' = NoDialog /\ dialog = NoDialog /\ resend' \in Seq({"send", "reply"})
  BY DEF Stores, ChatType, TypeOK
<1>3. CASE fresh
  <2>1. message' = Default /\ loose' = loose \union Open /\ wiped' = (wiped \/ message # Default)
    BY <1>3
  <2>2. /\ Unawaited' \subseteq loose' /\ loose \subseteq loose' /\ loose' \subseteq Requests
    BY <1>1, <2>1, OpenLoose DEF ChatType, TypeOK, Open
  <2>3. wiped' \/ (message' = message /\ (wiped => wiped'))
    BY <2>1
  <2> QED
    BY <1>1, <1>2, <2>1, <2>2, <2>3, DefaultOK DEF Rewrite
<1>4. CASE ~fresh
  <2>1. message' = message /\ loose' = loose /\ wiped' = wiped /\ resend' = resend
    BY <1>4
  <2>2. /\ message' \in Seq(Messages) /\ loose \subseteq loose' /\ loose' \subseteq Requests
    BY <2>1 DEF ChatType, TypeOK
  <2>3. Unawaited' = Unawaited
    BY <1>1, <2>1 DEF Unawaited, LastGenerating
  <2> QED
    BY <1>1, <1>2, <2>1, <2>2, <2>3, KeepsAll DEF Rewrite, AwaitInv
<1> QED
  BY <1>3, <1>4
-----------------------------------------------------------------------------
(* Steps that leave the conversation as it is.                             *)

\* The lists that may be shown again are among those there were, the newest copy is the same
\* one or could not be stored, a send that was put off is not forgotten unless it was refused,
\* and a message that is now being edited is one of a conversation at rest.
Quiet ==
    /\ UNCHANGED <<message, request, sent, crashed, loose, silent, stale, crossed>>
    /\ wiped' \/ UNCHANGED <<resend, wiped>>
    /\ Lists' \subseteq Lists
    /\ Lost' \/ (Newest' = Newest /\ ~Lost)
    /\ dialog' = dialog \/ dialog'.kind # "edit"
    /\ \/ editing' = editing \/ editing' = NoMessage
       \/ dialog' = NoDialog /\ ~AnyGenerating /\ \E i \in DOMAIN message : editing' = message[i]

\* Such steps keep the invariant.
LEMMA QuietStep == ASSUME ChatInv, ChatType', Quiet PROVE ChatInv'
<1>1. /\ ChatType /\ ListsInv /\ AwaitInv /\ CrashInv
      /\ EditInv /\ DialogInv /\ SpinnerIsLast /\ WordsInv
  BY DEF ChatInv
<1>2. UNCHANGED <<message, request, sent, crashed, loose, silent, stale, crossed>>
  BY DEF Quiet
<1>3. Open' = Open /\ Fetching' = Fetching /\ LastGenerating' = LastGenerating
  BY <1>2 DEF Open, Fetching, LastGenerating
<1>4. (Excused => Excused') /\ (Excused' => Excused)
  BY <1>2 DEF Excused
<1>5. ListsInv'
  <2>1. sent' = sent /\ sent \in Nat
    BY <1>1, <1>2, ListsType
  <2>2. Grows
    BY <1>2, <1>3, <1>4, <2>1 DEF Grows
  <2> QED
    BY <1>1, <2>2, ListsStep DEF Quiet
<1>6. AwaitInv' /\ CrashInv'
  BY <1>1, <1>2, <1>3 DEF AwaitInv, Unawaited, CrashInv
<1>7. SpinnerIsLast'
  BY <1>1, <1>2, <1>3 DEF SpinnerIsLast
<1>8. WordsInv'
  BY <1>1, <1>2 DEF WordsInv, Quiet
<1>9. DialogInv'
  <2> SUFFICES ASSUME dialog'.kind = "edit" PROVE DialogInv'
    BY DEF DialogInv
  <2>1. dialog' = dialog /\ (editing' = editing \/ editing' = NoMessage)
    BY NoDialogKind DEF Quiet
  <2> QED
    BY <1>1, <1>2, <1>3, <1>4, <2>1 DEF DialogInv, Moved
<1>10. EditInv'
  <2>1. CASE editing' = editing
    BY <1>1, <1>2, <2>1 DEF EditInv
  <2>2. CASE editing' = NoMessage
    BY <2>2 DEF EditInv
  <2>3. CASE ~AnyGenerating /\ \E i \in DOMAIN message : editing' = message[i]
    <3>1. PICK i \in DOMAIN message : editing' = message[i]
      BY <2>3
    <3>2. message \in Seq(Messages) /\ DOMAIN message = 1..Len(message)
      BY <1>1, LenProperties DEF ChatType, TypeOK
    <3>3. Fine(message[i], sent, loose, Fetching)
      BY <1>1, <3>2 DEF ListsInv, Lists, ListOK
    <3>4. \A j \in 1..Len(message) : ~Generating(message[j])
      BY <2>3, <3>2 DEF AnyGenerating
    <3> QED
      BY <1>2, <3>1, <3>3, <3>4 DEF EditInv, Fine
  <2> QED
    BY <2>1, <2>2, <2>3 DEF Quiet
<1> QED
  BY <1>1, <1>5, <1>6, <1>7, <1>8, <1>9, <1>10 DEF ChatInv

\* The lists that may be shown again, when no copy changes.
LEMMA SameLists ==
    ASSUME UNCHANGED <<message, stored, saves, dropped>>, dialog' = dialog \/ dialog'.kind # "edit"
    PROVE  Lists' \subseteq Lists /\ (Lost' \/ (Newest' = Newest /\ ~Lost))
<1>1. Kept' = Kept /\ Copies' = Copies
  BY DEF Kept, Copies
<1> QED
  BY <1>1 DEF Lists, Newest, Lost

\* Asking whether to delete a message.
LEMMA AskDeleteQuiet ==
    ASSUME ChatType, NEW i \in DOMAIN message, AskDelete(i) PROVE ChatType' /\ Quiet
<1> USE DEF AskDelete, Enabled, Reacts, conversation, network
<1>1. dialog'.kind = "delete" /\ Len(saves) < MaxSaves
  OBVIOUS
<1>2. TypeOK'
  BY <1>1 DEF ChatType, TypeOK
<1>3. Len(saves') <= MaxSaves
  <2>1. Len(saves) \in Nat /\ MaxSaves \in Nat
    BY BoundAssumption, LenProperties DEF ChatType, TypeOK
  <2> QED
    BY <1>1, <2>1
<1>4. ChatType'
  BY <1>1, <1>2, <1>3 DEF ChatType
<1> QED
  BY <1>1, <1>4, SameLists DEF Quiet

\* Beginning to edit a message.
LEMMA EditQuiet ==
    ASSUME ChatType, NEW i \in DOMAIN message, Edit(i) PROVE ChatType' /\ Quiet
<1> USE DEF Edit, Enabled, Reacts, conversation, network
<1>1. message \in Seq(Messages) /\ editing' = message[i] /\ message[i] \in Messages
  <2>1. message \in Seq(Messages) /\ DOMAIN message = 1..Len(message)
    BY LenProperties DEF ChatType, TypeOK
  <2> QED
    BY <2>1, ElementOfSeq
<1>2. TypeOK'
  BY <1>1 DEF ChatType, TypeOK
<1>3. ChatType'
  BY <1>2 DEF ChatType
<1> QED
  BY <1>1, <1>3, SameLists DEF Quiet

\* Leaving a message as it was.
LEMMA EditCancelQuiet == ASSUME ChatType, EditCancel PROVE ChatType' /\ Quiet
<1> USE DEF EditCancel, conversation, network, history
<1>1. TypeOK'
  BY DEF ChatType, TypeOK
<1>2. ChatType'
  BY <1>1 DEF ChatType
<1> QED
  BY <1>2, SameLists DEF Quiet

\* Closing the dialog that asks.
LEMMA DialogCancelQuiet == ASSUME ChatType, DialogCancel PROVE ChatType' /\ Quiet
<1> USE DEF DialogCancel, conversation, network, history
<1>1. dialog'.kind = "none" /\ dialog' = NoDialog
  BY NoDialogKind
<1>2. TypeOK'
  BY <1>1 DEF ChatType, TypeOK
<1>3. ChatType'
  BY <1>1, <1>2 DEF ChatType
<1> QED
  BY <1>1, <1>3, SameLists DEF Quiet

\* What is stored in place of nothing is no list of messages.
LEMMA NothingIsNoList == Nothing \notin Seq(Messages)
<1>1. NoMessage \notin Messages
  BY BoundAssumption DEF NoMessage, Msg, Messages
<1>2. \A x : <<x>> \in Seq(Messages) => x \in Messages
  OBVIOUS
<1> QED
  BY <1>1, <1>2, Zenon DEF Nothing

\* The oldest of the lists that wait is stored, or cannot be.
LEMMA FireSaveQuiet == ASSUME ChatType, FireSave PROVE ChatType' /\ Quiet
<1> USE DEF network, page, history
<1>1. /\ saves \in Seq(Seq(Messages)) /\ saves # <<>> /\ Len(saves) \in Nat \ {0}
      /\ saves' = Tail(saves)
      /\ \/ stored' = Head(saves) /\ dropped' = FALSE
         \/ stored' = stored /\ dropped' = TRUE
      /\ UNCHANGED <<message, resend, nextId, request, chunks, sent, sseRef, editing, dialog, crashed, fresh,
                     loads, ops, loose, silent, stale, crossed, wiped>>
  BY EmptySeq, LenProperties DEF ChatType, TypeOK, FireSave
<1>2. /\ Head(saves) = saves[1] /\ saves[1] \in Seq(Messages)
      /\ saves' \in Seq(Seq(Messages)) /\ Len(saves') = Len(saves) - 1
      /\ \A i \in 1..Len(saves) - 1 : saves'[i] = saves[i + 1]
  BY <1>1, HeadTailProperties, ElementOfSeq
<1>3. TypeOK' /\ Len(saves') <= Len(saves)
  <2>1. Len(saves') <= Len(saves) /\ Len(saves') <= MaxSaves + 1
    <3>1. Len(saves) <= MaxSaves + 1 /\ MaxSaves \in Nat
      BY BoundAssumption DEF ChatType, TypeOK
    <3> QED
      BY <1>1, <1>2, <3>1
  <2> QED
    BY <1>1, <1>2, <2>1 DEF ChatType, TypeOK
<1>4. ChatType'
  <2>1. dialog # NoDialog => Len(saves') <= MaxSaves
    <3>1. MaxSaves \in Nat /\ Len(saves') \in Nat
      BY BoundAssumption, <1>1, <1>2
    <3> QED
      BY <1>1, <1>3, <3>1 DEF ChatType
  <2> QED
    BY <1>1, <1>3, <2>1 DEF ChatType
<1>5. /\ stored' = Head(saves) => Kept' = saves[1]
      /\ stored' = stored => Kept' = Kept
  BY <1>2, NothingIsNoList DEF Kept
<1>6. Copies' \subseteq Copies
  <2> SUFFICES ASSUME NEW list \in Copies' PROVE list \in Copies
    OBVIOUS
  <2>1. CASE list = Kept'
    BY <1>1, <1>5, <2>1 DEF Copies
  <2>2. CASE \E i \in 1..Len(saves') : list = saves'[i]
    <3>1. PICK i \in 1..Len(saves') : list = saves'[i]
      BY <2>2
    <3>2. i + 1 \in 1..Len(saves) /\ list = saves[i + 1]
      BY <1>1, <1>2, <3>1
    <3> QED
      BY <3>2 DEF Copies
  <2> QED
    BY <2>1, <2>2 DEF Copies
<1>7. Lost' \/ (Newest' = Newest /\ ~Lost)
  <2>1. Newest = saves[Len(saves)] /\ ~Lost
    BY <1>1 DEF Newest, Last, Lost
  <2>2. CASE Len(saves) = 1
    <3>1. saves' = <<>>
      BY <1>2, <2>2, EmptySeq
    <3>2. CASE stored' = Head(saves)
      BY <1>5, <2>1, <2>2, <3>1, <3>2 DEF Newest
    <3>3. CASE dropped' = TRUE
      BY <3>1, <3>3 DEF Lost
    <3> QED
      BY <1>1, <3>2, <3>3
  <2>3. CASE Len(saves) # 1
    <3>1. Len(saves) - 1 \in 1..Len(saves) - 1 /\ (Len(saves) - 1) + 1 = Len(saves) /\ Len(saves') # 0
      BY <1>1, <1>2, <2>3
    <3>2. saves' # <<>> /\ Last(saves') = saves[Len(saves)]
      BY <1>2, <3>1 DEF Last
    <3> QED
      BY <2>1, <3>2 DEF Newest
  <2> QED
    BY <2>2, <2>3
<1>8. Lists' \subseteq Lists
  BY <1>1, <1>6 DEF Lists
<1> QED
  BY <1>1, <1>4, <1>7, <1>8 DEF Quiet

\* A custom request body that is no JSON takes ids and nothing else.
LEMMA RefusedQuiet == ASSUME ChatType, SendRefused \/ ResendRefused PROVE ChatType' /\ Quiet
<1>1. /\ nextId' = nextId + 2 /\ (wiped' \/ UNCHANGED <<resend, wiped>>)
      /\ UNCHANGED <<message, stored, saves, request, chunks, sent, sseRef, editing, dialog, crashed,
                     loose, silent, stale, crossed, dropped>>
  BY DEF SendRefused, ResendRefused, BadCustomBody, network, page
<1>2. nextId' \in Nat /\ nextId' >= FirstId
  BY <1>1 DEF ChatType, TypeOK, FirstId
<1>3. resend' \in Seq({"send", "reply"})
  <2>1. resend \in Seq({"send", "reply"})
    BY DEF ChatType, TypeOK
  <2>2. CASE resend' = resend
    BY <2>1, <2>2
  <2>3. CASE resend # <<>> /\ resend' = Tail(resend)
    BY <2>1, <2>3, HeadTailProperties
  <2> QED
    BY <2>2, <2>3 DEF SendRefused, ResendRefused
<1>4. TypeOK'
  BY <1>1, <1>2, <1>3 DEF ChatType, TypeOK
<1>5. ChatType'
  BY <1>1, <1>2, <1>4 DEF ChatType
<1> QED
  BY <1>1, <1>5, SameLists DEF Quiet
-----------------------------------------------------------------------------
(* Sending.                                                                *)

\* Two messages at the end of a list.
LEMMA TwoMore ==
    ASSUME NEW S, NEW list \in Seq(S), NEW a \in S, NEW b \in S, NEW new, new = list \o <<a, b>>
    PROVE  /\ new \in Seq(S) /\ Len(new) = Len(list) + 2 /\ Len(list) \in Nat
           /\ \A i \in 1..Len(list) : new[i] = list[i]
           /\ new[Len(list) + 1] = a /\ new[Len(list) + 2] = b
<1>1. PICK two : two = <<a, b>>
  OBVIOUS
<1>2. two \in Seq(S) /\ Len(two) = 2 /\ two[1] = a /\ two[2] = b
  BY <1>1
<1>3. new = list \o two /\ Len(list) \in Nat
  BY <1>1, LenProperties
<1>4. /\ list \o two \in Seq(S) /\ Len(list \o two) = Len(list) + Len(two)
      /\ \A i \in 1..Len(list) + Len(two) : (list \o two)[i] =
            IF i <= Len(list) THEN list[i] ELSE two[i - Len(list)]
  BY <1>2, ConcatProperties
<1>5. \A n \in Nat : /\ n + 1 \in 1..n + 2 /\ n + 2 \in 1..n + 2 /\ ~(n + 1 <= n) /\ ~(n + 2 <= n)
                     /\ (n + 1) - n = 1 /\ (n + 2) - n = 2
                     /\ \A i \in 1..n : i \in 1..n + 2 /\ i <= n
  OBVIOUS
<1> HIDE <1>1
<1> QED
  BY <1>2, <1>3, <1>4, <1>5

\* What the conversation has become after a send: the new messages are those of the new request,
\* and the last of them waits for it.
Shows ==
    /\ message' \in Seq(Messages) /\ Len(message) < Len(message')
    /\ \A i \in 1..Len(message) : message'[i] = message[i]
    /\ \A i \in 1..Len(message') :
        \/ i \in 1..Len(message)
        \/ /\ ReplyOf(message'[i]) = sent' /\ message'[i].uid <= 2 * sent' + 1 /\ message'[i].uid > 1
           /\ message'[i].id >= FirstId /\ message'[i].parts \subseteq {sent'}
           /\ message'[i].status = "none" \/ (i = Len(message') /\ message'[i].status = "loading")
    /\ LastGenerating' /\ ReplyOf(Last(message')) = sent'

\* What a send does: every request that was open is left open, and if the last message was being
\* generated then the send overtook it.
Sends ==
    /\ sent' = sent + 1 /\ sent' \in Requests /\ Shows
    /\ Open' = Open \union {sent'} /\ \A k \in Fetching' : k <= sent => k \in Fetching
    /\ Open \subseteq loose' /\ loose \subseteq loose' /\ loose' \subseteq Requests
    /\ Excused => Excused'
    /\ LastGenerating => Excused'
    /\ Stores
    /\ UNCHANGED <<editing, dialog, crashed>>

\* Sending keeps the invariant.
LEMMA SendsStep == ASSUME ChatInv, ChatType', WordsInv', Sends PROVE ChatInv'
<1>1. /\ ChatType /\ ListsInv /\ AwaitInv /\ CrashInv
      /\ EditInv /\ DialogInv /\ SpinnerIsLast /\ WordsInv
  BY DEF ChatInv
<1>2. /\ message \in Seq(Messages) /\ message' \in Seq(Messages)
      /\ Len(message) \in Nat /\ Len(message') \in Nat /\ Len(message) < Len(message')
      /\ DOMAIN message = 1..Len(message) /\ DOMAIN message' = 1..Len(message')
      /\ sent \in Nat /\ sent' = sent + 1
      /\ \A i \in 1..Len(message) : message[i] \in Messages /\ message'[i] = message[i]
      /\ UNCHANGED <<editing, dialog, crashed>>
  BY <1>1, LenProperties, ElementOfSeq, ListsType DEF Sends, Shows, ChatType, TypeOK
<1>3. Grows
  <2>1. sent' \in Nat /\ sent <= sent'
    BY <1>2
  <2>2. /\ loose \subseteq loose' /\ (Excused => Excused')
        /\ \A k \in Fetching' : k <= sent => k \in Fetching
    BY DEF Sends
  <2> QED
    BY <2>1, <2>2, Zenon DEF Grows
<1>4. ASSUME NEW i \in 1..Len(message)
      PROVE  /\ Fine(message'[i], sent', loose', Fetching')
             /\ Generating(message'[i]) /\ Clean(message'[i]) => Excused'
  <2>1. Fine(message[i], sent, loose, Fetching) /\ message[i] \in Messages
    BY <1>1, <1>2 DEF ListsInv, Lists, ListOK
  <2>2. Fine(message[i], sent', loose', Fetching')
    BY <1>2, <1>3, <2>1, FineGrows DEF Grows
  <2>3. ASSUME Generating(message[i]), Clean(message[i]) PROVE Excused'
    <3>1. Excused \/ i = Len(message)
      BY <1>1, <1>2, <2>3 DEF SpinnerIsLast, Excused, Clean
    <3>2. CASE i = Len(message)
      <4>1. LastGenerating
        BY <1>2, <2>3, <3>2, NotEmpty DEF LastGenerating, Last
      <4> QED
        BY <4>1 DEF Sends, Shows
    <3> QED
      BY <3>1, <3>2 DEF Sends, Shows
  <2> QED
    BY <1>2, <2>2, <2>3
<1>5. ASSUME NEW i \in 1..Len(message'), i \notin 1..Len(message)
      PROVE  /\ Fine(message'[i], sent', loose', Fetching') /\ ReplyOf(message'[i]) = sent'
             /\ Generating(message'[i]) => i = Len(message') /\ ReplyOf(message'[i]) \in Open'
  <2>1. PICK m : m = message'[i]
    OBVIOUS
  <2>2. /\ ReplyOf(m) = sent' /\ m.uid <= 2 * sent' + 1 /\ m.uid > 1
        /\ m.id >= FirstId /\ m.parts \subseteq {sent'}
        /\ m.status = "none" \/ (i = Len(message') /\ m.status = "loading")
    BY <1>5, <2>1 DEF Sends, Shows
  <2>3. m.uid \in Nat /\ m.id \in Nat
    BY <1>2, <2>1, ElementOfSeq, ReplyOfRange
  <2>4. ~(m.uid <= 1) /\ ~(m.id < FirstId)
    BY <2>2, <2>3 DEF FirstId
  <2>5. Fine(m, sent', loose', Fetching')
    BY <2>2, <2>4 DEF Fine
  <2>6. Generating(m) => i = Len(message')
    BY <2>2 DEF Generating
  <2> QED
    BY <2>1, <2>2, <2>5, <2>6 DEF Sends, Shows
<1>6. ListOK(message', sent', loose', Fetching', Excused')
  <2>1. \A n \in Nat : \A j \in 1..n : j < n => j # n
    OBVIOUS
  <2>2. \A j \in 1..Len(message') : j < Len(message') => j # Len(message')
    BY <1>2, <2>1, Zenon
  <2> QED
    BY <1>4, <1>5, <2>2 DEF ListOK
<1>7. ListsInv'
  <2>1. Lists' \subseteq Lists \union {message'}
    BY <1>1, <1>2, StoresStep, DialogLists DEF Sends, Shows
  <2> QED
    BY <1>1, <1>3, <1>6, <2>1, ListsStep
<1>8. AwaitInv' /\ CrashInv'
  <2>1. /\ LastGenerating' /\ ReplyOf(Last(message')) = sent' /\ Open' = Open \union {sent'}
        /\ Open \subseteq loose' /\ loose \subseteq loose' /\ crashed' = crashed
    BY DEF Sends, Shows
  <2>2. ASSUME NEW k \in Unawaited' PROVE k \in loose'
    <3>1. k \in Open' /\ (~LastGenerating' \/ ReplyOf(Last(message')) # k)
      BY <2>2 DEF Unawaited
    <3> QED
      BY <2>1, <3>1
  <2>3. AwaitInv'
    BY <2>2 DEF AwaitInv
  <2>4. CrashInv'
    BY <1>1, <2>1 DEF CrashInv
  <2> QED
    BY <2>3, <2>4
<1>9. SpinnerIsLast'
  <2> SUFFICES ASSUME NEW i \in 1..Len(message'), Generating(message'[i]), Clean(message'[i])
               PROVE  (i = Len(message') /\ ReplyOf(message'[i]) \in Open') \/ Excused'
    BY <1>2 DEF SpinnerIsLast, Excused, Clean
  <2> QED
    BY <1>4, <1>5
<1>10. EditInv'
  <2> SUFFICES ASSUME editing # NoMessage PROVE EditInv'
    BY <1>2 DEF EditInv
  <2>1. editing \in Messages /\ editing.uid <= 2 * sent + 1
    BY <1>1 DEF ChatType, TypeOK, EditInv
  <2>2. editing.uid <= 2 * sent' + 1 /\ ReplyOf(editing) # sent'
    <3>1. /\ editing.uid \in Nat /\ ReplyOf(editing) \in Nat /\ 2 * ReplyOf(editing) <= editing.uid
      BY <2>1, ReplyOfRange
    <3> QED
      BY <1>2, <2>1, <3>1
  <2>3. \A i \in 1..Len(message') :
            message'[i].id = editing.id /\ ReplyOf(message'[i]) = ReplyOf(editing) => ~Generating(message'[i])
    <3>1. \A i \in 1..Len(message') : ReplyOf(message'[i]) # sent' => i \in 1..Len(message)
      BY <1>5
    <3> QED
      BY <1>1, <1>2, <2>2, <3>1 DEF EditInv
  <2> QED
    BY <1>1, <1>2, <2>2, <2>3 DEF EditInv
<1>11. DialogInv'
  <2> SUFFICES ASSUME dialog.kind = "edit" PROVE DialogInv'
    BY <1>2 DEF DialogInv
  <2>1. /\ editing = NoMessage /\ dialog.index < Len(dialog.list) /\ Len(dialog.list) <= Len(message)
        /\ \A i \in 1..Len(dialog.list) :
            Generating(dialog.list[i]) /\ Clean(dialog.list[i]) => Excused \/ i = Len(dialog.list)
    BY <1>1 DEF DialogInv
  <2>2. Len(dialog.list) \in Nat
    BY <1>1, LenProperties DEF ChatType
  <2>3. Len(dialog.list) <= Len(message') /\ Len(message') # Len(dialog.list)
    BY <1>2, <2>1, <2>2
  <2>4. Excused => Excused'
    BY DEF Sends, Shows
  <2>5. (Moved(dialog.list))'
    BY <1>2, <2>3 DEF Moved
  <2> QED
    BY <1>2, <2>1, <2>3, <2>4, <2>5 DEF DialogInv
<1> QED
  BY <1>7, <1>8, <1>9, <1>10, <1>11 DEF ChatInv

\* The messages of request k: what the user said and the reply to it.
LEMMA NewMessages ==
    ASSUME NEW k \in Requests, NEW id \in Nat, id >= FirstId
    PROVE  /\ LET u == Msg(2 * k, id, "user", "none", {k})
              IN /\ u \in Messages /\ ReplyOf(u) = k /\ u.uid <= 2 * k + 1 /\ u.uid > 1
                 /\ u.id >= FirstId /\ u.parts \subseteq {k} /\ u.status = "none"
           /\ LET r == Msg(2 * k + 1, id, "assistant", "loading", {})
              IN /\ r \in Messages /\ ReplyOf(r) = k /\ r.uid <= 2 * k + 1 /\ r.uid > 1
                 /\ r.id >= FirstId /\ r.parts \subseteq {k} /\ r.status = "loading" /\ r.role = "assistant"
<1>1. k \in Nat /\ k >= 1 /\ k <= MaxRequests /\ MaxRequests \in Nat
  BY BoundAssumption DEF Requests
<1>2. /\ 2 * k \in 0..2 * MaxRequests + 1 /\ 2 * k + 1 \in 0..2 * MaxRequests + 1
      /\ 2 * k <= 2 * k + 1 /\ 2 * k > 1 /\ 2 * k + 1 > 1
  BY <1>1
<1>3. (2 * k) \div 2 = k /\ (2 * k + 1) \div 2 = k
  BY <1>1
<1> DEFINE u == Msg(2 * k, id, "user", "none", {k})
           r == Msg(2 * k + 1, id, "assistant", "loading", {})
<1>4. /\ u \in Messages /\ u.uid = 2 * k /\ u.id = id /\ u.parts = {k} /\ u.status = "none"
  BY <1>2 DEF Msg, Messages
<1>5. /\ r \in Messages /\ r.uid = 2 * k + 1 /\ r.id = id /\ r.parts = {} /\ r.status = "loading"
      /\ r.role = "assistant"
  BY <1>2 DEF Msg, Messages
<1> HIDE DEF u, r
<1>6. ReplyOf(u) = k /\ ReplyOf(r) = k
  BY <1>3, <1>4, <1>5 DEF ReplyOf
<1>7. /\ u \in Messages /\ ReplyOf(u) = k /\ u.uid <= 2 * k + 1 /\ u.uid > 1
      /\ u.id >= FirstId /\ u.parts \subseteq {k} /\ u.status = "none"
  BY <1>2, <1>4, <1>6
<1>8. /\ r \in Messages /\ ReplyOf(r) = k /\ r.uid <= 2 * k + 1 /\ r.uid > 1
      /\ r.id >= FirstId /\ r.parts \subseteq {k} /\ r.status = "loading" /\ r.role = "assistant"
  BY <1>2, <1>5, <1>6
<1> QED
  BY <1>7, <1>8, Zenon DEF u, r

\* A new request is open, and the others are what they were.
LEMMA NewRequest ==
    ASSUME ChatType, NEW kind \in {"stream", "fetch"}, sent < MaxRequests, SendRequest(sent + 1, kind)
    PROVE  /\ sent' = sent + 1 /\ sent' \in Requests /\ sent' \in 0..MaxRequests /\ sseRef' \in 0..sent'
           /\ request' \in [Requests -> {"none", "stream", "fetch", "closed"}] /\ chunks' = chunks
           /\ Open' = Open \union {sent'} /\ \A k \in Fetching' : k <= sent => k \in Fetching
<1>1. /\ sent \in Nat /\ MaxRequests \in Nat /\ sseRef \in 0..sent
      /\ request \in [Requests -> {"none", "stream", "fetch", "closed"}]
  BY BoundAssumption DEF ChatType, TypeOK
<1>2. sent + 1 \in Requests /\ sent + 1 \in 0..MaxRequests
  BY <1>1 DEF Requests
<1>3. /\ sent' = sent + 1 /\ request' = [request EXCEPT ![sent + 1] = kind] /\ chunks' = chunks
      /\ sseRef' = sent + 1 \/ sseRef' = sseRef
  BY DEF SendRequest
<1>4. sseRef' \in 0..sent'
  BY <1>1, <1>3
<1>5. request' \in [Requests -> {"none", "stream", "fetch", "closed"}]
  BY <1>1, <1>2, <1>3
<1>6. \A k \in Requests : request'[k] = IF k = sent + 1 THEN kind ELSE request[k]
  BY <1>1, <1>2, <1>3
<1>7. Open' = Open \union {sent'}
  BY <1>2, <1>3, <1>6 DEF Open
<1>8. ASSUME NEW k \in Fetching', k <= sent PROVE k \in Fetching
  <2>1. k \in Requests /\ k # sent + 1
    BY <1>1, <1>8 DEF Fetching, Requests
  <2> QED
    BY <1>6, <2>1 DEF Fetching
<1> QED
  BY <1>2, <1>3, <1>4, <1>5, <1>7, <1>8

\* onMessageSend shows what the user said and an empty reply.
LEMMA SendShows ==
    ASSUME ChatType, NEW kind \in {"stream", "fetch"}, NEW custom \in BOOLEAN, OnMessageSend(kind, custom)
    PROVE  /\ Shows /\ saves' = Append(saves, message') /\ SendRequest(sent + 1, kind)
           /\ nextId' \in Nat /\ nextId' >= FirstId
<1> DEFINE k == sent + 1
           uid == IF custom THEN nextId ELSE nextId + 2
           u == Msg(2 * k, uid, "user", "none", {k})
           r == Msg(2 * k + 1, nextId + 1, "assistant", "loading", {})
<1>1. /\ sent < MaxRequests /\ message' = message \o <<u, r>> /\ saves' = Append(saves, message')
      /\ SendRequest(sent + 1, kind) /\ nextId' \in {nextId + 2, nextId + 3}
  BY DEF OnMessageSend, Save
<1>2. /\ message \in Seq(Messages) /\ nextId \in Nat /\ nextId >= FirstId /\ sent' = k /\ k \in Requests
  BY <1>1, NewRequest DEF ChatType, TypeOK
<1>3. /\ nextId + 1 \in Nat /\ nextId + 1 >= FirstId /\ uid \in Nat /\ uid >= FirstId
      /\ nextId' \in Nat /\ nextId' >= FirstId
  BY <1>1, <1>2 DEF FirstId
<1>4. /\ u \in Messages /\ ReplyOf(u) = k /\ u.uid <= 2 * k + 1 /\ u.uid > 1
      /\ u.id >= FirstId /\ u.parts \subseteq {k} /\ u.status = "none"
  BY <1>2, <1>3, NewMessages
<1>5. /\ r \in Messages /\ ReplyOf(r) = k /\ r.uid <= 2 * k + 1 /\ r.uid > 1
      /\ r.id >= FirstId /\ r.parts \subseteq {k} /\ r.status = "loading"
  BY <1>2, <1>3, NewMessages
<1> HIDE DEF u, r, k, uid
<1>6. PICK new : new = message'
  OBVIOUS
<1>7. PICK a \in Messages, b \in Messages : a = u /\ b = r
  BY <1>4, <1>5
<1>8. new = message \o <<a, b>>
  BY <1>1, <1>6, <1>7
<1>9. /\ new \in Seq(Messages) /\ Len(new) = Len(message) + 2 /\ Len(message) \in Nat
      /\ \A i \in 1..Len(message) : new[i] = message[i]
      /\ new[Len(message) + 1] = a /\ new[Len(message) + 2] = b
  BY <1>2, <1>8, TwoMore
<1>10. \A i \in 1..Len(new) : i \in 1..Len(message) \/ i = Len(message) + 1 \/ i = Len(message) + 2
  BY <1>9
<1>11. Last(new) = b /\ new # <<>>
  BY <1>9 DEF Last
<1>12. LastGenerating' /\ ReplyOf(Last(message')) = sent'
  BY <1>2, <1>5, <1>6, <1>7, <1>11 DEF LastGenerating, Generating
<1>13. /\ message' \in Seq(Messages) /\ Len(message) < Len(message')
       /\ \A i \in 1..Len(message) : message'[i] = message[i]
  BY <1>6, <1>9
<1>14. ASSUME NEW i \in 1..Len(message'), i \notin 1..Len(message)
       PROVE  /\ ReplyOf(message'[i]) = sent' /\ message'[i].uid <= 2 * sent' + 1 /\ message'[i].uid > 1
              /\ message'[i].id >= FirstId /\ message'[i].parts \subseteq {sent'}
              /\ message'[i].status = "none" \/ (i = Len(message') /\ message'[i].status = "loading")
  <2>1. CASE i = Len(message) + 1
    BY <1>2, <1>4, <1>6, <1>7, <1>9, <2>1
  <2>2. CASE i = Len(message) + 2
    BY <1>2, <1>5, <1>6, <1>7, <1>9, <2>2
  <2> QED
    BY <1>6, <1>10, <1>14, <2>1, <2>2
<1>15. Shows
  BY <1>12, <1>13, <1>14 DEF Shows
<1> QED
  BY <1>1, <1>3, <1>15

\* A regeneration shows an empty reply only; what the user said stays as it was.
LEMMA ReplyShows ==
    ASSUME ChatType, NEW kind \in {"stream", "fetch"}, sent < MaxRequests, SendRequest(sent + 1, kind),
           message' = Append(message, Msg(2 * sent + 3, nextId, "assistant", "loading", {}))
    PROVE  Shows /\ Uids(Said(message')) = Uids(Said(message))
<1> DEFINE k == sent + 1
           r == Msg(2 * k + 1, nextId, "assistant", "loading", {})
<1>1. /\ message \in Seq(Messages) /\ nextId \in Nat /\ nextId >= FirstId /\ sent' = k /\ k \in Requests
  BY NewRequest DEF ChatType, TypeOK
<1>2. message' = Append(message, r)
  <2>1. sent \in Nat
    BY ListsType
  <2>2. 2 * sent + 3 = 2 * k + 1
    BY <2>1
  <2> QED
    BY <2>2
<1>3. /\ r \in Messages /\ ReplyOf(r) = k /\ r.uid <= 2 * k + 1 /\ r.uid > 1
      /\ r.id >= FirstId /\ r.parts \subseteq {k} /\ r.status = "loading" /\ r.role = "assistant"
  BY <1>1, NewMessages
<1> HIDE DEF r, k
<1>4. PICK new : new = message'
  OBVIOUS
<1>5. PICK b \in Messages : b = r
  BY <1>3
<1>6. new = Append(message, b)
  BY <1>2, <1>4, <1>5
<1>7. /\ new \in Seq(Messages) /\ Len(new) = Len(message) + 1 /\ Len(message) \in Nat
      /\ \A i \in 1..Len(message) : new[i] = message[i]
      /\ new[Len(message) + 1] = b
  BY <1>1, <1>6, AppendProperties, LenProperties
<1>8. \A i \in 1..Len(new) : i \in 1..Len(message) \/ i = Len(message) + 1
  BY <1>7
<1>9. Last(new) = b /\ new # <<>>
  BY <1>7 DEF Last
<1>10. LastGenerating' /\ ReplyOf(Last(message')) = sent'
  BY <1>1, <1>3, <1>4, <1>5, <1>9 DEF LastGenerating, Generating
<1>11. /\ message' \in Seq(Messages) /\ Len(message) < Len(message')
       /\ \A i \in 1..Len(message) : message'[i] = message[i]
  BY <1>4, <1>7
<1>12. ASSUME NEW i \in 1..Len(message'), i \notin 1..Len(message)
       PROVE  /\ ReplyOf(message'[i]) = sent' /\ message'[i].uid <= 2 * sent' + 1 /\ message'[i].uid > 1
              /\ message'[i].id >= FirstId /\ message'[i].parts \subseteq {sent'}
              /\ message'[i].status = "none" \/ (i = Len(message') /\ message'[i].status = "loading")
  <2>1. i = Len(message) + 1
    BY <1>4, <1>8, <1>12
  <2> QED
    BY <1>1, <1>3, <1>4, <1>5, <1>7, <2>1
<1>13. Shows
  BY <1>10, <1>11, <1>12 DEF Shows
<1>14. Said(new) = Said(message)
  <2>1. b.role # "user"
    BY <1>3, <1>5
  <2> QED
    BY <1>1, <1>6, <2>1, SaidAppend
<1> QED
  BY <1>4, <1>13, <1>14

\* The types after a send.
LEMMA SendType ==
    ASSUME ChatType, NEW kind \in {"stream", "fetch"}, sent < MaxRequests, SendRequest(sent + 1, kind),
           Shows, Stores, nextId' \in Nat, nextId' >= FirstId, loose' \subseteq Requests,
           resend' \in Seq({"send", "reply"}), UNCHANGED <<editing, dialog, crashed>>
    PROVE  ChatType'
<1>1. /\ sent' \in 0..MaxRequests /\ sseRef' \in 0..sent' /\ chunks' = chunks
      /\ request' \in [Requests -> {"none", "stream", "fetch", "closed"}]
  BY NewRequest
<1>2. message' \in Seq(Messages)
  BY DEF Shows
<1>3. /\ saves' \in Seq(Seq(Messages)) /\ stored' \in Seq(Messages) \union {Nothing}
      /\ Len(saves') <= MaxSaves + 1
      /\ dialog' = dialog /\ dialog # NoDialog => Len(saves') <= MaxSaves
  BY <1>2, StoresStep
<1>4. TypeOK'
  BY <1>1, <1>2, <1>3 DEF ChatType, TypeOK
<1> QED
  BY <1>3, <1>4 DEF ChatType

\* Sending what the user typed.
LEMMA SendSends ==
    ASSUME ChatInv, NEW kind \in {"stream", "fetch"}, NEW custom \in BOOLEAN, Send(kind, custom)
    PROVE  Sends /\ ChatType' /\ WordsInv'
<1>1. ChatType /\ AwaitInv /\ WordsInv
  BY DEF ChatInv
<1>2. /\ Reacts /\ ~LastGenerating /\ OnMessageSend(kind, custom) /\ sent < MaxRequests
      /\ UNCHANGED <<stored, resend, editing, dialog, crashed, loose, silent, stale, crossed, wiped, dropped>>
  BY DEF Send, page, history, OnMessageSend
<1>3. /\ Shows /\ saves' = Append(saves, message') /\ SendRequest(sent + 1, kind)
      /\ nextId' \in Nat /\ nextId' >= FirstId
  BY <1>1, <1>2, SendShows
<1>4. Stores
  BY <1>2, <1>3 DEF Stores, Reacts
<1>5. /\ sent' = sent + 1 /\ sent' \in Requests
      /\ Open' = Open \union {sent'} /\ \A k \in Fetching' : k <= sent => k \in Fetching
  BY <1>1, <1>2, <1>3, NewRequest
<1>6. Open \subseteq loose' /\ loose' = loose /\ loose' \subseteq Requests
  BY <1>1, <1>2 DEF AwaitInv, Unawaited, ChatType, TypeOK
<1>7. resend' \in Seq({"send", "reply"})
  BY <1>1, <1>2 DEF ChatType, TypeOK
<1>8. ChatType'
  BY <1>1, <1>2, <1>3, <1>4, <1>6, <1>7, SendType
<1>9. WordsInv'
  BY <1>1, <1>3, <1>4, WordsStep DEF Shows
<1>10. Excused => Excused'
  BY <1>2 DEF Excused
<1> QED
  BY <1>2, <1>3, <1>4, <1>5, <1>6, <1>8, <1>9, <1>10 DEF Sends

\* The send that was put off.
LEMMA ResendSends ==
    ASSUME ChatInv, NEW kind \in {"stream", "fetch"}, NEW custom \in BOOLEAN, FireResend(kind, custom)
    PROVE  Sends /\ ChatType' /\ WordsInv'
<1>1. ChatType /\ AwaitInv /\ WordsInv /\ message \in Seq(Messages)
  BY DEF ChatInv, ChatType, TypeOK
<1>2. /\ resend # <<>> /\ Len(saves) < MaxSaves /\ resend' = Tail(resend)
      /\ crossed' = (crossed \/ AnyGenerating) /\ loose' = loose \union Open
      /\ UNCHANGED <<stored, editing, dialog, crashed, silent, stale, wiped, dropped>>
  BY DEF FireResend, page
<1>3. /\ resend \in Seq({"send", "reply"}) /\ resend' \in Seq({"send", "reply"})
      /\ Head(resend) = resend[1] /\ Len(resend) \in Nat \ {0} /\ Len(resend') = Len(resend) - 1
      /\ \A i \in 1..Len(resend) - 1 : resend'[i] = resend[i + 1]
  BY <1>1, <1>2, HeadTailProperties, EmptySeq DEF ChatType, TypeOK
<1>4. /\ Open \subseteq loose' /\ loose \subseteq loose' /\ loose' \subseteq Requests
  BY <1>1, <1>2 DEF ChatType, TypeOK, Open
<1>5. (Excused => Excused') /\ (LastGenerating => Excused')
  <2>1. LastGenerating => AnyGenerating
    <3> SUFFICES ASSUME message # <<>>, Generating(Last(message)) PROVE AnyGenerating
      BY DEF LastGenerating
    <3>1. Len(message) \in DOMAIN message /\ Last(message) = message[Len(message)]
      BY <1>1, LastIn, LenProperties
    <3> QED
      BY <3>1 DEF AnyGenerating
  <2> QED
    BY <1>2, <2>1 DEF Excused
<1>6. CASE Head(resend) = "send"
  <2>1. OnMessageSend(kind, custom) /\ sent < MaxRequests
    BY <1>6 DEF FireResend, OnMessageSend
  <2>2. /\ Shows /\ saves' = Append(saves, message') /\ SendRequest(sent + 1, kind)
        /\ nextId' \in Nat /\ nextId' >= FirstId
    BY <1>1, <2>1, SendShows
  <2>3. Stores
    BY <1>2, <2>2 DEF Stores
  <2>4. /\ sent' = sent + 1 /\ sent' \in Requests
        /\ Open' = Open \union {sent'} /\ \A k \in Fetching' : k <= sent => k \in Fetching
    BY <1>1, <2>1, <2>2, NewRequest
  <2>5. ChatType'
    BY <1>1, <1>2, <1>3, <1>4, <2>1, <2>2, <2>3, SendType
  <2>6. WordsInv'
    BY <1>1, <2>2, <2>3, WordsStep DEF Shows
  <2> QED
    BY <1>2, <1>4, <1>5, <2>2, <2>3, <2>4, <2>5, <2>6 DEF Sends
<1>7. CASE Head(resend) # "send"
  <2>1. /\ sent < MaxRequests /\ nextId' = nextId + 1 /\ SendRequest(sent + 1, kind) /\ saves' = saves
        /\ message' = Append(message, Msg(2 * sent + 3, nextId, "assistant", "loading", {}))
    BY <1>7 DEF FireResend
  <2>2. Shows /\ Uids(Said(message')) = Uids(Said(message))
    BY <1>1, <2>1, ReplyShows
  <2>3. nextId' \in Nat /\ nextId' >= FirstId
    BY <1>1, <2>1 DEF ChatType, TypeOK, FirstId
  <2>4. Stores
    BY <1>2, <2>1 DEF Stores
  <2>5. /\ sent' = sent + 1 /\ sent' \in Requests
        /\ Open' = Open \union {sent'} /\ \A k \in Fetching' : k <= sent => k \in Fetching
    BY <1>1, <2>1, NewRequest
  <2>6. ChatType'
    BY <1>1, <1>2, <1>3, <1>4, <2>1, <2>2, <2>3, <2>4, SendType
  <2>7. (\A i \in 1..Len(resend') : resend'[i] # "send") => \A i \in 1..Len(resend) : resend[i] # "send"
    <3> SUFFICES ASSUME \A i \in 1..Len(resend') : resend'[i] # "send", NEW i \in 1..Len(resend)
                 PROVE  resend[i] # "send"
      OBVIOUS
    <3>1. CASE i = 1
      BY <1>3, <1>7, <3>1
    <3>2. CASE i # 1
      <4>1. i - 1 \in 1..Len(resend) - 1 /\ (i - 1) + 1 = i
        BY <1>3, <3>2
      <4> QED
        BY <1>3, <4>1
    <3> QED
      BY <3>1, <3>2
  <2>8. WordsInv'
    <3>1. message' \in Seq(Messages) /\ (~wiped' => ~wiped)
      BY <1>2, <2>2 DEF Shows
    <3> QED
      BY <1>1, <2>2, <2>4, <2>7, <3>1, WordsStep
  <2> QED
    BY <1>2, <1>4, <1>5, <2>2, <2>4, <2>5, <2>6, <2>8 DEF Sends
<1> QED
  BY <1>6, <1>7
-----------------------------------------------------------------------------
(* Saving an edited message.                                               *)

\* A message that is found is one of the conversation.
LEMMA FindRange ==
    ASSUME ChatType, NEW m, Find(m) > 0
    PROVE  Find(m) \in 1..Len(message)
<1> DEFINE I == {j \in 1..Len(message) : message[j] = m}
           J == {j \in 1..Len(message) : message[j].id = m.id}
<1>1. Len(message) \in Nat
  BY LenProperties DEF ChatType, TypeOK
<1>2. I \in SUBSET (1..Len(message)) /\ J \in SUBSET (1..Len(message))
  OBVIOUS
<1>3. Find(m) = LET same == IF I # {} THEN Min(I) ELSE 0
                IN IF same > 0 THEN same ELSE IF J # {} THEN Min(J) ELSE 0
  BY DEF Find, SelectInSeq
<1> HIDE DEF I, J
<1>4. (I # {} => Min(I) \in 1..Len(message)) /\ (J # {} => Min(J) \in 1..Len(message))
  BY <1>1, <1>2, FirstAndLast
<1>5. I # {} \/ J # {}
  BY <1>3
<1>6. \A n \in Nat : \A i \in 1..n : i > 0
  OBVIOUS
<1>7. CASE I # {}
  BY <1>1, <1>3, <1>4, <1>6, <1>7
<1>8. CASE I = {}
  BY <1>3, <1>4, <1>5, <1>8
<1> QED
  BY <1>7, <1>8

\* What becomes of a message when message e is edited.
NewText(m, e) == IF m.id = e.id THEN [m EXCEPT !.parts = {ReplyOf(e)} \intersect Requests] ELSE m

\* Only the text of a message changes, and one that is still being generated and has only its own
\* text is not touched: ids are given to several exchanges, but not to a default message and another.
LEMMA NewTextFine ==
    ASSUME NEW e \in Messages, NEW m \in Messages, NEW n \in 0..MaxRequests, NEW left, NEW left2, NEW fetching,
           e.uid <= 2 * n + 1, e.uid <= 1 <=> e.id < FirstId,
           m.id = e.id /\ ReplyOf(m) = ReplyOf(e) => ~Generating(m),
           left \subseteq left2,
           m.id = e.id /\ ReplyOf(m) # ReplyOf(e) => {ReplyOf(e)} \intersect Requests \subseteq left2,
           Fine(m, n, left, fetching)
    PROVE  LET x == NewText(m, e)
           IN /\ x \in Messages /\ x.uid = m.uid /\ x.id = m.id /\ x.role = m.role /\ x.status = m.status
              /\ ReplyOf(x) = ReplyOf(m)
              /\ Generating(x) /\ Clean(x) => x = m
              /\ Fine(x, n, left2, fetching)
<1> DEFINE own == {ReplyOf(e)} \intersect Requests
           x == [m EXCEPT !.parts = own]
<1>1. CASE m.id # e.id
  BY <1>1 DEF NewText, Fine
<1>2. CASE m.id = e.id
  <2>1. own \in SUBSET Requests
    OBVIOUS
  <2>2. /\ x \in Messages /\ x.uid = m.uid /\ x.id = m.id /\ x.role = m.role /\ x.status = m.status
        /\ x.parts = own
    <3> HIDE DEF own
    <3> QED
      BY <2>1, NewParts
  <2>3. NewText(m, e) = x
    BY <1>2 DEF NewText
  <2> HIDE DEF x
  <2>4. ReplyOf(x) = ReplyOf(m)
    BY <2>2, SameReply
  <2>5. ASSUME Generating(x), Clean(x) PROVE FALSE
    <3>1. Generating(m) /\ ReplyOf(m) # ReplyOf(e)
      BY <1>2, <2>2, <2>5 DEF Generating
    <3>2. ReplyOf(e) \notin Requests
      BY <2>2, <2>4, <2>5, <3>1 DEF Clean
    <3>3. /\ e.uid \in Nat /\ e.id \in Nat /\ ReplyOf(e) \in Nat /\ 2 * ReplyOf(e) <= e.uid
          /\ e.uid <= 2 * ReplyOf(e) + 1
      BY ReplyOfRange
    <3>4. /\ m.uid \in Nat /\ ReplyOf(m) \in Nat /\ 2 * ReplyOf(m) <= m.uid
      BY ReplyOfRange
    <3>5. MaxRequests \in Nat /\ n \in Nat /\ n <= MaxRequests
      BY BoundAssumption
    <3>6. ReplyOf(e) = 0
      BY <3>2, <3>3, <3>5 DEF Requests
    <3>7. e.uid <= 1
      BY <3>3, <3>6
    <3>8. m.uid <= 1
      BY <1>2, <3>7 DEF Fine
    <3>9. ReplyOf(m) = 0
      BY <3>4, <3>8
    <3> QED
      BY <3>1, <3>6, <3>9
  <2>6. x.parts \subseteq {ReplyOf(x)} \union left2
    BY <1>2, <2>2, <2>4
  <2>7. Fine(x, n, left2, fetching)
    <3>1. x.status # "incomplete" \/ ~Clean(x)
      BY <2>5 DEF Generating
    <3> QED
      BY <2>2, <2>6, <3>1 DEF Fine
  <2> HIDE DEF own
  <2> QED
    BY <2>2, <2>3, <2>4, <2>5, <2>7
<1> QED
  BY <1>1, <1>2

\* The conversation with the new text in it.
LEMMA EditedList ==
    ASSUME ChatType, ListsInv, EditInv, SpinnerIsLast, editing # NoMessage, NEW list, list = Edited(editing),
           NEW left2, loose \subseteq left2,
           (\E j \in DOMAIN message : message[j].id = editing.id /\ ReplyOf(message[j]) # ReplyOf(editing))
             => {ReplyOf(editing)} \intersect Requests \subseteq left2
    PROVE  /\ list \in Seq(Messages) /\ Len(list) = Len(message) /\ Len(message) \in Nat
           /\ ListOK(list, sent, left2, Fetching, Excused)
           /\ \A i \in 1..Len(message) :
                /\ list[i].uid = message[i].uid /\ list[i].status = message[i].status
                /\ ReplyOf(list[i]) = ReplyOf(message[i])
                /\ Generating(list[i]) /\ Clean(list[i]) =>
                    Excused \/ (i = Len(message) /\ ReplyOf(message[i]) \in Open)
<1>1. /\ message \in Seq(Messages) /\ Len(message) \in Nat /\ DOMAIN message = 1..Len(message)
      /\ \A i \in 1..Len(message) : message[i] \in Messages
      /\ editing \in Messages /\ sent \in 0..MaxRequests
  BY LenProperties, ElementOfSeq DEF ChatType, TypeOK
<1>2. list = [j \in 1..Len(message) |-> NewText(message[j], editing)]
  BY <1>1 DEF Edited, NewText
<1>3. ASSUME NEW i \in 1..Len(message)
      PROVE  LET x == NewText(message[i], editing)
             IN /\ x \in Messages /\ x.uid = message[i].uid /\ x.status = message[i].status
                /\ ReplyOf(x) = ReplyOf(message[i])
                /\ Generating(x) /\ Clean(x) => x = message[i]
                /\ Fine(x, sent, left2, Fetching)
  <2>1. PICK m \in Messages : m = message[i]
    BY <1>1
  <2>2. PICK e \in Messages : e = editing
    BY <1>1
  <2>3. Fine(m, sent, loose, Fetching)
    BY <2>1 DEF ListsInv, Lists, ListOK
  <2>4. /\ e.uid <= 2 * sent + 1 /\ (e.uid <= 1 <=> e.id < FirstId)
        /\ m.id = e.id /\ ReplyOf(m) = ReplyOf(e) => ~Generating(m)
    BY <2>1, <2>2 DEF EditInv
  <2>5. m.id = e.id /\ ReplyOf(m) # ReplyOf(e) => {ReplyOf(e)} \intersect Requests \subseteq left2
    BY <1>1, <2>1, <2>2
  <2>6. LET x == NewText(m, e)
        IN /\ x \in Messages /\ x.uid = m.uid /\ x.id = m.id /\ x.role = m.role /\ x.status = m.status
           /\ ReplyOf(x) = ReplyOf(m)
           /\ Generating(x) /\ Clean(x) => x = m
           /\ Fine(x, sent, left2, Fetching)
    BY <1>1, <2>3, <2>4, <2>5, NewTextFine
  <2> QED
    BY <2>1, <2>2, <2>6
<1>4. /\ list \in Seq(Messages) /\ Len(list) = Len(message)
      /\ \A i \in 1..Len(message) : list[i] = NewText(message[i], editing)
  <2>1. \A i \in 1..Len(message) : NewText(message[i], editing) \in Messages
    BY <1>3
  <2> QED
    BY <1>1, <1>2, <2>1
<1>5. ASSUME NEW i \in 1..Len(message)
      PROVE  /\ list[i].uid = message[i].uid /\ list[i].status = message[i].status
             /\ ReplyOf(list[i]) = ReplyOf(message[i])
             /\ Fine(list[i], sent, left2, Fetching)
             /\ Generating(list[i]) /\ Clean(list[i]) =>
                    Excused \/ (i = Len(message) /\ ReplyOf(message[i]) \in Open)
  <2>1. PICK x : x = list[i]
    OBVIOUS
  <2>2. /\ x.uid = message[i].uid /\ x.status = message[i].status /\ ReplyOf(x) = ReplyOf(message[i])
        /\ Fine(x, sent, left2, Fetching) /\ (Generating(x) /\ Clean(x) => x = message[i])
    BY <1>3, <1>4, <2>1
  <2>3. Generating(message[i]) /\ Clean(message[i]) =>
            Excused \/ (i = Len(message) /\ ReplyOf(message[i]) \in Open)
    BY <1>1 DEF SpinnerIsLast, Excused, Clean
  <2> QED
    BY <2>1, <2>2, <2>3
<1>6. ListOK(list, sent, left2, Fetching, Excused)
  <2>1. \A n \in Nat : \A j \in 1..n : j < n => j # n
    OBVIOUS
  <2>2. \A j \in 1..Len(message) : j < Len(message) => j # Len(message)
    BY <1>1, <2>1, Zenon
  <2> QED
    BY <1>4, <1>5, <2>2 DEF ListOK
<1> QED
  BY <1>1, <1>4, <1>5, <1>6

\* handleEditSave keeps the invariant.
LEMMA EditSaveStep == ASSUME ChatInv, EditSave PROVE ChatInv'
<1>1. /\ ChatType /\ ListsInv /\ AwaitInv /\ CrashInv
      /\ EditInv /\ DialogInv /\ SpinnerIsLast /\ WordsInv
  BY DEF ChatInv
<1>2. /\ Reacts /\ editing # NoMessage /\ Find(editing) > 0 /\ editing' = NoMessage
      /\ loose' = IF \E j \in DOMAIN message :
                        message[j].id = editing.id /\ ReplyOf(message[j]) # ReplyOf(editing)
                  THEN loose \union ({ReplyOf(editing)} \intersect Requests) ELSE loose
      /\ UNCHANGED <<stored, resend, nextId, request, chunks, sent, sseRef, crashed,
                     silent, stale, crossed, wiped, dropped>>
  BY DEF EditSave, network
<1>3. PICK at \in 1..Len(message) : at = Find(editing)
  BY <1>1, <1>2, FindRange
<1>4. PICK list : list = Edited(editing)
  OBVIOUS
<1>5. \/ /\ at < Len(message) /\ dialog' = [kind |-> "edit", list |-> list, index |-> at]
         /\ UNCHANGED <<message, saves>>
      \/ message' = list /\ saves' = Append(saves, list) /\ dialog' = dialog
  BY <1>3, <1>4 DEF EditSave, Save
<1>6. /\ loose \subseteq loose' /\ loose' \subseteq Requests
      /\ (\E j \in DOMAIN message : message[j].id = editing.id /\ ReplyOf(message[j]) # ReplyOf(editing))
             => {ReplyOf(editing)} \intersect Requests \subseteq loose'
  BY <1>1, <1>2 DEF ChatType, TypeOK
<1>7. PICK left2 : left2 = loose'
  OBVIOUS
<1>8. /\ list \in Seq(Messages) /\ Len(list) = Len(message) /\ Len(message) \in Nat
      /\ ListOK(list, sent, left2, Fetching, Excused)
      /\ \A i \in 1..Len(message) :
            /\ list[i].uid = message[i].uid /\ list[i].status = message[i].status
            /\ ReplyOf(list[i]) = ReplyOf(message[i])
            /\ Generating(list[i]) /\ Clean(list[i]) =>
                Excused \/ (i = Len(message) /\ ReplyOf(message[i]) \in Open)
  BY <1>1, <1>2, <1>4, <1>6, <1>7, EditedList
<1>9. Open' = Open /\ Fetching' = Fetching /\ (Excused => Excused') /\ sent \in Nat
  BY <1>1, <1>2, ListsType DEF Open, Fetching, Excused
<1>10. Grows
  BY <1>2, <1>6, <1>9 DEF Grows
<1>11. ListOK(list, sent', loose', Fetching', Excused')
  BY <1>2, <1>7, <1>8, <1>9 DEF ListOK
<1>12. EditInv' /\ CrashInv'
  BY <1>1, <1>2, <1>6 DEF EditInv, CrashInv
<1>13. dialog = NoDialog /\ Len(saves) < MaxSaves /\ Len(saves) \in Nat /\ MaxSaves \in Nat
  BY <1>1, <1>2, BoundAssumption, LenProperties DEF Reacts, ChatType, TypeOK
<1>14. CASE message' = list /\ saves' = Append(saves, list) /\ dialog' = dialog
  <2>1. Stores
    BY <1>2, <1>13, <1>14 DEF Stores
  <2>2. /\ saves' \in Seq(Seq(Messages)) /\ stored' \in Seq(Messages) \union {Nothing}
        /\ Len(saves') <= MaxSaves + 1 /\ Copies' \subseteq Copies \union {message'}
    BY <1>1, <1>8, <1>14, <2>1, StoresStep
  <2>3. TypeOK'
    BY <1>1, <1>2, <1>6, <1>8, <1>14, <2>2 DEF ChatType, TypeOK
  <2>4. ChatType'
    BY <1>1, <1>2, <1>13, <1>14, <2>3, NoDialogKind DEF ChatType
  <2>5. ListsInv'
    <3>1. Lists' \subseteq Lists \union {message'}
      BY <1>14, <2>2, DialogLists
    <3> QED
      BY <1>1, <1>10, <1>11, <1>14, <3>1, ListsStep
  <2>6. DialogInv'
    BY <1>13, <1>14, NoDialogKind DEF DialogInv
  <2>7. message' \in Seq(Messages) /\ message \in Seq(Messages) /\ DOMAIN message' = 1..Len(message)
    BY <1>1, <1>8, <1>14, LenProperties DEF ChatType, TypeOK
  <2>8. SpinnerIsLast'
    <3> SUFFICES ASSUME NEW i \in 1..Len(message), Generating(message'[i]), Clean(message'[i])
                 PROVE  (i = Len(message') /\ ReplyOf(message'[i]) \in Open') \/ Excused'
      BY <2>7 DEF SpinnerIsLast, Excused, Clean
    <3> QED
      BY <1>8, <1>9, <1>14
  <2>9. AwaitInv'
    <3> SUFFICES ASSUME NEW k \in Unawaited' PROVE k \in loose'
      BY DEF AwaitInv
    <3>1. k \in Open /\ (~LastGenerating' \/ ReplyOf(Last(message')) # k)
      BY <1>9 DEF Unawaited
    <3>2. CASE LastGenerating /\ ReplyOf(Last(message)) = k
      <4>1. message # <<>> /\ Len(message) \in 1..Len(message) /\ Last(message) = message[Len(message)]
        BY <2>7, <3>2, LastIn DEF LastGenerating
      <4>2. message' # <<>> /\ Last(message') = list[Len(message)]
        BY <1>8, <1>14, <2>7, <4>1, SameLength DEF Last
      <4>3. Generating(Last(message')) /\ ReplyOf(Last(message')) = ReplyOf(Last(message))
        BY <1>8, <3>2, <4>1, <4>2 DEF LastGenerating, Generating
      <4> QED
        BY <3>1, <3>2, <4>2, <4>3 DEF LastGenerating
    <3>3. CASE ~(LastGenerating /\ ReplyOf(Last(message)) = k)
      BY <1>1, <1>6, <3>1, <3>3 DEF AwaitInv, Unawaited
    <3> QED
      BY <3>2, <3>3
  <2>10. WordsInv'
    BY <1>1, <1>14, <2>1, <2>7, WordsStep
  <2> QED
    BY <1>12, <2>4, <2>5, <2>6, <2>8, <2>9, <2>10 DEF ChatInv
<1>15. CASE /\ at < Len(message) /\ dialog' = [kind |-> "edit", list |-> list, index |-> at]
            /\ UNCHANGED <<message, saves>>
  <2>1. /\ dialog'.kind = "edit" /\ dialog'.list = list /\ dialog'.index = at /\ at < Len(message)
        /\ message' = message /\ saves' = saves /\ dialog' # NoDialog
    BY <1>15, NoDialogKind
  <2>2. TypeOK'
    BY <1>1, <1>2, <1>6, <2>1 DEF ChatType, TypeOK
  <2>3. ChatType'
    BY <1>1, <1>2, <1>8, <1>13, <2>1, <2>2 DEF ChatType
  <2>4. ListsInv'
    <3>1. Kept' = Kept /\ Copies' = Copies
      BY <1>2, <2>1 DEF Kept, Copies
    <3>2. Lists' \subseteq Lists \union {list}
      BY <2>1, <3>1 DEF Lists
    <3> QED
      BY <1>1, <1>10, <1>11, <3>2, ListsStep
  <2>5. LastGenerating' = LastGenerating
    BY <2>1 DEF LastGenerating
  <2>6. AwaitInv'
    BY <1>1, <1>6, <1>9, <2>1, <2>5 DEF AwaitInv, Unawaited
  <2>7. SpinnerIsLast'
    BY <1>1, <1>2, <1>9, <2>1 DEF SpinnerIsLast
  <2>8. WordsInv'
    <3>1. Newest' = Newest
      BY <1>2, <2>1 DEF Newest, Kept
    <3> QED
      BY <1>1, <1>2, <2>1, <3>1 DEF WordsInv, Lost
  <2>9. DialogInv'
    <3>1. /\ dialog'.index < Len(dialog'.list) /\ Len(dialog'.list) <= Len(message')
      BY <1>8, <2>1
    <3>2. ASSUME NEW i \in 1..Len(list), Generating(list[i]), Clean(list[i])
          PROVE  Excused' \/ (i = Len(list) /\ ReplyOf(list[i]) \in Open')
      BY <1>8, <1>9, <3>2
    <3> QED
      BY <1>2, <2>1, <3>1, <3>2 DEF DialogInv
  <2> QED
    BY <1>12, <2>3, <2>4, <2>6, <2>7, <2>8, <2>9 DEF ChatInv
<1> QED
  BY <1>5, <1>14, <1>15
-----------------------------------------------------------------------------
(* The edit dialog.                                                        *)

\* A list that has gone on differs in its uids or its statuses.
LEMMA MovedIsSeen ==
    ASSUME ChatType, NEW list \in Seq(Messages), list # <<>>, Generating(Last(list)), Moved(list)
    PROVE  Uids(message) # Uids(list) \/ Statuses(message) # Statuses(list)
<1>1. /\ message \in Seq(Messages) /\ Len(message) \in Nat /\ DOMAIN message = 1..Len(message)
      /\ Len(list) \in Nat \ {0} /\ DOMAIN list = 1..Len(list) /\ Last(list) = list[Len(list)]
  BY LastIn, LenProperties DEF ChatType, TypeOK
<1>2. /\ Uids(message) = [i \in 1..Len(message) |-> message[i].uid]
      /\ Uids(list) = [i \in 1..Len(list) |-> list[i].uid]
  BY <1>1 DEF Uids
<1>3. /\ Statuses(message) = [i \in 1..Len(message) |-> message[i].status]
      /\ Statuses(list) = [i \in 1..Len(list) |-> list[i].status]
  BY <1>1 DEF Statuses
<1>4. CASE Len(message) # Len(list)
  <2>1. 1..Len(message) # 1..Len(list)
    <3>1. ASSUME NEW a \in Nat, NEW b \in Nat, a < b PROVE b \in 1..b /\ b \notin 1..a
      BY <3>1
    <3>2. \A a, b \in Nat : a # b => a < b \/ b < a
      OBVIOUS
    <3>3. Len(message) \in Nat /\ Len(list) \in Nat
      BY <1>1
    <3>4. Len(message) < Len(list) \/ Len(list) < Len(message)
      BY <1>4, <3>2, <3>3, Zenon
    <3> QED
      BY <3>1, <3>3, <3>4, Zenon
  <2>2. DOMAIN Uids(message) = 1..Len(message) /\ DOMAIN Uids(list) = 1..Len(list)
    BY <1>2
  <2> QED
    BY <2>1, <2>2
<1>5. CASE Len(message) = Len(list)
  <2>1. Len(list) \in 1..Len(list)
    BY <1>1
  <2>2. /\ Statuses(list)[Len(list)] = Last(list).status
        /\ Statuses(message)[Len(list)] = Last(message).status
    BY <1>1, <1>3, <1>5, <2>1 DEF Last
  <2>3. Last(list).status # Last(message).status
    BY <1>5 DEF Moved, Generating
  <2> QED
    BY <2>2, <2>3
<1> QED
  BY <1>4, <1>5

\* The dialog puts back the beginning of its list.
LEMMA RestoredPart ==
    ASSUME ChatType, ListsInv, DialogInv, dialog.kind = "edit", NEW new,
           new = SubSeq(dialog.list, 1, dialog.index)
    PROVE  /\ new \in Seq(Messages) /\ ListOK(new, sent, loose, Fetching, Excused)
           /\ \A i \in 1..Len(new) : Generating(new[i]) /\ Clean(new[i]) => Excused
<1>1. PICK list \in Seq(Messages) : list = dialog.list
  BY DEF ChatType
<1>2. Len(list) \in Nat /\ dialog.index \in Nat /\ dialog.index < Len(list)
  BY <1>1, LenProperties DEF ChatType, DialogInv
<1>3. PICK n \in 0..Len(list) : n = dialog.index
  BY <1>2
<1>4. ListOK(list, sent, loose, Fetching, Excused)
  BY <1>1 DEF ListsInv, Lists
<1>5. new = SubSeq(list, 1, n)
  BY <1>1, <1>3
<1>6. \A x : x = SubSeq(list, 1, n) =>
            x \in Seq(Messages) /\ Len(x) = n /\ \A i \in 1..n : x[i] = list[i]
  BY Prefix
<1>7. new \in Seq(Messages) /\ Len(new) = n /\ \A i \in 1..n : new[i] = list[i]
  BY <1>5, <1>6, Zenon
<1>8. \A i \in 1..n : i \in 1..Len(list) /\ i < Len(list)
  BY <1>2, <1>3
<1>9. \A i \in 1..n : /\ Fine(new[i], sent, loose, Fetching)
                      /\ Generating(new[i]) /\ Clean(new[i]) => Excused
  BY <1>4, <1>7, <1>8 DEF ListOK
<1> QED
  BY <1>7, <1>9 DEF ListOK

\* The dialog puts back its list.
LEMMA RestoredWhole ==
    ASSUME ChatType, ListsInv, DialogInv, dialog.kind = "edit", NEW list, list = dialog.list
    PROVE  /\ list \in Seq(Messages) /\ ListOK(list, sent, loose, Fetching, Excused)
           /\ \A i \in 1..Len(list) :
                Generating(list[i]) /\ Clean(list[i]) =>
                    \/ Excused
                    \/ i = Len(list) /\ ReplyOf(list[i]) \in Open
                    \/ Uids(message) # Uids(list) \/ Statuses(message) # Statuses(list)
<1>1. list \in Seq(Messages) /\ Len(list) \in Nat
  BY LenProperties DEF ChatType
<1>2. ListOK(list, sent, loose, Fetching, Excused)
  BY DEF ListsInv, Lists
<1>3. ASSUME NEW i \in 1..Len(list), Generating(list[i]), Clean(list[i])
      PROVE  \/ Excused
             \/ i = Len(list) /\ ReplyOf(list[i]) \in Open
             \/ Uids(message) # Uids(list) \/ Statuses(message) # Statuses(list)
  <2>1. Excused \/ (i = Len(list) /\ (ReplyOf(list[i]) \in Open \/ Moved(list)))
    BY <1>3 DEF DialogInv
  <2>2. CASE i = Len(list) /\ Moved(list)
    <3>1. list # <<>> /\ Generating(Last(list))
      BY <1>1, <1>3, <2>2, NotEmpty DEF Last
    <3> QED
      BY <1>1, <2>2, <3>1, MovedIsSeen
  <2> QED
    BY <2>1, <2>2
<1> QED
  BY <1>1, <1>2, <1>3

\* What the dialog puts back.
LEMMA Restored ==
    ASSUME ChatType, ListsInv, DialogInv, dialog.kind = "edit", NEW regenerate \in BOOLEAN, NEW new,
           new = IF regenerate THEN SubSeq(dialog.list, 1, dialog.index) ELSE dialog.list
    PROVE  /\ new \in Seq(Messages) /\ ListOK(new, sent, loose, Fetching, Excused)
           /\ \A i \in 1..Len(new) :
                Generating(new[i]) /\ Clean(new[i]) =>
                    \/ Excused
                    \/ i = Len(new) /\ ReplyOf(new[i]) \in Open
                    \/ Uids(message) # Uids(dialog.list) \/ Statuses(message) # Statuses(dialog.list)
<1>1. CASE regenerate
  <2>1. new = SubSeq(dialog.list, 1, dialog.index)
    BY <1>1
  <2>2. /\ new \in Seq(Messages) /\ ListOK(new, sent, loose, Fetching, Excused)
        /\ \A i \in 1..Len(new) : Generating(new[i]) /\ Clean(new[i]) => Excused
    BY <2>1, RestoredPart, Zenon
  <2> QED
    BY <2>2
<1>2. CASE ~regenerate
  <2>1. new = dialog.list
    BY <1>2
  <2> QED
    BY <2>1, RestoredWhole
<1> QED
  BY <1>1, <1>2

\* Confirming the edit keeps the invariant.
LEMMA EditDialogStep == ASSUME ChatInv, NEW regenerate \in BOOLEAN, EditDialog(regenerate) PROVE ChatInv'
<1>1. /\ ChatType /\ ListsInv /\ AwaitInv /\ CrashInv
      /\ EditInv /\ DialogInv /\ SpinnerIsLast /\ WordsInv
  BY DEF ChatInv
<1>2. PICK new : new = IF regenerate THEN SubSeq(dialog.list, 1, dialog.index) ELSE dialog.list
  OBVIOUS
<1>3. /\ dialog.kind = "edit" /\ message' = new /\ saves' = Append(saves, message') /\ dialog' = NoDialog
      /\ stale' = (stale \/ Uids(message) # Uids(dialog.list) \/ Statuses(message) # Statuses(dialog.list))
      /\ loose' = loose \union Open
      /\ resend' = resend \/ resend' = Append(resend, "reply")
      /\ UNCHANGED <<stored, nextId, request, chunks, sent, sseRef, editing, crashed, silent, crossed, wiped, dropped>>
  BY <1>2 DEF EditDialog, Save, network
<1>4. /\ new \in Seq(Messages) /\ ListOK(new, sent, loose, Fetching, Excused)
      /\ \A i \in 1..Len(new) :
            Generating(new[i]) /\ Clean(new[i]) =>
                \/ Excused
                \/ i = Len(new) /\ ReplyOf(new[i]) \in Open
                \/ Uids(message) # Uids(dialog.list) \/ Statuses(message) # Statuses(dialog.list)
  BY <1>1, <1>2, <1>3, Restored
<1>5. Open' = Open /\ Fetching' = Fetching /\ sent \in Nat /\ sent' = sent
  BY <1>1, <1>3, ListsType DEF Open, Fetching
<1>6. /\ Excused => Excused'
      /\ Uids(message) # Uids(dialog.list) \/ Statuses(message) # Statuses(dialog.list) => Excused'
  BY <1>3 DEF Excused
<1>7. loose \subseteq loose' /\ loose' \subseteq Requests /\ Open' \subseteq loose'
  BY <1>1, <1>3, <1>5 DEF ChatType, TypeOK, Open
<1>8. Grows
  BY <1>5, <1>6, <1>7 DEF Grows
<1>9. dialog # NoDialog /\ dialog'.kind = "none"
  BY <1>3, NoDialogKind
<1>10. Stores
  BY <1>3, <1>9 DEF Stores
<1>11. /\ saves' \in Seq(Seq(Messages)) /\ stored' \in Seq(Messages) \union {Nothing}
       /\ Len(saves') <= MaxSaves + 1 /\ Copies' \subseteq Copies \union {message'}
  BY <1>1, <1>3, <1>4, <1>10, StoresStep
<1>12. ChatType'
  <2>1. resend' \in Seq({"send", "reply"})
    BY <1>1, <1>3, AppendProperties DEF ChatType, TypeOK
  <2>2. TypeOK'
    BY <1>1, <1>3, <1>4, <1>7, <1>9, <1>11, <2>1 DEF ChatType, TypeOK
  <2> QED
    BY <1>1, <1>3, <1>9, <2>2 DEF ChatType
<1>13. ListsInv'
  <2>1. Lists' \subseteq Lists \union {message'}
    BY <1>9, <1>11, DialogLists
  <2>2. ListOK(new, sent', loose', Fetching', Excused')
    BY <1>4, <1>5, <1>6, <1>7, ListGrows
  <2> QED
    BY <1>1, <1>3, <1>8, <2>1, <2>2, ListsStep
<1>14. AwaitInv'
  BY <1>7, OpenLoose DEF AwaitInv
<1>15. CrashInv' /\ EditInv' /\ DialogInv'
  BY <1>1, <1>3, <1>7, <1>9 DEF CrashInv, EditInv, DialogInv
<1>16. SpinnerIsLast'
  <2>1. DOMAIN message' = 1..Len(new)
    BY <1>3, <1>4, LenProperties
  <2> SUFFICES ASSUME NEW i \in 1..Len(new), Generating(message'[i]), Clean(message'[i])
               PROVE  (i = Len(message') /\ ReplyOf(message'[i]) \in Open') \/ Excused'
    BY <2>1 DEF SpinnerIsLast, Excused, Clean
  <2> QED
    BY <1>3, <1>4, <1>5, <1>6
<1>17. WordsInv'
  BY <1>1, <1>3, <1>4, <1>10, WordsStep
<1> QED
  BY <1>12, <1>13, <1>14, <1>15, <1>16, <1>17 DEF ChatInv
-----------------------------------------------------------------------------
(* Loading the page again.                                                 *)

\* What is shown after a load: what was stored, with a last message that is not being generated.
LEMMA Fixed ==
    ASSUME NEW list \in Seq(Messages), ListOK(list, sent, loose, Fetching, Excused), list # <<>>,
           NEW new, new = Front(list) \o <<[Last(list) EXCEPT !.status = "complete"]>>
    PROVE  /\ new \in Seq(Messages) /\ ListOK(new, sent, loose, Fetching, Excused)
           /\ \A i \in 1..Len(new) : Generating(new[i]) /\ Clean(new[i]) => Excused
<1> DEFINE m == Last(list)
           x == [m EXCEPT !.status = "complete"]
<1>1. m \in Messages /\ m = list[Len(list)] /\ Len(list) \in Nat \ {0} /\ Len(list) \in 1..Len(list)
  BY LastIn
<1>2. x \in Messages /\ x.uid = m.uid /\ x.id = m.id /\ x.parts = m.parts /\ x.status = "complete"
  BY <1>1, NewStatus
<1> HIDE DEF x, m
<1>3. /\ new \in Seq(Messages) /\ Len(new) = Len(list) /\ new[Len(list)] = x
      /\ \A i \in 1..Len(list) : i # Len(list) => new[i] = list[i]
  <2>1. new = Front(list) \o <<x>>
    BY DEF x, m
  <2>2. LET y == Front(list) \o <<x>>
        IN /\ y \in Seq(Messages) /\ Len(y) = Len(list) /\ y[Len(list)] = x
           /\ \A i \in 1..Len(list) : i # Len(list) => y[i] = list[i]
    BY <1>2, ReplaceLast
  <2> QED
    BY <2>1, <2>2
<1>4. Fine(m, sent, loose, Fetching)
  BY <1>1 DEF ListOK
<1>5. ReplyOf(x) = ReplyOf(m)
  BY <1>2, SameReply
<1>6. Fine(x, sent, loose, Fetching) /\ ~Generating(x)
  BY <1>2, <1>4, <1>5 DEF Fine, Generating
<1>7. \A i \in 1..Len(list) : i # Len(list) => i < Len(list)
  BY <1>1
<1>8. \A i \in 1..Len(list) : /\ Fine(new[i], sent, loose, Fetching)
                              /\ Generating(new[i]) /\ Clean(new[i]) => Excused
  BY <1>3, <1>6, <1>7 DEF ListOK
<1> QED
  BY <1>3, <1>8 DEF ListOK

\* A load keeps the invariant.
LEMMA ReloadStep == ASSUME ChatInv, Reload PROVE ChatInv'
<1>1. ChatType /\ ListsInv
  BY DEF ChatInv
<1>2. /\ nextId' = FirstId /\ resend' = <<>> /\ sseRef' = 0
      /\ request' = [k \in Requests |-> IF k \in Open THEN "closed" ELSE request[k]]
      /\ editing' = NoMessage /\ dialog' = NoDialog /\ crashed' = FALSE /\ wiped' = FALSE /\ dropped' = FALSE
      /\ UNCHANGED <<chunks, sent, loose, silent, stale, crossed>>
  BY DEF Reload
<1>3. PICK list \in Seq(Messages) : list = Kept'
  <2>1. stored' \in {stored, Nothing}
    BY DEF Reload, Restore
  <2> QED
    BY <1>1, <2>1, ListsType, DefaultOK DEF Kept
<1>4. list = Kept \/ list = Default
  BY <1>3 DEF Reload, Restore, Kept
<1>5. ListOK(list, sent, loose, Fetching, Excused) /\ sent \in Nat
  <2>1. sent \in Nat /\ ListOK(Kept, sent, loose, Fetching, Excused)
    BY <1>1, ListsType DEF ListsInv, Lists, Copies
  <2> QED
    BY <1>4, <2>1, DefaultOK
<1>6. /\ message' \in Seq(Messages) /\ ListOK(message', sent, loose, Fetching, Excused)
      /\ \A i \in 1..Len(message') : Generating(message'[i]) /\ Clean(message'[i]) => Excused
      /\ (saves' = <<>> /\ message' = list) \/ saves' = <<message'>>
  <2>1. PICK new : new = message'
    OBVIOUS
  <2>a. CASE Restore
    <3>0. list = Kept
      BY <1>3, <2>a DEF Restore, Kept
    <3>a. CASE list # <<>> /\ Generating(Last(list))
      <4>1. /\ new = Front(list) \o <<[Last(list) EXCEPT !.status = "complete"]>>
            /\ saves' = <<message'>>
        BY <2>1, <2>a, <3>0, <3>a DEF Restore
      <4>2. /\ new \in Seq(Messages) /\ ListOK(new, sent, loose, Fetching, Excused)
            /\ \A i \in 1..Len(new) : Generating(new[i]) /\ Clean(new[i]) => Excused
        BY <1>5, <3>a, <4>1, Fixed
      <4> QED
        BY <2>1, <4>1, <4>2
    <3>b. CASE ~(list # <<>> /\ Generating(Last(list)))
      <4>1. message' = list /\ saves' = <<>>
        BY <2>a, <3>0, <3>b DEF Restore
      <4>2. ASSUME NEW i \in 1..Len(list), Generating(list[i]), Clean(list[i]) PROVE Excused
        <5>1. list # <<>> /\ Last(list) = list[Len(list)] /\ Len(list) \in Nat
          BY NotEmpty, LastIn
        <5>2. i # Len(list)
          BY <3>b, <4>2, <5>1
        <5>3. i < Len(list)
          BY <5>1, <5>2
        <5> QED
          BY <1>5, <4>2, <5>3 DEF ListOK
      <4> QED
        BY <1>5, <4>1, <4>2
    <3> QED
      BY <3>a, <3>b
  <2>b. CASE stored' = Nothing /\ message' = Default /\ saves' = <<>>
    <3>1. list = Default
      BY <1>3, <2>b DEF Kept
    <3> QED
      BY <1>5, <2>b, <3>1, DefaultOK
  <2> QED
    BY <2>a, <2>b DEF Reload
<1>7. /\ Open' = {} /\ Fetching' = {}
      /\ request' \in [Requests -> {"none", "stream", "fetch", "closed"}]
  <2>1. request \in [Requests -> {"none", "stream", "fetch", "closed"}]
    BY <1>1 DEF ChatType, TypeOK
  <2>2. \A k \in Requests : request'[k] \in {"none", "closed"}
    BY <1>2, <2>1 DEF Open
  <2>3. request' \in [Requests -> {"none", "stream", "fetch", "closed"}]
    BY <1>2, <2>1
  <2> QED
    BY <2>2, <2>3 DEF Open, Fetching
<1>8. (Excused => Excused') /\ Grows
  BY <1>2, <1>5, <1>7 DEF Excused, Grows
<1>9. /\ saves' \in Seq(Seq(Messages)) /\ Len(saves') \in {0, 1}
      /\ \A i \in 1..Len(saves') : saves'[i] = message'
  <2>1. \A S : \A x \in S : <<x>> \in Seq(S) /\ Len(<<x>>) = 1 /\ \A i \in 1..1 : <<x>>[i] = x
    OBVIOUS
  <2>2. CASE saves' = <<>>
    BY <2>2
  <2>3. CASE saves' = <<message'>>
    BY <1>6, <2>1, <2>3
  <2> QED
    BY <1>6, <2>2, <2>3
<1>10. ChatType'
  <2>1. dialog'.kind = "none" /\ MaxSaves \in Nat \ {0} /\ MaxRequests \in Nat
    BY <1>2, NoDialogKind, BoundAssumption
  <2>2. sseRef' \in 0..sent' /\ Len(saves') <= MaxSaves + 1 /\ nextId' \in Nat /\ nextId' >= FirstId
    BY <1>2, <1>5, <1>9, <2>1 DEF FirstId
  <2>3. resend' \in Seq({"send", "reply"})
    BY <1>2
  <2>4. stored' \in Seq(Messages) \union {Nothing}
    BY <1>1 DEF Reload, Restore, ChatType, TypeOK
  <2>5. TypeOK'
    BY <1>1, <1>2, <1>6, <1>7, <1>9, <2>1, <2>2, <2>3, <2>4 DEF ChatType, TypeOK
  <2> QED
    BY <1>2, <2>1, <2>2, <2>5 DEF ChatType
<1>11. ListsInv'
  <2>1. Lists' \subseteq {list, message'}
    <3>1. dialog'.kind # "edit" /\ Copies' \subseteq {list, message'}
      BY <1>2, <1>3, <1>9, NoDialogKind DEF Copies
    <3> QED
      BY <3>1 DEF Lists
  <2>2. ListOK(message', sent', loose', Fetching', Excused') /\ ListOK(list, sent', loose', Fetching', Excused')
    BY <1>2, <1>5, <1>6, <1>7, <1>8, ListGrows
  <2> QED
    BY <1>1, <1>8, <2>1, <2>2, ListsStep
<1>12. AwaitInv' /\ CrashInv' /\ EditInv' /\ DialogInv'
  BY <1>2, <1>7, NoDialogKind DEF AwaitInv, Unawaited, CrashInv, EditInv, DialogInv
<1>13. SpinnerIsLast'
  <2>1. DOMAIN message' = 1..Len(message')
    BY <1>6, LenProperties
  <2> SUFFICES ASSUME NEW i \in 1..Len(message'), Generating(message'[i]), Clean(message'[i]) PROVE Excused'
    BY <2>1 DEF SpinnerIsLast, Excused, Clean
  <2> QED
    BY <1>6, <1>8
<1>14. WordsInv'
  <2>1. Newest' = message'
    <3>1. CASE saves' = <<>> /\ message' = list
      BY <1>3, <3>1 DEF Newest
    <3>2. CASE saves' = <<message'>>
      <4>1. \A x : <<x>> # <<>> /\ <<x>>[1] = x /\ Len(<<x>>) = 1
        OBVIOUS
      <4> QED
        BY <3>2, <4>1 DEF Newest, Last
    <3> QED
      BY <1>6, <3>1, <3>2
  <2> QED
    BY <2>1 DEF WordsInv
<1> QED
  BY <1>10, <1>11, <1>12, <1>13, <1>14 DEF ChatInv
-----------------------------------------------------------------------------
(* The invariant.                                                          *)

\* The page that is loaded for the first time.
LEMMA ChatInit == ASSUME Init PROVE ChatInv
<1> USE DEF Init
<1>1. /\ message = Default /\ Default \in Seq(Messages) /\ Kept = Default /\ Len(message) = 2
      /\ \A i \in 1..2 : ~Generating(Default[i])
  BY DefaultOK DEF Kept
<1>2. /\ dialog.kind = "none" /\ Open = {} /\ Len(saves) = 0 /\ saves \in Seq(Seq(Messages))
      /\ resend \in Seq({"send", "reply"})
  BY NoDialogKind DEF Open
<1>3. 0 \in 0..MaxRequests /\ 0 \in 0..MaxChunks /\ 0 <= MaxSaves + 1 /\ 0 \in 0..0 /\ FirstId \in Nat /\ FirstId >= FirstId
  BY BoundAssumption DEF FirstId
<1>4. TypeOK
  BY <1>1, <1>2, <1>3 DEF TypeOK
<1>5. ChatType
  BY <1>2, <1>3, <1>4 DEF ChatType
<1>6. ListsInv
  <2>1. Lists = {Default}
    BY <1>1, <1>2 DEF Lists, Copies
  <2> QED
    BY <2>1, DefaultOK DEF ListsInv
<1>7. AwaitInv /\ CrashInv /\ EditInv /\ DialogInv
  BY <1>2 DEF AwaitInv, Unawaited, CrashInv, EditInv, DialogInv
<1>8. SpinnerIsLast
  <2>1. DOMAIN message = 1..2
    BY <1>1, LenProperties
  <2> QED
    BY <1>1, <2>1 DEF SpinnerIsLast
<1>9. WordsInv
  BY <1>1 DEF WordsInv, Newest
<1> QED
  BY <1>5, <1>6, <1>7, <1>8, <1>9 DEF ChatInv

\* Every step keeps the invariant.
LEMMA ChatNext == ASSUME ChatInv, [Next]_vars PROVE ChatInv'
<1>1. ChatType /\ AwaitInv /\ TypeOK
  BY DEF ChatInv, ChatType
<1>2. ASSUME NEW kind \in {"stream", "fetch"}, NEW custom \in BOOLEAN, Send(kind, custom) PROVE ChatInv'
  BY <1>2, SendSends, SendsStep, BoundAssumption
<1>3. ASSUME NEW kind \in {"stream", "fetch"}, NEW custom \in BOOLEAN, FireResend(kind, custom) PROVE ChatInv'
  BY <1>3, ResendSends, SendsStep, BoundAssumption
<1>4. CASE FireSave
  BY <1>1, <1>4, FireSaveQuiet, QuietStep
<1>5. ASSUME NEW k \in Requests, Chunk(k) PROVE ChatInv'
  BY <1>1, <1>5, ChunkAnswers, AnswerStep
<1>6. ASSUME NEW k \in Requests, Done(k) PROVE ChatInv'
  BY <1>1, <1>6, DoneAnswers, AnswerStep
<1>7. ASSUME NEW k \in Requests, ParseError(k) PROVE ChatInv'
  BY <1>1, <1>7, ParseErrorAnswers, AnswerStep
<1>8. ASSUME NEW k \in Requests, HttpError(k) PROVE ChatInv'
  BY <1>1, <1>8, HttpErrorAnswers, AnswerStep
<1>9. ASSUME NEW k \in Requests, SseError(k) PROVE ChatInv'
  BY <1>1, <1>9, SseErrorAnswers, AnswerStep
<1>10. ASSUME NEW k \in Requests, EndSilently(k) PROVE ChatInv'
  BY <1>1, <1>10, EndSilentlyAnswers, AnswerStep
<1>11. ASSUME NEW k \in Requests, NEW status \in {"complete", "error"}, FetchEnds(k, status) PROVE ChatInv'
  BY <1>1, <1>11, FetchAnswers, AnswerStep
<1>12. CASE Stop
  BY <1>1, <1>12, StopRewrites, RewriteStep
<1>13. CASE Clear
  BY <1>1, <1>13, ClearRewrites, RewriteStep
<1>14. ASSUME NEW i \in DOMAIN message, Reset(i) PROVE ChatInv'
  BY <1>1, <1>14, ResetRewrites, RewriteStep
<1>15. ASSUME NEW i \in DOMAIN message, RoleToggle(i) PROVE ChatInv'
  BY <1>1, <1>15, RoleRewrites, RewriteStep
<1>16. ASSUME NEW i \in DOMAIN message, AskDelete(i) PROVE ChatInv'
  BY <1>1, <1>16, AskDeleteQuiet, QuietStep
<1>17. ASSUME NEW i \in DOMAIN message, Edit(i) PROVE ChatInv'
  BY <1>1, <1>17, EditQuiet, QuietStep
<1>18. CASE Delete
  BY <1>1, <1>18, DeleteRewrites, RewriteStep
<1>19. CASE EditCancel
  BY <1>1, <1>19, EditCancelQuiet, QuietStep
<1>20. CASE EditSave
  BY <1>20, EditSaveStep
<1>21. CASE DialogCancel
  BY <1>1, <1>21, DialogCancelQuiet, QuietStep
<1>22. ASSUME NEW regenerate \in BOOLEAN, EditDialog(regenerate) PROVE ChatInv'
  BY <1>22, EditDialogStep
<1>23. CASE Reload
  BY <1>23, ReloadStep
<1>24. CASE ChangeLanguage
  BY <1>1, <1>24, LanguageRewrites, RewriteStep
<1>26. CASE SendRefused \/ ResendRefused
  BY <1>1, <1>26, RefusedQuiet, QuietStep
<1>25. CASE UNCHANGED vars
  <2>1. /\ UNCHANGED <<message, stored, saves, resend, nextId, request, chunks, sent, sseRef, editing, dialog,
                       crashed, loose, silent, stale, crossed, wiped, dropped>>
    BY <1>25 DEF vars, conversation, network, page, history
  <2>2. TypeOK'
    BY <1>1, <2>1 DEF TypeOK
  <2>3. ChatType'
    BY <1>1, <2>1, <2>2 DEF ChatType
  <2>4. Quiet
    BY <2>1, SameLists DEF Quiet
  <2> QED
    BY <2>3, <2>4, QuietStep
<1> QED
  BY <1>2, <1>3, <1>4, <1>5, <1>6, <1>7, <1>8, <1>9, <1>10, <1>11, <1>12, <1>13, <1>14, <1>15, <1>16, <1>17,
     <1>18, <1>19, <1>20, <1>21, <1>22, <1>23, <1>24, <1>25, <1>26 DEF Next

\* The conversation, its copies and the state of the page always have their type.
THEOREM ChatTypeCorrect == Spec => []TypeOK
<1>1. ChatInv => TypeOK
  BY DEF ChatInv, ChatType
<1> QED
  BY <1>1, ChatInit, ChatNext, PTL DEF Spec

\* Whatever arrives, in whatever order, and whatever the user does meanwhile, the text of a reply
\* comes from its own request or from one that was left open, and only such a request can make a
\* handler throw.
THEOREM RepliesKeepTheirWords == Spec => []OwnWords
<1>1. ChatInv => OwnWords
  <2> SUFFICES ASSUME ChatInv PROVE OwnWords
    OBVIOUS
  <2>1. /\ ListOK(message, sent, loose, Fetching, Excused) /\ (crashed => loose # {})
    BY DEF ChatInv, ListsInv, Lists, CrashInv
  <2>2. DOMAIN message = 1..Len(message)
    BY LenProperties DEF ChatInv, ChatType, TypeOK
  <2> QED
    BY <2>1, <2>2 DEF OwnWords, ListOK, Fine
<1> QED
  BY <1>1, ChatInit, ChatNext, PTL DEF Spec

\* A message that is being generated is the last one and its request is open, apart from the
\* exceptions that SpinnerIsLast names.
THEOREM SpinnerStaysLast == Spec => []SpinnerIsLast
<1>1. ChatInv => SpinnerIsLast
  BY DEF ChatInv
<1> QED
  BY <1>1, ChatInit, ChatNext, PTL DEF Spec

\* Once no save and no send is waiting, what the user said is what is stored, apart from the
\* exceptions that UserWordsStored names.
THEOREM WordsAreStored == Spec => []UserWordsStored
<1>1. ChatInv => UserWordsStored
  <2> SUFFICES ASSUME ChatInv, saves = <<>>, resend = <<>>, ~wiped, ~dropped
               PROVE  Uids(Said(message)) = Uids(Said(Kept))
    BY DEF UserWordsStored
  <2>1. \A i \in 1..Len(resend) : resend[i] # "send"
    OBVIOUS
  <2> QED
    BY <2>1 DEF ChatInv, WordsInv, Newest, Lost
<1> QED
  BY <1>1, ChatInit, ChatNext, PTL DEF Spec
-----------------------------------------------------------------------------
(* The desktop shell.                                                      *)

\* Every attempt that ended before the limit has left at most two more: as long as the limit
\* is not reached, what is scheduled is bounded by the attempts that are over.
ProbeInv ==
    /\ attempts \in Nat /\ inflight \in Nat /\ scheduled \in Nat
    /\ attempts < MaxRetries => scheduled <= 1 + attempts - 2 * inflight
    /\ attempts >= MaxRetries => attempts + scheduled < 2 * MaxRetries
    /\ start = "none" => attempts = 0 /\ inflight = 0 /\ scheduled = 0

\* The variable serverProcess holds the process as long as the application runs, and a
\* process whose end is still to be handled is dead.
ServerInv ==
    /\ proc \in {"none", "alive", "dead", "failed"} /\ serverProcess \in BOOLEAN
    /\ shutdown \in BOOLEAN /\ exited \in BOOLEAN
    /\ proc = "alive" /\ ~exited => serverProcess
    /\ exit # "none" => proc = "dead"
    /\ start = "none" => proc = "none"
    /\ NoOrphan

\* The limit holds because ProbeInv does.
LEMMA ProbeBound == ASSUME ProbeInv PROVE ProbesBounded
  BY ShellAssumption, Z3 DEF ProbeInv, ProbesBounded

\* Initially no probe has been sent and no process started.
LEMMA ShellInitInv == ShellInit => ProbeInv /\ ServerInv
<1> SUFFICES ASSUME ShellInit PROVE ProbeInv /\ ServerInv
  OBVIOUS
<1>1. ProbeInv
  BY ShellAssumption, Z3 DEF ShellInit, ProbeInv
<1>2. ServerInv
  BY Zenon DEF ShellInit, ServerInv, NoOrphan
<1> QED
  BY <1>1, <1>2

\* Every step keeps the count of the probes: a retry adds at most two for the one that ended.
LEMMA ProbeStep == ASSUME ProbeInv, [ShellNext]_shellVars PROVE ProbeInv'
<1> USE ShellAssumption DEF ProbeInv
<1>1. CASE Ready
  BY <1>1 DEF Ready
<1>a. CASE ReadyFails
  BY <1>a DEF ReadyFails, probing
<1>2. CASE TryConnect
  BY <1>2, Z3 DEF TryConnect
<1>3. CASE ProbeAnswered
  <2>1. start' = "none" => start = "none"
    BY <1>3 DEF ProbeAnswered, Resolve
  <2> QED
    BY <1>3, <2>1, Z3 DEF ProbeAnswered
<1>4. ASSUME NEW chains \in {1, 2}, inflight > 0, inflight' = inflight - 1, attempts' = attempts, Retry(chains)
      PROVE  ProbeInv'
  <2>1. start' = "none" => start = "none"
    BY <1>4 DEF Retry, Reject
  <2>2. CASE attempts >= MaxRetries
    BY <1>4, <2>1, <2>2, Z3 DEF Retry
  <2>3. CASE attempts < MaxRetries
    BY <1>4, <2>1, <2>3, Z3 DEF Retry
  <2> QED
    BY <2>2, <2>3
<1>5. CASE ProbeRefused
  BY <1>4, <1>5 DEF ProbeRefused
<1>6. CASE ProbeTimesOut
  BY <1>4, <1>6 DEF ProbeTimesOut
<1>7. CASE SpawnError
  <2>1. start' = "none" => start = "none"
    BY <1>7 DEF SpawnError, Reject
  <2> QED
    BY <1>7, <2>1 DEF SpawnError, probing
<1>8. ASSUME UNCHANGED <<attempts, inflight, scheduled, start>> PROVE ProbeInv'
  BY <1>8
<1>9. CASE ServerListens \/ ServerExits \/ ServerClose \/ (\E w \in Windows : ClickClose(w))
        \/ TrayShow \/ TrayClick \/ Activate \/ TrayQuit \/ SystemQuit \/ ShutdownTimer
  BY <1>8, <1>9 DEF ServerListens, ServerExits, ServerClose, ClickClose, TrayShow, TrayClick, Activate,
                    TrayQuit, SystemQuit, ShutdownTimer, probing
<1>10. CASE \E d \in {"start", "crash", "startLog", "crashLog"} : ViewLog(d) \/ AnswerDialog(d)
  BY <1>8, <1>10 DEF ViewLog, AnswerDialog, probing
<1>11. CASE UNCHANGED shellVars
  BY <1>8, <1>11 DEF shellVars, probing
<1> QED
  BY <1>1, <1>a, <1>2, <1>3, <1>5, <1>6, <1>7, <1>9, <1>10, <1>11 DEF ShellNext

\* Every step keeps the hold on the process: the only ways out are its 'close' event, SIGKILL,
\* and a quit without a process.
LEMMA ServerStep == ASSUME ServerInv, [ShellNext]_shellVars PROVE ServerInv'
<1> USE DEF ServerInv, NoOrphan
<1>1. CASE Ready
  BY <1>1 DEF Ready, quitting
<1>a. CASE ReadyFails
  BY <1>a DEF ReadyFails, server, quitting
<1>2. ASSUME UNCHANGED <<server, shutdown, exited>>, start' = "none" => start = "none" PROVE ServerInv'
  BY <1>2 DEF server
<1>3. CASE TryConnect \/ ProbeAnswered \/ ProbeRefused \/ ProbeTimesOut
  <2>1. UNCHANGED <<server, shutdown, exited>>
    BY <1>3 DEF TryConnect, ProbeAnswered, ProbeRefused, ProbeTimesOut, quitting
  <2>2. start' = "none" => start = "none"
    BY <1>3 DEF TryConnect, ProbeAnswered, ProbeRefused, ProbeTimesOut, Resolve, Retry, Reject
  <2> QED
    BY <1>2, <2>1, <2>2
<1>4. CASE (\E w \in Windows : ClickClose(w)) \/ TrayShow \/ TrayClick \/ Activate
  BY <1>2, <1>4 DEF ClickClose, TrayShow, TrayClick, Activate, quitting
<1>5. CASE \E d \in {"start", "crash", "startLog", "crashLog"} : ViewLog(d)
  BY <1>2, <1>5 DEF ViewLog, quitting
<1>6. CASE ServerListens
  BY <1>6 DEF ServerListens, quitting
<1>7. CASE ServerExits
  BY <1>7 DEF ServerExits, quitting
<1>8. CASE SpawnError
  <2>1. start' = "none" => start = "none"
    BY <1>8 DEF SpawnError, Reject
  <2> QED
    BY <1>8, <2>1 DEF SpawnError, quitting
<1>9. CASE ServerClose
  BY <1>9 DEF ServerClose
<1>10. ASSUME ~exited, Quit, UNCHANGED <<server, start>> PROVE ServerInv'
  BY <1>10 DEF Quit, server
<1>11. CASE TrayQuit \/ SystemQuit
  BY <1>10, <1>11 DEF TrayQuit, SystemQuit
<1>12. CASE \E d \in {"start", "crash", "startLog", "crashLog"} : AnswerDialog(d)
  BY <1>10, <1>12 DEF AnswerDialog
<1>13. CASE ShutdownTimer
  BY <1>13 DEF ShutdownTimer
<1>14. CASE UNCHANGED shellVars
  BY <1>2, <1>14 DEF shellVars, quitting
<1> QED
  BY <1>1, <1>a, <1>3, <1>4, <1>5, <1>6, <1>7, <1>8, <1>9, <1>11, <1>12, <1>13, <1>14 DEF ShellNext

\* For every maxRetries: whatever probes time out or are refused, fewer than 2 * maxRetries are
\* ever sent (checkServerAvailability).
THEOREM ProbesCorrect == ShellSpec => []ProbesBounded
<1>1. ShellInit => ProbeInv
  BY ShellInitInv
<1>2. ProbeInv /\ [ShellNext]_shellVars => ProbeInv'
  BY ProbeStep
<1>3. ProbeInv => ProbesBounded
  BY ProbeBound
<1> QED
  BY <1>1, <1>2, <1>3, PTL DEF ShellSpec

\* For any number of windows and probes: when the application has exited its server is not
\* running (the before-quit handler).
THEOREM ExitCorrect == ShellSpec => []NoOrphan
<1>1. ShellInit => ServerInv
  BY ShellInitInv
<1>2. ServerInv /\ [ShellNext]_shellVars => ServerInv'
  BY ServerStep
<1>3. ServerInv => NoOrphan
  BY DEF ServerInv
<1> QED
  BY <1>1, <1>2, <1>3, PTL DEF ShellSpec

\* Until the start is over, and no window was opened before, there is none; the tray appears
\* when the start is over.
WindowInv ==
    /\ ShellTypeOK /\ HiddenReachable
    /\ tray => start = "resolved"
    /\ start \in {"none", "pending"} /\ ~early => windows = {}

\* Initially there is no window.
LEMMA InitWindow == ShellInit => WindowInv
<1> SUFFICES ASSUME ShellInit PROVE WindowInv
  OBVIOUS
<1>1. attempts \in Nat /\ inflight \in Nat /\ scheduled \in Nat
  BY DEF ShellInit
<1>2. ShellTypeOK
  BY <1>1, Zenon DEF ShellInit, ShellTypeOK
<1> QED
  BY <1>2, Zenon DEF ShellInit, WindowInv, HiddenReachable

\* What the steps that only touch windows must do.
LEMMA WindowEffect ==
  ASSUME WindowInv, UNCHANGED <<setting, server, start, probing, tray, early>>,
         dialogs' \subseteq {"start", "crash", "startLog", "crashLog"},
         isQuitting' \in BOOLEAN, shutdown' \in BOOLEAN, exited' \in BOOLEAN,
         windows' \subseteq Windows, visible' \subseteq windows', mainWindow' \in windows' \union {0},
         \A w \in windows' : w \in visible' \/ w = mainWindow' \/ isQuitting' \/ early',
         start \in {"none", "pending"} /\ ~early => windows' = {}
  PROVE  WindowInv'
  BY DEF WindowInv, ShellTypeOK, HiddenReachable, setting, server, probing

\* Every step keeps the windows reachable.
LEMMA WindowStep == ASSUME WindowInv, [ShellNext]_shellVars PROVE WindowInv'
<1>0. /\ windows \subseteq Windows /\ visible \subseteq windows /\ mainWindow \in windows \union {0} /\ 0 \notin Windows
      /\ \A w \in windows : w \in visible \/ w = mainWindow \/ isQuitting \/ early
      /\ isQuitting \in BOOLEAN /\ shutdown \in BOOLEAN /\ exited \in BOOLEAN /\ early \in BOOLEAN
      /\ dialogs \subseteq {"start", "crash", "startLog", "crashLog"}
      /\ tray => start = "resolved"
      /\ start \in {"none", "pending"} /\ ~early => windows = {}
  BY ShellAssumption DEF WindowInv, ShellTypeOK, HiddenReachable
<1>1. CASE Ready
  BY <1>1 DEF Ready, WindowInv, ShellTypeOK, HiddenReachable, setting, screen, quitting
<1>a. CASE ReadyFails
  <2>1. start' = "rejected" /\ start = "none" /\ dialogs' = dialogs \union {"start"}
        /\ UNCHANGED <<setting, server, probing, windows, visible, mainWindow, tray, early, quitting>>
    BY <1>a DEF ReadyFails
  <2> QED
    BY <1>0, <2>1 DEF WindowInv, ShellTypeOK, HiddenReachable, setting, server, probing, quitting
<1>2. CASE TryConnect
  BY <1>2 DEF TryConnect, WindowInv, ShellTypeOK, HiddenReachable, setting, server, screen, quitting
<1>3. CASE ProbeAnswered
  <2>1. UNCHANGED <<isDev, foreign, proc, listening, exit, serverProcess, attempts, scheduled, dialogs, early, isQuitting, shutdown, exited>>
        /\ inflight' \in Nat
    BY <1>3 DEF ProbeAnswered, WindowInv, ShellTypeOK, setting, server, quitting
  <2>2. CASE start = "pending"
    <3>1. start' = "resolved" /\ tray' = TRUE /\ CreateWindow
      BY <1>3, <2>2 DEF ProbeAnswered, Resolve
    <3>2. windows' \subseteq Windows /\ visible' \subseteq windows' /\ mainWindow' \in windows'
          /\ (~early => windows' = {mainWindow'})
      BY <1>0, <2>2, <3>1 DEF CreateWindow
    <3> QED
      BY <2>1, <3>1, <3>2 DEF WindowInv, ShellTypeOK, HiddenReachable
  <2>3. CASE start # "pending"
    <3>1. UNCHANGED <<start, tray, windows, visible, mainWindow>>
      BY <1>3, <2>3 DEF ProbeAnswered, Resolve
    <3> QED
      BY <2>1, <3>1 DEF WindowInv, ShellTypeOK, HiddenReachable
  <2> QED
    BY <2>2, <2>3
<1>4. CASE ProbeRefused \/ ProbeTimesOut \/ SpawnError
  <2>1. UNCHANGED <<setting, windows, visible, mainWindow, tray, early, quitting, listening, serverProcess>>
        /\ inflight' \in Nat /\ attempts' \in Nat /\ scheduled' \in Nat
    BY <1>4 DEF ProbeRefused, ProbeTimesOut, SpawnError, Retry, WindowInv, ShellTypeOK, server, probing
  <2>2. proc' \in {"none", "alive", "dead", "failed"} /\ exit' \in {"none", "clean", "error"}
    BY <1>4 DEF ProbeRefused, ProbeTimesOut, SpawnError, WindowInv, ShellTypeOK, server
  <2>3. \/ UNCHANGED <<start, dialogs>>
        \/ start = "pending" /\ start' = "rejected" /\ dialogs' = dialogs \union {"start"}
    BY <1>4 DEF ProbeRefused, ProbeTimesOut, SpawnError, Retry, Reject
  <2>4. start' \in {"none", "pending", "resolved", "rejected"} /\ (tray => start' = "resolved")
        /\ (start' \in {"none", "pending"} => start' = start)
        /\ dialogs' \subseteq {"start", "crash", "startLog", "crashLog"}
    BY <1>0, <2>3 DEF WindowInv, ShellTypeOK
  <2> QED
    BY <2>1, <2>2, <2>4 DEF WindowInv, ShellTypeOK, HiddenReachable, setting, quitting
<1>5. CASE ServerListens \/ ServerExits
  <2>1. UNCHANGED <<setting, start, probing, screen, quitting, serverProcess>>
    BY <1>5 DEF ServerListens, ServerExits
  <2>2. proc' \in {"none", "alive", "dead", "failed"} /\ exit' \in {"none", "clean", "error"} /\ listening' \in BOOLEAN
    BY <1>5 DEF ServerListens, ServerExits, WindowInv, ShellTypeOK
  <2> QED
    BY <2>1, <2>2 DEF WindowInv, ShellTypeOK, HiddenReachable, setting, probing, screen, quitting
<1>6. CASE ServerClose
  <2>1. UNCHANGED <<setting, proc, listening, start, probing, tray, early, isQuitting, shutdown>>
        /\ exit' = "none" /\ serverProcess' \in BOOLEAN /\ exited' \in BOOLEAN
        /\ dialogs' \subseteq {"start", "crash", "startLog", "crashLog"}
    BY <1>0, <1>6 DEF ServerClose, WindowInv, ShellTypeOK
  <2>2. windows' \subseteq windows /\ visible' \subseteq windows' /\ mainWindow' \in windows' \union {0}
        /\ \A w \in windows' : w \in visible' \/ w = mainWindow' \/ isQuitting' \/ early'
    BY <1>0, <1>6 DEF ServerClose, Close
  <2> QED
    BY <1>0, <2>1, <2>2 DEF WindowInv, ShellTypeOK, HiddenReachable, setting, probing
<1>7. ASSUME NEW w \in Windows, ClickClose(w) PROVE WindowInv'
  <2>1. windows' \subseteq windows /\ visible' \subseteq windows' /\ mainWindow' \in windows' \union {0}
        /\ \A x \in windows' : x \in visible' \/ x = mainWindow' \/ isQuitting' \/ early'
    BY <1>0, <1>7 DEF ClickClose, Close, quitting
  <2> QED
    BY <1>0, <1>7, <2>1, WindowEffect DEF ClickClose, quitting
<1>8. ASSUME CreateWindow, ~isQuitting /\ ~early' => mainWindow = 0, UNCHANGED isQuitting, early => early'
      PROVE  /\ windows' \subseteq Windows /\ visible' \subseteq windows' /\ mainWindow' \in windows'
             /\ \A x \in windows' : x \in visible' \/ x = mainWindow' \/ isQuitting' \/ early'
  BY <1>0, <1>8 DEF CreateWindow
<1>9. CASE TrayShow \/ TrayClick
  <2>1. start = "resolved" /\ UNCHANGED <<setting, server, start, probing, tray, dialogs, early, quitting>>
    BY <1>0, <1>9 DEF TrayShow, TrayClick
  <2>2. CASE CreateWindow /\ mainWindow = 0
    BY <1>0, <1>8, <2>1, <2>2, WindowEffect DEF quitting
  <2>3. CASE mainWindow # 0 /\ UNCHANGED <<windows, mainWindow>>
             /\ visible' \in {visible \ {mainWindow}, visible \union {mainWindow}}
    BY <1>0, <2>1, <2>3, WindowEffect DEF quitting
  <2> QED
    BY <1>9, <2>2, <2>3 DEF TrayShow, TrayClick
<1>10. CASE Activate
  <2>1. CreateWindow /\ windows = {} /\ mainWindow = 0 /\ early' = (early \/ start # "resolved")
        /\ UNCHANGED <<setting, server, start, probing, tray, dialogs, quitting>>
    BY <1>0, <1>10 DEF Activate
  <2>2. /\ windows' \subseteq Windows /\ visible' \subseteq windows' /\ mainWindow' \in windows'
        /\ \A x \in windows' : x \in visible' \/ x = mainWindow' \/ isQuitting' \/ early'
    BY <1>8, <2>1 DEF quitting
  <2>3. early' \in BOOLEAN
    BY <2>1
  <2>4. start' \in {"none", "pending"} => early'
    BY <2>1
  <2>5. ShellTypeOK'
    BY <2>1, <2>2, <2>3 DEF WindowInv, ShellTypeOK, setting, server, probing, quitting
  <2>6. tray' => start' = "resolved"
    BY <1>0, <2>1
  <2> QED
    BY <2>2, <2>4, <2>5, <2>6 DEF WindowInv, HiddenReachable
<1>11. ASSUME Quit, isQuitting => isQuitting', isQuitting' \in BOOLEAN,
              dialogs' \subseteq dialogs, UNCHANGED <<setting, server, start, probing, tray, early>>
       PROVE  WindowInv'
  <2>1. windows' \subseteq windows /\ visible' \subseteq windows' /\ mainWindow' \in windows' \union {0}
        /\ \A x \in windows' : x \in visible' \/ x = mainWindow' \/ isQuitting' \/ early'
    BY <1>0, <1>11 DEF Quit
  <2>2. shutdown' \in BOOLEAN /\ exited' \in BOOLEAN
    BY <1>0, <1>11 DEF Quit
  <2> QED
    BY <1>0, <1>11, <2>1, <2>2, WindowEffect
<1>12. CASE TrayQuit \/ SystemQuit
  BY <1>0, <1>11, <1>12 DEF TrayQuit, SystemQuit
<1>13. CASE \E d \in {"start", "crash", "startLog", "crashLog"} : AnswerDialog(d)
  BY <1>0, <1>11, <1>13 DEF AnswerDialog
<1>14. CASE \E d \in {"start", "crash", "startLog", "crashLog"} : ViewLog(d)
  BY <1>0, <1>14, WindowEffect DEF ViewLog, quitting
<1>15. CASE ShutdownTimer
  BY <1>15 DEF ShutdownTimer, WindowInv, ShellTypeOK, HiddenReachable, setting, probing, screen
<1>16. CASE UNCHANGED shellVars
  BY <1>16 DEF shellVars, WindowInv, ShellTypeOK, HiddenReachable, setting, server, probing, screen, quitting
<1> QED
  BY <1>1, <1>a, <1>2, <1>3, <1>4, <1>5, <1>6, <1>7, <1>9, <1>10, <1>12, <1>13, <1>14, <1>15, <1>16 DEF ShellNext

\* For any number of windows: a window that cannot be seen is the one the tray shows again,
\* unless one was opened before the start was over (createWindow, createTray, 'activate').
THEOREM WindowsCorrect == ShellSpec => [](ShellTypeOK /\ HiddenReachable)
<1>1. ShellInit => WindowInv
  BY InitWindow
<1>2. WindowInv /\ [ShellNext]_shellVars => WindowInv'
  BY WindowStep
<1>3. WindowInv => ShellTypeOK /\ HiddenReachable
  BY DEF WindowInv
<1> QED
  BY <1>1, <1>2, <1>3, PTL DEF ShellSpec
=============================================================================
