----------------------------- MODULE MirrorProofs -----------------------------
(***************************************************************************)
(* Proofs about Mirror.tla, for any writers, messages, prefixes and sizes, *)
(* and any number of puts, jobs and attempts.                              *)
(*                                                                         *)
(* What a job promises at its end is built while it copies: CopyInv says   *)
(* it of the objects that are not to be transferred any more.  It rests on *)
(* BucketInv (keys come from messages, and versions only grow), on ListInv *)
(* (what was listed is still there, as listed or newer), and on Mirrored   *)
(* being undone by the change of prefix in the other direction.  That      *)
(* messages do not share objects rests on keys being told apart segment by *)
(* segment (KeysApart).                                                    *)
(***************************************************************************)
EXTENDS Mirror, TLAPS, SequenceTheorems

\* The bucket of the exporter.
BucketInv ==
    \A k \in DOMAIN src :
        /\ src[k] \in Object /\ src[k].version <= puts
        /\ k = ObjectKey(Prefix[src[k].by], src[k].of)

\* The listing of the job, and the listed objects since then.
ListInv ==
    \A k \in DOMAIN listed :
        /\ k \in DOMAIN src /\ Within(SrcDir, k)
        /\ listed[k].version <= src[k].version

\* The copy up to now, unless one of its transfers failed.
CopyInv ==
    /\ job \in {"copy", "done"} => SeesOutputs
    /\ job \in {"copy", "done"} /\ ~incomplete =>
          \A k \in DOMAIN listed \ todo : UpToSize(k)
    /\ job = "done" => todo = {} /\ ~incomplete

\* The attempts of a job, but for the one that it gives up.
AttemptInv == job # "gaveUp" => attempts <= BackoffLimit + 1

MirrorInv ==
    TypeOK /\ BucketInv /\ ListInv /\ CopyInv /\ AttemptInv /\ MirrorsThePath

-------------------------------------------------------------------------------
(* Sequences.                                                              *)

\* A prefix agrees with the sequence as far as it goes.
LEMMA PrefixAgrees ==
  ASSUME NEW S, NEW s \in Seq(S), NEW t \in Seq(S)
  PROVE  IsPrefix(s, t) <=>
            Len(s) <= Len(t) /\ \A i \in 1 .. Len(s) : s[i] = t[i]
<1>1. SubSeq(s, 1, Len(s)) = s
  BY SubSeqFull
<1>2. ASSUME Len(s) <= Len(t)
      PROVE  /\ SubSeq(t, 1, Len(s)) \in Seq(S)
             /\ Len(SubSeq(t, 1, Len(s))) = Len(s)
             /\ \A i \in 1 .. Len(s) : SubSeq(t, 1, Len(s))[i] = t[i]
  BY <1>2
<1>3. ASSUME Len(s) <= Len(t), \A i \in 1 .. Len(s) : s[i] = t[i]
      PROVE  s = SubSeq(t, 1, Len(s))
  BY <1>2, <1>3, SeqEqual
<1> QED  BY <1>1, <1>2, <1>3 DEF IsPrefix

\* A sequence is a prefix of those it is put before.
LEMMA ConcatPrefix ==
  ASSUME NEW S, NEW s \in Seq(S), NEW t \in Seq(S)
  PROVE  s \o t \in Seq(S) /\ IsPrefix(s, s \o t)
<1>1. /\ s \o t \in Seq(S) /\ Len(s \o t) = Len(s) + Len(t)
      /\ \A i \in 1 .. Len(s) : (s \o t)[i] = s[i]
  BY ConcatProperties
<1>2. PICK u \in Seq(S) : u = s \o t
  BY <1>1
<1>3. Len(s) \in Nat /\ Len(t) \in Nat
  OBVIOUS
<1>4. IsPrefix(s, u)
  <2>1. Len(s) <= Len(u) /\ \A i \in 1 .. Len(s) : s[i] = u[i]
    BY <1>1, <1>2, <1>3
  <2> QED  BY <2>1, PrefixAgrees
<1> QED  BY <1>2, <1>4

\* Sequence u is s and then t.
IsConcat(u, s, t) ==
    /\ u = s \o t
    /\ Len(u) = Len(s) + Len(t)
    /\ \A i \in 1 .. Len(s) : u[i] = s[i]
    /\ \A i \in 1 .. Len(t) : u[Len(s) + i] = t[i]

\* The elements of a concatenation.
LEMMA Joined ==
  ASSUME NEW S, NEW s \in Seq(S), NEW t \in Seq(S)
  PROVE  \E u \in Seq(S) : IsConcat(u, s, t)
<1>1. /\ s \o t \in Seq(S) /\ Len(s \o t) = Len(s) + Len(t)
      /\ \A i \in 1 .. Len(s) + Len(t) :
            (s \o t)[i] = IF i <= Len(s) THEN s[i] ELSE t[i - Len(s)]
  BY ConcatProperties
<1>2. PICK u \in Seq(S) : u = s \o t
  BY <1>1
<1>3. /\ Len(u) = Len(s) + Len(t)
      /\ \A i \in 1 .. Len(s) + Len(t) :
            u[i] = IF i <= Len(s) THEN s[i] ELSE t[i - Len(s)]
  <2>1. \A v : v = s \o t =>
           /\ Len(v) = Len(s) + Len(t)
           /\ \A i \in 1 .. Len(s) + Len(t) :
                 v[i] = IF i <= Len(s) THEN s[i] ELSE t[i - Len(s)]
    BY ONLY <1>1, Zenon
  <2> QED  BY ONLY <1>2, <2>1, Zenon
<1>4. Len(s) \in Nat /\ Len(t) \in Nat
  OBVIOUS
<1>5. \A i \in 1 .. Len(s) : u[i] = s[i]
  BY <1>3, <1>4
<1>6. ASSUME NEW i \in 1 .. Len(t)
      PROVE  u[Len(s) + i] = t[i]
  <2>1. PICK j \in 1 .. Len(s) + Len(t) : j = Len(s) + i
    BY <1>4
  <2>2. ~(j <= Len(s)) /\ j - Len(s) = i
    BY <1>4, <2>1
  <2> QED  BY <1>3, <2>1, <2>2
<1>7. IsConcat(u, s, t)
  BY <1>2, <1>3, <1>5, <1>6, Zenon DEF IsConcat
<1> QED  BY <1>2, <1>7

\* A sequence of one element.
LEMMA Single ==
  ASSUME NEW S, NEW x \in S
  PROVE  <<x>> \in Seq(S) /\ Len(<<x>>) = 1 /\ <<x>>[1] = x
OBVIOUS

\* A sequence but for its last element, and for its first one.
LEMMA FrontElements ==
  ASSUME NEW S, NEW s \in Seq(S), Len(s) # 0
  PROVE  /\ Front(s) \in Seq(S) /\ Len(Front(s)) = Len(s) - 1
         /\ \A i \in 1 .. Len(s) - 1 : Front(s)[i] = s[i]
<1>1. Len(s) \in Nat \ {0}
  OBVIOUS
<1>2. PICK n \in Nat : n = Len(s) - 1
  BY <1>1
<1>3. \A i \in 1 .. n : s[i] \in S
  BY <1>1, <1>2
<1>4. /\ SubSeq(s, 1, n) \in Seq(S) /\ Len(SubSeq(s, 1, n)) = n
      /\ \A i \in 1 .. n : SubSeq(s, 1, n)[i] = s[i]
  BY <1>1, <1>2, <1>3
<1> QED  BY <1>2, <1>4 DEF Front

LEMMA TailElements ==
  ASSUME NEW S, NEW s \in Seq(S), Len(s) # 0
  PROVE  /\ Tail(s) \in Seq(S) /\ Len(Tail(s)) = Len(s) - 1
         /\ \A i \in 1 .. Len(s) - 1 : Tail(s)[i] = s[i + 1]
OBVIOUS

\* What is left of a sequence after n elements.
LEMMA RestOf ==
  ASSUME NEW S, NEW t \in Seq(S), NEW n \in 0 .. Len(t)
  PROVE  /\ SubSeq(t, n + 1, Len(t)) \in Seq(S)
         /\ Len(SubSeq(t, n + 1, Len(t))) = Len(t) - n
         /\ \A i \in 1 .. Len(SubSeq(t, n + 1, Len(t))) :
               SubSeq(t, n + 1, Len(t))[i] = t[n + i]
OBVIOUS

\* Sequence t with d in place of its prefix s.
Replaced(s, d, t) == d \o SubSeq(t, Len(s) + 1, Len(t))

\* Replacing a prefix by another can be undone.
LEMMA PrefixReplaced ==
  ASSUME NEW S, NEW s \in Seq(S), NEW d \in Seq(S), NEW t \in Seq(S), IsPrefix(s, t)
  PROVE  /\ Replaced(s, d, t) \in Seq(S) /\ IsPrefix(d, Replaced(s, d, t))
         /\ Replaced(d, s, Replaced(s, d, t)) = t
<1> DEFINE rest == SubSeq(t, Len(s) + 1, Len(t))
           m == d \o rest
           back == SubSeq(m, Len(d) + 1, Len(m))
<1>1. /\ Len(s) \in Nat /\ Len(t) \in Nat /\ Len(d) \in Nat /\ Len(s) <= Len(t)
      /\ \A i \in 1 .. Len(s) : s[i] = t[i]
  BY PrefixAgrees
<1>2. /\ rest \in Seq(S) /\ Len(rest) = Len(t) - Len(s)
      /\ \A i \in 1 .. Len(rest) : rest[i] = t[Len(s) + i]
  BY <1>1, RestOf
<1> HIDE DEF rest
<1>3. m = d \o rest
  OBVIOUS
<1> HIDE DEF m
<1>4. /\ m \in Seq(S) /\ Len(m) = Len(d) + Len(rest)
      /\ \A i \in 1 .. Len(rest) : m[Len(d) + i] = rest[i]
  <2>1. /\ d \o rest \in Seq(S) /\ Len(d \o rest) = Len(d) + Len(rest)
        /\ \A i \in 1 .. Len(d) + Len(rest) :
              (d \o rest)[i] = IF i <= Len(d) THEN d[i] ELSE rest[i - Len(d)]
    BY <1>2, ConcatProperties
  <2>2. ASSUME NEW i \in 1 .. Len(rest)
        PROVE  m[Len(d) + i] = rest[i]
    <3>1. PICK j \in 1 .. Len(d) + Len(rest) : j = Len(d) + i
      BY <1>1, <1>2
    <3>2. ~(j <= Len(d)) /\ j - Len(d) = i
      BY <1>1, <3>1
    <3> QED  BY <1>3, <2>1, <3>1, <3>2
  <2> QED  BY <1>3, <2>1, <2>2
<1>5. /\ back \in Seq(S) /\ Len(back) = Len(rest)
      /\ \A i \in 1 .. Len(back) : back[i] = m[Len(d) + i]
  <2>1. Len(d) \in 0 .. Len(m) /\ Len(m) - Len(d) = Len(rest)
    BY <1>1, <1>2, <1>4
  <2> QED  BY <1>4, <2>1, RestOf
<1> HIDE DEF back
<1>6. back = rest
  BY <1>2, <1>4, <1>5, SeqEqual
<1>7. s \o rest = t
  <2>1. /\ s \o rest \in Seq(S) /\ Len(s \o rest) = Len(t)
        /\ \A i \in 1 .. Len(t) :
              (s \o rest)[i] = IF i <= Len(s) THEN s[i] ELSE rest[i - Len(s)]
    BY <1>1, <1>2, ConcatProperties
  <2>2. ASSUME NEW i \in 1 .. Len(t)
        PROVE  (s \o rest)[i] = t[i]
    <3>1. CASE i <= Len(s)
      BY <1>1, <2>1, <3>1
    <3>2. CASE ~(i <= Len(s))
      <4>0. i - Len(s) \in 1 .. Len(rest)
        BY <1>1, <1>2, <3>2
      <4>1. PICK j \in 1 .. Len(rest) : j = i - Len(s)
        BY <4>0
      <4>2. Len(s) + j = i
        BY <1>1, <4>1
      <4>3. (s \o rest)[i] = rest[j]
        BY <2>1, <3>2, <4>1
      <4> QED  BY <1>2, <4>2, <4>3
    <3> QED  BY <3>1, <3>2
  <2> QED  BY <2>1, <2>2, SeqEqual
<1> QED  BY <1>2, <1>3, <1>4, <1>6, <1>7, ConcatPrefix DEF back, m, rest, Replaced

-------------------------------------------------------------------------------
(* Keys.                                                                   *)

\* The directory of a prefix is made of its segments; a slash at the end makes
\* it all of them but the last.
LEMMA DirectoryType ==
  ASSUME NEW p \in KeyPrefix
  PROVE  /\ Front(p) \in Seq(Text) /\ Last(p) \in Text
         /\ Directory(p) \in Seq(Text)
         /\ Terminated(p) => Directory(p) = Front(p)
<1>1. p \in Seq(Text) /\ Len(p) \in Nat \ {0} /\ NoText \in Text
  BY EmptySeq DEF KeyPrefix, NoText, Text
<1> HIDE DEF Text
<1>2. ASSUME NEW s \in Seq(Text), Len(s) \in Nat \ {0}
      PROVE  Front(s) \in Seq(Text) /\ Last(s) \in Text
  BY <1>2 DEF Front, Last
<1>3. Append(p, NoText) \in Seq(Text) /\ Len(Append(p, NoText)) \in Nat \ {0}
  BY <1>1
<1>4. CASE Terminated(p)
  BY <1>1, <1>2, <1>4 DEF Directory, Normalized
<1>5. CASE ~Terminated(p)
  BY <1>1, <1>2, <1>3, <1>5 DEF Directory, Normalized
<1> QED  BY <1>4, <1>5

\* A key starts with the segments of its prefix, but for the last one.
LEMMA UnderPrefix ==
  ASSUME NEW p \in KeyPrefix, NEW path \in Seq(Text) \ {<<>>}
  PROVE  Under(p, path) \in Seq(Text) /\ IsPrefix(Front(p), Under(p, path))
<1>1. /\ Front(p) \in Seq(Text) /\ Last(p) \in Text
      /\ Head(path) \in Text /\ Tail(path) \in Seq(Text)
  <2> HIDE DEF Text
  <2> QED  BY DirectoryType, HeadTailProperties
<1>2. Last(p) \o Head(path) \in Text
  BY <1>1 DEF Text
<1>3. PICK middle \in Seq(Text) : middle = <<Last(p) \o Head(path)>>
  <2> HIDE DEF Text
  <2>1. \A t \in Text : <<t>> \in Seq(Text)
    OBVIOUS
  <2> QED  BY <1>2, <2>1
<1>4. PICK end \in Seq(Text) : end = middle \o Tail(path)
  <2> HIDE DEF Text
  <2> QED  BY <1>1, <1>3, ConcatProperties
<1>5. Under(p, path) = Front(p) \o end
  <2>1. (Front(p) \o middle) \o Tail(path) = Front(p) \o (middle \o Tail(path))
    BY <1>1, <1>3, ConcatAssociative
  <2> QED  BY <1>3, <1>4, <2>1 DEF Under
<1> QED  BY <1>1, <1>4, <1>5, ConcatPrefix

\* Key u has prefix p and then a path.
IsUnder(u, p, path) ==
    /\ Len(u) = Len(p) - 1 + Len(path)
    /\ \A i \in 1 .. Len(p) - 1 : u[i] = p[i]
    /\ u[Len(p)] = p[Len(p)] \o path[1]
    /\ \A i \in 2 .. Len(path) : u[Len(p) - 1 + i] = path[i]

\* The elements of a prefixed path.
LEMMA UnderElements ==
  ASSUME NEW p \in KeyPrefix, NEW path \in Seq(Text) \ {<<>>}
  PROVE  IsUnder(Under(p, path), p, path)
<1>1. /\ p \in Seq(Text) /\ Len(p) \in Nat \ {0}
      /\ path \in Seq(Text) /\ Len(path) \in Nat \ {0}
  <2> HIDE DEF Text
  <2> QED  BY EmptySeq DEF KeyPrefix
<1>2. /\ p[Len(p)] \in Text /\ path[1] \in Text
      /\ p[Len(p)] = Last(p) /\ path[1] = Head(path)
  <2> HIDE DEF Text
  <2> QED  BY <1>1 DEF Last
<1>3. PICK text \in Text : IsConcat(text, p[Len(p)], path[1])
  BY <1>2, Joined DEF Text
<1> HIDE DEF Text
<1>4. PICK middle \in Seq(Text) :
         middle = <<text>> /\ Len(middle) = 1 /\ middle[1] = text
  BY <1>3, Single
<1>5. PICK front \in Seq(Text) :
         /\ front = Front(p) /\ Len(front) = Len(p) - 1
         /\ \A i \in 1 .. Len(p) - 1 : front[i] = p[i]
  BY <1>1, FrontElements
<1>6. PICK end \in Seq(Text) :
         /\ end = Tail(path) /\ Len(end) = Len(path) - 1
         /\ \A i \in 1 .. Len(path) - 1 : end[i] = path[i + 1]
  BY <1>1, TailElements
<1>7. PICK start \in Seq(Text) : IsConcat(start, front, middle)
  BY Joined
<1>8. PICK u \in Seq(Text) : IsConcat(u, start, end)
  BY Joined
<1>9. Under(p, path) = u /\ text = p[Len(p)] \o path[1]
  <2>1. /\ text = Last(p) \o Head(path) /\ start = front \o middle /\ u = start \o end
        /\ text = p[Len(p)] \o path[1]
    BY <1>2, <1>3, <1>7, <1>8, Zenon DEF IsConcat
  <2> QED  BY <1>4, <1>5, <1>6, <2>1, Zenon DEF Under
<1>10. Len(start) = Len(p)
  BY <1>1, <1>4, <1>5, <1>7 DEF IsConcat
<1>11. Len(u) = Len(p) - 1 + Len(path)
  BY <1>1, <1>6, <1>8, <1>10 DEF IsConcat
<1>12. ASSUME NEW i \in 1 .. Len(p) - 1
       PROVE  u[i] = p[i]
  <2>1. i \in 1 .. Len(start) /\ i \in 1 .. Len(front)
    BY <1>1, <1>5, <1>10
  <2> QED  BY <1>5, <1>7, <1>8, <2>1, SMTT(30) DEF IsConcat
<1>13. u[Len(p)] = text
  <2>1. u[Len(p)] = start[Len(p)]
    BY <1>1, <1>8, <1>10 DEF IsConcat
  <2>2. Len(p) = Len(front) + 1 /\ 1 \in 1 .. Len(middle)
    BY <1>1, <1>4, <1>5
  <2>3. start[Len(front) + 1] = text
    BY <1>4, <1>7, <2>2 DEF IsConcat
  <2> QED  BY <2>1, <2>2, <2>3
<1>14. ASSUME NEW i \in 2 .. Len(path)
       PROVE  u[Len(p) - 1 + i] = path[i]
  <2>1. PICK j \in 1 .. Len(path) - 1 : j = i - 1
    BY <1>1
  <2>2. end[j] = path[i] /\ Len(p) - 1 + i = Len(p) + j
    BY <1>1, <1>6, <2>1
  <2>3. u[Len(p) + j] = end[j]
    BY <1>6, <1>8, <1>10 DEF IsConcat
  <2> QED  BY <2>2, <2>3
<1>15. IsUnder(u, p, path)
  BY <1>9, <1>11, <1>12, <1>13, <1>14, Zenon DEF IsUnder
<1> QED  BY <1>9, <1>15

\* What a writer puts at the end of its prefix.
Path(m) ==
    IF IsReport(m)
    THEN [i \in 1 .. 3 |-> <<m.day[i]>>] \o <<m.topic, m.partition \o m.offset>>
    ELSE <<<<m.type>>, m.day, ID(m)>>

\* What messages are made of.
LEMMA MessageType ==
  ASSUME NEW m \in Message
  PROVE  /\ IsReport(m) => m \in ReportMessage
         /\ IsEvent(m) => m \in EventMessage
         /\ ~IsReport(m) /\ ~IsEvent(m) => m \in StateMessage
         /\ ~IsReport(m) => m.type \in Word /\ m.day \in Text /\ ID(m) \in Text
<1>1. m \in EventMessage \cup StateMessage \cup ReportMessage
  BY MirrorAssumption
<1>2. \A w \in OneWord : w \in Text
  BY Single DEF OneWord, Text
<1>3. CASE m \in EventMessage
  <2>1. /\ IsEvent(m) /\ ~IsReport(m) /\ m.type \in Word /\ m.day \in Text
        /\ m.time \in Text /\ m.cluster \in Text /\ m.message \in Text
    <3> HIDE DEF Text
    <3> QED  BY <1>2, <1>3, MirrorAssumption DEF EventMessage, IsEvent, IsReport
  <2>2. ID(m) \in Text
    BY <2>1 DEF ID, EventID, Text
  <2> QED  BY <1>3, <2>1, <2>2
<1>4. CASE m \in StateMessage
  BY <1>4 DEF StateMessage, IsEvent, IsReport, ID
<1>5. CASE m \in ReportMessage
  BY <1>5 DEF ReportMessage, IsEvent, IsReport
<1> QED  BY <1>1, <1>3, <1>4, <1>5

\* The segments of a path.
LEMMA PathElements ==
  ASSUME NEW m \in Message
  PROVE  /\ Path(m) \in Seq(Text)
         /\ IsReport(m) =>
               /\ Len(Path(m)) = 5
               /\ \A i \in 1 .. 3 : Path(m)[i] = <<m.day[i]>>
               /\ Path(m)[4] = m.topic /\ Path(m)[5] = m.partition \o m.offset
         /\ ~IsReport(m) =>
               /\ Len(Path(m)) = 3
               /\ Path(m)[1] = <<m.type>> /\ Path(m)[2] = m.day /\ Path(m)[3] = ID(m)
<1>1. CASE IsReport(m)
  <2>1. /\ m.day \in [1 .. 3 -> Word] /\ m.topic \in Text
        /\ m.partition \in OneWord /\ m.offset \in OneWord
    <3> HIDE DEF Text
    <3> QED  BY <1>1, MessageType DEF ReportMessage
  <2>2. m.partition \in Text /\ m.offset \in Text /\ \A i \in 1 .. 3 : <<m.day[i]>> \in Text
    BY <2>1, Single DEF OneWord, Text
  <2>3. PICK text \in Text : IsConcat(text, m.partition, m.offset)
    BY <2>2, Joined DEF Text
  <2> HIDE DEF Text
  <2>4. PICK date \in Seq(Text) :
           /\ date = [i \in 1 .. 3 |-> <<m.day[i]>>] /\ Len(date) = 3
           /\ \A i \in 1 .. 3 : date[i] = <<m.day[i]>>
    <3> DEFINE days == [i \in 1 .. 3 |-> <<m.day[i]>>]
    <3>1. /\ days \in Seq(Text) /\ Len(days) = 3
          /\ \A i \in 1 .. 3 : days[i] = <<m.day[i]>>
      BY <2>2
    <3> HIDE DEF days
    <3>2. \E date \in Seq(Text) :
             /\ date = days /\ Len(date) = 3
             /\ \A i \in 1 .. 3 : date[i] = <<m.day[i]>>
      BY <3>1
    <3> QED  BY <3>2, Zenon DEF days
  <2>5. PICK name \in Seq(Text) :
           /\ name = <<m.topic, text>> /\ Len(name) = 2
           /\ name[1] = m.topic /\ name[2] = text
    <3>1. \A x, y \in Text :
             /\ <<x, y>> \in Seq(Text) /\ Len(<<x, y>>) = 2
             /\ <<x, y>>[1] = x /\ <<x, y>>[2] = y
      OBVIOUS
    <3> QED  BY <2>1, <3>1, ZenonT(30)
  <2>6. PICK path \in Seq(Text) : IsConcat(path, date, name)
    BY Joined
  <2>7. Path(m) = path /\ text = m.partition \o m.offset
    BY <1>1, <2>3, <2>4, <2>5, <2>6, Zenon DEF Path, IsConcat
  <2>8. /\ Len(path) = 5 /\ \A i \in 1 .. 3 : path[i] = date[i]
        /\ path[3 + 1] = name[1] /\ path[3 + 2] = name[2]
    BY <2>4, <2>5, <2>6 DEF IsConcat
  <2>9. path[4] = name[1] /\ path[5] = name[2]
    BY <2>8
  <2> QED  BY <1>1, <2>4, <2>5, <2>7, <2>8, <2>9
<1>2. CASE ~IsReport(m)
  <2>1. <<m.type>> \in Text
    BY <1>2, MessageType DEF Text
  <2> DEFINE path == <<<<m.type>>, m.day, ID(m)>>
  <2> HIDE DEF Text
  <2>2. /\ path \in Seq(Text) /\ Len(path) = 3
        /\ path[1] = <<m.type>> /\ path[2] = m.day /\ path[3] = ID(m)
    BY <1>2, <2>1, MessageType
  <2>3. Path(m) = path
    BY <1>2 DEF Path
  <2> HIDE DEF path
  <2> QED  BY <1>2, <2>2, <2>3
<1> QED  BY <1>1, <1>2

LEMMA PathLength ==
  ASSUME NEW m \in Message
  PROVE  /\ Path(m) \in Seq(Text) \ {<<>>}
         /\ IsReport(m) => Len(Path(m)) = 5
         /\ ~IsReport(m) => Len(Path(m)) = 3
<1>1. /\ Path(m) \in Seq(Text)
      /\ IsReport(m) => Len(Path(m)) = 5
      /\ ~IsReport(m) => Len(Path(m)) = 3
  BY PathElements, Zenon
<1>2. Path(m) # <<>>
  <2> HIDE DEF Text
  <2> QED  BY <1>1, EmptySeq, SMTT(30)
<1> QED  BY <1>1, <1>2

\* They start with one word.
LEMMA PathStart ==
  ASSUME NEW m \in Message
  PROVE  \E w \in Word : Path(m)[1] = <<w>>
<1>1. CASE IsReport(m)
  <2>1. m.day[1] \in Word
    BY <1>1, MessageType DEF ReportMessage
  <2>2. Path(m)[1] = <<m.day[1]>>
    <3>1. 1 \in 1 .. 3
      OBVIOUS
    <3> QED  BY <1>1, <3>1, PathElements, Zenon
  <2> QED  BY <2>1, <2>2
<1>2. CASE ~IsReport(m)
  <2>1. m.type \in Word /\ Path(m)[1] = <<m.type>>
    BY <1>2, MessageType, PathElements, Zenon
  <2> QED  BY <2>1
<1> QED  BY <1>1, <1>2

\* Two prefixes of the same length, each followed by a path that starts with one
\* word, are told apart by what they are put together to, and so are the paths.
LEMMA UnderApart ==
  ASSUME NEW p \in KeyPrefix, NEW q \in KeyPrefix, Len(p) = Len(q),
         NEW s \in Seq(Text) \ {<<>>}, NEW t \in Seq(Text) \ {<<>>},
         NEW a \in Word, NEW b \in Word, s[1] = <<a>>, t[1] = <<b>>,
         Under(p, s) = Under(q, t)
  PROVE  p = q /\ s = t
<1>1. /\ p \in Seq(Text) /\ q \in Seq(Text) /\ Len(p) \in Nat \ {0}
      /\ s \in Seq(Text) /\ t \in Seq(Text)
      /\ Len(s) \in Nat \ {0} /\ Len(t) \in Nat \ {0}
  <2> HIDE DEF Text
  <2> QED  BY EmptySeq DEF KeyPrefix
<1>2. p[Len(p)] \in Text /\ q[Len(p)] \in Text
  <2> HIDE DEF Text
  <2> QED  BY <1>1
<1>3. /\ Len(s) = Len(t)
      /\ \A i \in 1 .. Len(p) - 1 : p[i] = q[i]
      /\ p[Len(p)] \o s[1] = q[Len(p)] \o t[1]
      /\ \A i \in 2 .. Len(s) : s[i] = t[i]
  <2>1. PICK u : u = Under(p, s) /\ u = Under(q, t)
    OBVIOUS
  <2>2. IsUnder(u, p, s) /\ IsUnder(u, q, t)
    BY <2>1, UnderElements
  <2>3. Len(s) = Len(t)
    BY <1>1, <2>2 DEF IsUnder
  <2> QED  BY <2>2, <2>3, Zenon DEF IsUnder
<1>4. p[Len(p)] = q[Len(p)] /\ a = b
  <2>1. PICK x \in Seq(Word), y \in Seq(Word) : x = p[Len(p)] /\ y = q[Len(p)]
    BY <1>2 DEF Text
  <2>2. Append(x, a) = x \o <<a>> /\ Append(y, b) = y \o <<b>>
    BY AppendIsConcat
  <2>3. x \o <<a>> = y \o <<b>>
    BY <1>3, <2>1, Zenon
  <2>4. Append(x, a) = Append(y, b)
    BY <2>2, <2>3, Zenon
  <2> QED  BY <2>1, <2>4, AppendInjective
<1> HIDE DEF Text
<1>5. p = q
  <2>1. \A i \in 1 .. Len(p) : p[i] = q[i]
    BY <1>1, <1>3, <1>4
  <2> QED  BY <1>1, <2>1, SeqEqual
<1>6. s = t
  <2>1. ASSUME NEW i \in 1 .. Len(s)
        PROVE  s[i] = t[i]
    <3>1. CASE i = 1
      BY <1>4, <3>1
    <3>2. CASE i # 1
      <4>1. i \in 2 .. Len(s)
        BY <1>1, <3>2
      <4> QED  BY <1>3, <4>1, Zenon
    <3> QED  BY <3>1, <3>2
  <2> QED  BY <1>1, <1>3, <2>1, SeqEqual
<1> QED  BY <1>5, <1>6

\* A word and then another one are told apart by what they are put together to.
LEMMA WordsApart ==
  ASSUME NEW x \in OneWord, NEW y \in OneWord, NEW s \in Text, NEW t \in Text,
         NEW u, IsConcat(u, x, s), IsConcat(u, y, t)
  PROVE  x = y /\ s = t
<1>1. PICK v \in Word, w \in Word : x = <<v>> /\ y = <<w>>
  BY DEF OneWord
<1>2. x \in Seq(Word) /\ y \in Seq(Word) /\ Len(x) = 1 /\ Len(y) = 1 /\ x[1] = v /\ y[1] = w
  BY <1>1
<1>3. u[1] = v /\ u[1] = w
  BY <1>2 DEF IsConcat
<1>4. x = y
  BY <1>1, <1>3
<1>5. s = t
  BY <1>2, <1>4, ConcatSimplifications, Zenon DEF Text, IsConcat
<1> QED  BY <1>4, <1>5

\* A key is a path under a prefix.
LEMMA KeyIsPath ==
  ASSUME NEW p, NEW m
  PROVE  ObjectKey(p, m) = Under(p, Path(m))
BY DEF ObjectKey, ReportKey, ProjectionKey, Path

\* Two texts of the same length are told apart by what they are put before.
LEMMA SameLengthApart ==
  ASSUME NEW c \in Text, NEW d \in Text, NEW x \in Text, NEW y \in Text,
         Len(c) = Len(d), NEW u, IsConcat(u, c, x), IsConcat(u, d, y)
  PROVE  c = d /\ x = y
<1>1. c \in Seq(Word) /\ d \in Seq(Word)
  BY DEF Text
<1>2. \A i \in 1 .. Len(c) : c[i] = d[i]
  BY Zenon DEF IsConcat
<1>3. c = d
  BY <1>1, <1>2, SeqEqual
<1> QED  BY <1>1, <1>3, ConcatSimplifications, Zenon DEF Text, IsConcat

\* Two keys are the same only if their prefixes are, and their messages, two
\* ambiguous events excepted.
LEMMA KeysApart ==
  ASSUME NEW p \in KeyPrefix, NEW q \in KeyPrefix, NEW m \in Message, NEW n \in Message,
         ObjectKey(p, m) = ObjectKey(q, n)
  PROVE  p = q /\ (m = n \/ Ambiguous(m, n))
<1>1. PICK key : /\ key = Under(p, Path(m)) /\ key = Under(q, Path(n))
                 /\ IsUnder(key, p, Path(m)) /\ IsUnder(key, q, Path(n))
  BY KeyIsPath, PathLength, UnderElements
<1>2. Len(p) \in Nat \ {0} /\ Len(q) \in Nat \ {0}
  <2> HIDE DEF Text
  <2> QED  BY EmptySeq DEF KeyPrefix
<1>3. ASSUME NEW r \in KeyPrefix, NEW o \in KeyPrefix,
             NEW j \in Message, NEW k \in Message, IsReport(k), ~IsReport(j),
             Len(r) \in Nat \ {0}, Len(o) \in Nat \ {0},
             IsUnder(key, r, Path(j)), IsUnder(key, o, Path(k))
      PROVE  FALSE
  <2>1. Len(r) = Len(o) + 2
    <3>1. Len(key) = Len(r) - 1 + Len(Path(j)) /\ Len(key) = Len(o) - 1 + Len(Path(k))
      BY <1>3, Zenon DEF IsUnder
    <3>2. Len(Path(j)) = 3 /\ Len(Path(k)) = 5
      BY <1>3, PathLength, Zenon
    <3> QED  BY <1>3, <3>1, <3>2
  <2>2. key[Len(o) + 2] = <<k.day[3]>>
    <3>1. /\ Len(Path(k)) = 5 /\ Path(k)[3] = <<k.day[3]>>
      <4>1. 3 \in 1 .. 3
        OBVIOUS
      <4> QED  BY <1>3, <4>1, PathElements, Zenon
    <3>2. key[Len(o) - 1 + 3] = Path(k)[3] /\ Len(o) - 1 + 3 = Len(o) + 2
      BY <1>3, <3>1 DEF IsUnder
    <3> QED  BY <3>1, <3>2
  <2>3. key[Len(r)] = r[Len(r)] \o <<j.type>>
    BY <1>3, PathElements, Zenon DEF IsUnder
  <2>4. r[Len(r)] \in Seq(Word) /\ j.type \in Word
    <3>1. r[Len(r)] \in Text
      <4> HIDE DEF Text
      <4> QED  BY <1>3 DEF KeyPrefix
    <3> QED  BY <1>3, <3>1, MessageType DEF Text
  <2>5. PICK x \in Seq(Word) : x = r[Len(r)]
    BY <2>4
  <2>6. Append(x, j.type) = <<k.day[3]>>
    <3>1. Append(x, j.type) = x \o <<j.type>>
      BY <2>4, AppendIsConcat
    <3> QED  BY <2>1, <2>2, <2>3, <2>5, <3>1, Zenon
  <2>7. Append(x, j.type)[Len(x) + 1] = j.type /\ Len(Append(x, j.type)) = Len(x) + 1
    BY <2>4, AppendProperties
  <2>8. Len(x) + 1 = 1
    BY <2>6, <2>7
  <2>9. j.type = k.day[3]
    BY <2>6, <2>7, <2>8
  <2> QED  BY <1>3, <2>9, MirrorAssumption
<1>4. IsReport(m) <=> IsReport(n)
  BY <1>1, <1>2, <1>3
<1>5. Len(p) = Len(q)
  BY <1>1, <1>2, <1>4, PathLength DEF IsUnder
<1>6. PICK a \in Word, b \in Word : Path(m)[1] = <<a>> /\ Path(n)[1] = <<b>>
  BY PathStart
<1>7. p = q /\ Path(m) = Path(n)
  <2>1. PICK s, t : s = Path(m) /\ t = Path(n)
    OBVIOUS
  <2>2. s \in Seq(Text) \ {<<>>} /\ t \in Seq(Text) \ {<<>>}
    BY <2>1, PathLength
  <2>3. s[1] = <<a>> /\ t[1] = <<b>> /\ Under(p, s) = Under(q, t)
    BY <1>1, <1>6, <2>1
  <2>4. p = q /\ s = t
    BY <1>5, <1>6, <2>2, <2>3, UnderApart
  <2> QED  BY <2>1, <2>4
<1>8. CASE IsReport(m)
  <2>1. m \in ReportMessage /\ n \in ReportMessage
    BY <1>4, <1>8, MessageType
  <2>2. /\ \A i \in 1 .. 3 : <<m.day[i]>> = <<n.day[i]>>
        /\ m.topic = n.topic
        /\ m.partition \o m.offset = n.partition \o n.offset
    BY <1>4, <1>7, <1>8, PathElements, ZenonT(30)
  <2>3. m.day = n.day
    BY <2>1, <2>2 DEF ReportMessage
  <2>4. m.partition = n.partition /\ m.offset = n.offset
    <3>1. /\ m.partition \in OneWord /\ n.partition \in OneWord
          /\ m.offset \in OneWord /\ n.offset \in OneWord
      BY <2>1 DEF ReportMessage
    <3>2. m.offset \in Text /\ n.offset \in Text
      BY <3>1, Single DEF OneWord, Text
    <3>3. PICK u \in Text : IsConcat(u, m.partition, m.offset)
      BY <3>1, <3>2, Single, Joined, ZenonT(30) DEF OneWord, Text
    <3>4. IsConcat(u, n.partition, n.offset)
      <4>1. PICK v \in Text : IsConcat(v, n.partition, n.offset)
        BY <3>1, <3>2, Single, Joined, ZenonT(30) DEF OneWord, Text
      <4>2. u = v
        BY <2>2, <3>3, <4>1, Zenon DEF IsConcat
      <4> QED  BY <4>1, <4>2
    <3> QED  BY <3>1, <3>2, <3>3, <3>4, WordsApart, Zenon
  <2>5. m = n
    BY <2>1, <2>2, <2>3, <2>4 DEF ReportMessage
  <2> QED  BY <1>7, <2>5
<1>9. CASE ~IsReport(m)
  <2>1. /\ m.type = n.type /\ m.day = n.day /\ ID(m) = ID(n)
    <3>1. <<m.type>> = <<n.type>> /\ m.day = n.day /\ ID(m) = ID(n)
      BY <1>4, <1>7, <1>9, PathElements, Zenon
    <3> QED  BY <3>1
  <2>2. CASE IsEvent(m)
    <3>1. m \in EventMessage /\ n \in EventMessage
      BY <2>1, <2>2, MessageType DEF IsEvent
    <3>2. SUFFICES ASSUME Len(m.cluster) = Len(n.cluster)
                   PROVE  m = n
      BY <1>7, <3>1 DEF Ambiguous, EventMessage, IsEvent
    <3>3. PICK t \in OneWord, v \in OneWord : t = m.time /\ v = n.time
      BY <3>1 DEF EventMessage
    <3>4. PICK c \in Text, d \in Text, x \in Text, y \in Text :
             c = m.cluster /\ d = n.cluster /\ x = m.message /\ y = n.message
      BY <3>1 DEF EventMessage
    <3>5. (t \o c) \o x = (v \o d) \o y
      BY <2>1, <3>1, <3>3, <3>4, Zenon DEF ID, EventID, EventMessage, IsEvent
    <3>6. t \in Seq(Word) /\ v \in Seq(Word)
      BY Single DEF OneWord
    <3>7. PICK cx \in Text, dy \in Text : IsConcat(cx, c, x) /\ IsConcat(dy, d, y)
      BY Joined DEF Text
    <3>8. PICK u \in Text : IsConcat(u, t, cx) /\ IsConcat(u, v, dy)
      <4>1. t \o (c \o x) = v \o (d \o y)
        <5>1. /\ c \in Seq(Word) /\ x \in Seq(Word)
              /\ d \in Seq(Word) /\ y \in Seq(Word)
          BY <3>4 DEF Text
        <5>2. (t \o c) \o x = t \o (c \o x) /\ (v \o d) \o y = v \o (d \o y)
          <6>1. \A f, g, h \in Seq(Word) : (f \o g) \o h = f \o (g \o h)
            BY ConcatAssociative
          <6>2. (t \o c) \o x = t \o (c \o x)
            BY ONLY <3>6, <5>1, <6>1, ZenonT(30)
          <6>3. (v \o d) \o y = v \o (d \o y)
            BY ONLY <3>6, <5>1, <6>1, ZenonT(30)
          <6> QED  BY <6>2, <6>3, Zenon
        <5> QED  BY <3>5, <5>2, Zenon
      <4>2. t \o cx = v \o dy
        BY <3>7, <4>1, Zenon DEF IsConcat
      <4>3. PICK f \in Text, g \in Text : IsConcat(f, t, cx) /\ IsConcat(g, v, dy)
        BY <3>6, Joined DEF Text
      <4>4. f = g
        BY <4>2, <4>3, Zenon DEF IsConcat
      <4> QED  BY <4>3, <4>4
    <3>9. t = v /\ cx = dy
      BY <3>8, WordsApart
    <3>10. c = d /\ x = y
      BY <3>2, <3>4, <3>7, <3>9, SameLengthApart
    <3>11. /\ m.time = n.time /\ m.cluster = n.cluster /\ m.message = n.message
           /\ m.type = n.type /\ m.day = n.day
      BY <2>1, <3>3, <3>4, <3>9, <3>10
    <3> HIDE DEF Text
    <3> QED  BY <3>1, <3>11 DEF EventMessage
  <2>3. CASE ~IsEvent(m)
    <3>1. m \in StateMessage /\ n \in StateMessage
      BY <1>4, <1>9, <2>1, <2>3, MessageType DEF IsEvent
    <3> QED  BY <1>4, <1>7, <1>9, <2>1, <2>3, <3>1 DEF ID, IsEvent, StateMessage
  <2> QED  BY <2>2, <2>3
<1> QED  BY <1>8, <1>9

\* Keys are made of texts, and those of a writer whose prefix ends with a slash
\* are all in the directory of that prefix.
LEMMA KeyType ==
  ASSUME NEW w \in Writer, NEW m \in Message
  PROVE  /\ ObjectKey(Prefix[w], m) \in Seq(Text)
         /\ Terminated(Prefix[w]) =>
               IsPrefix(Directory(Prefix[w]), ObjectKey(Prefix[w], m))
<1>1. Prefix[w] \in KeyPrefix
  BY MirrorAssumption
<1> QED  BY <1>1, PathLength, KeyIsPath, UnderPrefix, DirectoryType

\* The key of a mirrored object is found by the change of prefix, and the other
\* way round.
LEMMA MirrorBack ==
  ASSUME srcPrefix \in SrcPrefixes, NEW k \in Seq(Text), Within(SrcDir, k)
  PROVE  /\ Within(DstDir, Mirrored(k))
         /\ SrcDir \o SubSeq(Mirrored(k), Len(DstDir) + 1, Len(Mirrored(k))) = k
<1>1. SrcDir \in Seq(Text) /\ DstDir \in Seq(Text)
  BY MirrorAssumption, DirectoryType DEF SrcDir, DstDir
<1>2. Mirrored(k) = Replaced(SrcDir, DstDir, k)
  BY DEF Mirrored, Replaced
<1>3. /\ IsPrefix(DstDir, Mirrored(k))
      /\ Replaced(DstDir, SrcDir, Mirrored(k)) = k
  BY <1>1, <1>2, PrefixReplaced DEF Within
<1> QED  BY <1>3 DEF Within, Replaced

\* No two objects are mirrored to the same key.
LEMMA MirroredApart ==
  ASSUME srcPrefix \in SrcPrefixes, NEW j \in Seq(Text), NEW k \in Seq(Text),
         Within(SrcDir, j), Within(SrcDir, k), Mirrored(j) = Mirrored(k)
  PROVE  j = k
BY MirrorBack

-------------------------------------------------------------------------------
(* Types, the exporter's bucket and the listing.                           *)

\* What does not change.
LEMMA PrefixFrame ==
  ASSUME [Next]_vars
  PROVE  /\ srcPrefix' = srcPrefix /\ SrcDir' = SrcDir
         /\ \A k : Mirrored(k)' = Mirrored(k)
<1>1. srcPrefix' = srcPrefix
  BY DEF Next, PutObject, StartJob, JobStep, GenerateConfig, List, CopyEnds, Fails,
     Retry, Transfer, TransferFails, vars
<1> QED  BY <1>1 DEF SrcDir, DstDir, Mirrored

\* The steps but the four that write a bucket or list it.
QuietStep ==
    \/ StartJob \/ GenerateConfig \/ CopyEnds \/ Fails \/ Retry
    \/ \E k \in todo : TransferFails(k)
    \/ UNCHANGED vars

\* They keep the buckets, and at most give up a listing.
LEMMA Quiet ==
  ASSUME QuietStep
  PROVE  /\ UNCHANGED <<src, dst, puts>>
         /\ \/ UNCHANGED <<listed, asOf>>
            \/ listed' = NoObjects /\ asOf' = 0 /\ todo' = {} /\ job' = "failed"
         /\ todo' \subseteq todo
         /\ job' \in {"copy", "done"} =>
               job \in {"copy", "done"} /\ UNCHANGED <<listed, asOf>>
BY DEF QuietStep, StartJob, GenerateConfig, CopyEnds, Fails, Retry, TransferFails,
   bucketVars, copyVars, vars

\* Every step writes a bucket, lists it or is quiet.
LEMMA StepKinds ==
  ASSUME [Next]_vars
  PROVE  \/ \E w \in Writer, size \in Size : \E m \in Writes(w) : PutObject(w, m, size)
         \/ List
         \/ \E k \in todo : Transfer(k)
         \/ QuietStep
BY DEF Next, JobStep, QuietStep

\* What is put is an object.
LEMMA NewObject ==
  ASSUME TypeOK, NEW w \in Writer, NEW size \in Size, NEW m \in Writes(w),
         PutObject(w, m, size)
  PROVE  \E key, object :
            /\ src' = Put(src, key, object) /\ object \in Object
            /\ object.version = puts + 1 /\ puts' = puts + 1 /\ puts' <= MaxPuts
            /\ object.by \in Writer /\ object.of \in Message
            /\ key = ObjectKey(Prefix[object.by], object.of)
<1> DEFINE object == [by |-> w, of |-> m, version |-> puts + 1, size |-> size]
<1>1. m \in Message /\ puts + 1 \in 1 .. MaxPuts
  BY MirrorAssumption DEF TypeOK, PutObject, Writes
<1>2. object \in Object
  BY <1>1 DEF Object
<1>3. /\ object.version = puts + 1 /\ object.by = w /\ object.of = m
      /\ src' = Put(src, ObjectKey(Prefix[w], m), object)
      /\ puts' = puts + 1 /\ puts' <= MaxPuts
  BY <1>1, MirrorAssumption DEF PutObject, TypeOK
<1> HIDE DEF object
<1> QED  BY <1>1, <1>2, <1>3

\* Every variable keeps its type.
LEMMA TypeStep ==
  ASSUME TypeOK, ListInv, AttemptInv, [Next]_vars
  PROVE  TypeOK' /\ AttemptInv'
<1> USE MirrorAssumption DEF TypeOK, AttemptInv
<1>1. ASSUME NEW w \in Writer, NEW size \in Size, NEW m \in Writes(w),
             PutObject(w, m, size)
      PROVE  TypeOK' /\ AttemptInv'
  <2>1. PICK key, object : src' = Put(src, key, object) /\ object \in Object
                           /\ puts' = puts + 1 /\ puts' <= MaxPuts
    BY <1>1, NewObject
  <2>2. \A k \in DOMAIN src' : src'[k] \in Object
    BY <2>1 DEF Put
  <2>3. puts' \in 0 .. MaxPuts /\ asOf \in 0 .. puts'
    BY <2>1
  <2> QED  BY <1>1, <2>2, <2>3 DEF PutObject, copyVars
<1>2. CASE List
  <2>1. \A k \in DOMAIN listed' : listed'[k] \in Object
    BY <1>2 DEF List
  <2>2. todo' \subseteq DOMAIN listed'
    BY <1>2 DEF List
  <2>3. incomplete' \in BOOLEAN
    BY <1>2 DEF List
  <2>4. /\ UNCHANGED <<srcPrefix, src, dst, puts, attempts, jobs>>
        /\ job = "list" /\ job' = "copy" /\ asOf' = puts
    BY <1>2 DEF List, bucketVars
  <2> QED  BY <2>1, <2>2, <2>3, <2>4
<1>3. ASSUME NEW k \in todo, Transfer(k)
      PROVE  TypeOK' /\ AttemptInv'
  <2>1. src[k] \in Object
    BY DEF ListInv
  <2>2. \A d \in DOMAIN dst' : dst'[d] \in Object
    BY <1>3, <2>1 DEF Transfer, Put
  <2> QED  BY <1>3, <2>2 DEF Transfer, bucketVars
<1>4. CASE QuietStep
  <2>1. /\ \A k \in DOMAIN src' : src'[k] \in Object
        /\ \A k \in DOMAIN dst' : dst'[k] \in Object
        /\ \A k \in DOMAIN listed' : listed'[k] \in Object
        /\ todo' \subseteq DOMAIN listed' /\ asOf' \in 0 .. puts'
    BY <1>4, Quiet DEF NoObjects
  <2>2. srcPrefix' \in SrcPrefixes /\ puts' \in 0 .. MaxPuts
    BY <1>4, Quiet, PrefixFrame
  <2>3. /\ job' \in {"idle", "config", "list", "copy", "failed", "done", "gaveUp"}
        /\ attempts' \in 0 .. BackoffLimit + 2 /\ jobs' \in 0 .. MaxJobs
        /\ AttemptInv'
    BY <1>4 DEF QuietStep, StartJob, GenerateConfig, CopyEnds, Fails, Retry,
       TransferFails, vars
  <2>4. incomplete' \in BOOLEAN
    BY <1>4 DEF QuietStep, StartJob, GenerateConfig, CopyEnds, Fails, Retry,
       TransferFails, copyVars, vars
  <2> QED  BY <2>1, <2>2, <2>3, <2>4
<1> QED  BY <1>1, <1>2, <1>3, <1>4, StepKinds

\* A put replaces an object by a newer one of the same key.
LEMMA BucketStep ==
  ASSUME TypeOK, BucketInv, [Next]_vars
  PROVE  /\ BucketInv'
         /\ \A k \in DOMAIN src : k \in DOMAIN src' /\ src[k].version <= src'[k].version
<1>1. puts \in Nat /\ \A k \in DOMAIN src : src[k].version \in Nat
  BY MirrorAssumption DEF TypeOK, BucketInv, Object
<1>2. ASSUME NEW w \in Writer, NEW size \in Size, NEW m \in Writes(w),
             PutObject(w, m, size)
      PROVE  /\ BucketInv'
             /\ \A k \in DOMAIN src :
                   k \in DOMAIN src' /\ src[k].version <= src'[k].version
  <2>1. PICK key, object :
           /\ src' = Put(src, key, object) /\ object \in Object
           /\ object.version = puts + 1 /\ puts' = puts + 1
           /\ key = ObjectKey(Prefix[object.by], object.of)
    BY <1>2, NewObject
  <2>2. /\ DOMAIN src' = DOMAIN src \cup {key} /\ src'[key] = object
        /\ \A k \in DOMAIN src \ {key} : src'[k] = src[k]
    BY <2>1 DEF Put
  <2>3. ASSUME NEW k \in DOMAIN src'
        PROVE  /\ src'[k] \in Object /\ src'[k].version <= puts'
               /\ k = ObjectKey(Prefix[src'[k].by], src'[k].of)
               /\ k \in DOMAIN src => src[k].version <= src'[k].version
    <3>1. CASE k = key
      BY <1>1, <2>1, <2>2, <3>1 DEF BucketInv
    <3>2. CASE k # key
      BY <1>1, <2>1, <2>2, <3>2 DEF BucketInv
    <3> QED  BY <3>1, <3>2
  <2> QED  BY <2>2, <2>3 DEF BucketInv
<1>3. CASE UNCHANGED <<src, puts>>
  BY <1>1, <1>3 DEF BucketInv
<1>4. ASSUME List \/ \E k \in todo : Transfer(k)
      PROVE  UNCHANGED <<src, puts>>
  BY <1>4 DEF List, Transfer, bucketVars
<1> QED  BY <1>2, <1>3, <1>4, StepKinds, Quiet

\* What was listed stays in the bucket, and is not older than it was.
LEMMA ListStep ==
  ASSUME TypeOK, BucketInv, ListInv, [Next]_vars
  PROVE  ListInv'
<1>1. \A k \in DOMAIN src : src[k].version \in Nat /\ src[k] \in Object
  BY DEF BucketInv, Object
<1>2. \A k \in DOMAIN src' : src'[k].version \in Nat
  BY BucketStep DEF BucketInv, Object
<1>3. ASSUME UNCHANGED listed
      PROVE  ListInv'
  <2> SUFFICES ASSUME NEW k \in DOMAIN listed
               PROVE  /\ k \in DOMAIN src' /\ Within(SrcDir, k)
                      /\ listed[k].version <= src'[k].version
    BY <1>3, PrefixFrame DEF ListInv, Within
  <2>1. /\ k \in DOMAIN src /\ Within(SrcDir, k)
        /\ listed[k].version <= src[k].version
        /\ listed[k].version \in Nat
    BY DEF ListInv, TypeOK, Object
  <2> QED  BY <1>1, <1>2, <2>1, BucketStep
<1>4. CASE List
  BY <1>1, <1>4, PrefixFrame DEF List, ListInv, Within, bucketVars
<1>5. ASSUME listed' = NoObjects
      PROVE  ListInv'
  BY <1>5 DEF ListInv, NoObjects
<1>6. ASSUME \/ \E w \in Writer, size \in Size : \E m \in Writes(w) : PutObject(w, m, size)
             \/ \E k \in todo : Transfer(k)
      PROVE  UNCHANGED listed
  BY <1>6 DEF PutObject, Transfer, copyVars
<1> QED  BY <1>3, <1>4, <1>5, <1>6, StepKinds, Quiet

-------------------------------------------------------------------------------
(* MirroredUpToSize.                                                       *)

\* An object that the listing misses was put after it, or by a writer whose
\* prefix is not that of the job.
LEMMA ListSees ==
  ASSUME TypeOK, BucketInv, List
  PROVE  SeesOutputs'
<1>1. /\ srcPrefix' = srcPrefix /\ src' = src
      /\ DOMAIN listed' = {k \in DOMAIN src : Within(SrcDir, k)}
  BY DEF List, bucketVars
<1>2. ASSUME NEW k \in DOMAIN src, Prefix[src[k].by] = srcPrefix, Terminated(srcPrefix)
      PROVE  Within(SrcDir, k)
  <2>1. /\ src[k].by \in Writer /\ src[k].of \in Message
        /\ k = ObjectKey(Prefix[src[k].by], src[k].of)
    BY DEF BucketInv, Object
  <2>2. IsPrefix(Directory(Prefix[src[k].by]), ObjectKey(Prefix[src[k].by], src[k].of))
    BY <1>2, <2>1, KeyType
  <2> QED  BY <1>2, <2>1, <2>2 DEF Within, SrcDir
<1> QED  BY <1>1, <1>2 DEF SeesOutputs

\* The keys that the job deals with.
LEMMA ListedKeys ==
  ASSUME TypeOK, BucketInv, ListInv, NEW k \in DOMAIN listed
  PROVE  k \in Seq(Text) /\ Within(SrcDir, k)
<1>1. k \in DOMAIN src /\ Within(SrcDir, k)
  BY DEF ListInv
<1>2. /\ src[k].by \in Writer /\ src[k].of \in Message
      /\ k = ObjectKey(Prefix[src[k].by], src[k].of)
  BY <1>1 DEF BucketInv, Object
<1> QED  BY <1>1, <1>2, KeyType

\* A transfer makes its object up to size, and no other one less so.
LEMMA TransferUpToSize ==
  ASSUME TypeOK, BucketInv, ListInv, [Next]_vars, NEW k \in todo, Transfer(k),
         NEW j \in DOMAIN listed, j = k \/ UpToSize(j)
  PROVE  UpToSize(j)'
<1>1. /\ listed' = listed /\ dst' = Put(dst, Mirrored(k), src[k])
      /\ Mirrored(j)' = Mirrored(j)
  BY PrefixFrame DEF Transfer
<1>2. k \in DOMAIN listed
  BY DEF TypeOK
<1>3. CASE j = k
  <2>1. Mirrored(k) \in DOMAIN dst' /\ dst'[Mirrored(k)] = src[k]
    BY <1>1 DEF Put
  <2>2. src[k].version >= listed[k].version
    BY <1>2 DEF ListInv, TypeOK, BucketInv, Object
  <2> QED  BY <1>1, <1>3, <2>1, <2>2 DEF UpToSize
<1>4. CASE j # k
  <2>1. Mirrored(j) # Mirrored(k)
    BY <1>2, <1>4, ListedKeys, MirroredApart DEF TypeOK
  <2>2. Mirrored(j) \in DOMAIN dst
    BY <1>4 DEF UpToSize
  <2>3. Mirrored(j) \in DOMAIN dst' /\ dst'[Mirrored(j)] = dst[Mirrored(j)]
    BY <1>1, <2>1, <2>2 DEF Put
  <2> QED  BY <1>1, <1>4, <2>3 DEF UpToSize
<1> QED  BY <1>3, <1>4

\* The promise of the copy is made by the listing and kept by each transfer.
LEMMA CopyStep ==
  ASSUME TypeOK, BucketInv, ListInv, CopyInv, [Next]_vars
  PROVE  CopyInv'
<1>1. ASSUME NEW w \in Writer, NEW size \in Size, NEW m \in Writes(w),
             PutObject(w, m, size)
      PROVE  CopyInv'
  <2>1. UNCHANGED <<dst, job, listed, asOf, todo, incomplete>>
    BY <1>1 DEF PutObject, copyVars
  <2>2. PICK key, object :
           /\ src' = Put(src, key, object) /\ object.version = puts + 1
    BY <1>1, NewObject
  <2>3. asOf \in Nat /\ puts \in Nat /\ asOf <= puts
    BY MirrorAssumption DEF TypeOK
  <2>4. SeesOutputs => SeesOutputs'
    <3> SUFFICES ASSUME SeesOutputs, NEW k \in DOMAIN src', src'[k].version <= asOf,
                        Prefix[src'[k].by] = srcPrefix, Terminated(srcPrefix)
                 PROVE  k \in DOMAIN listed
      BY <2>1, PrefixFrame DEF SeesOutputs
    <3>1. k # key
      BY <2>2, <2>3 DEF Put
    <3>2. k \in DOMAIN src /\ src'[k] = src[k]
      BY <2>2, <3>1 DEF Put
    <3> QED  BY <3>2 DEF SeesOutputs
  <2>5. \A k : UpToSize(k)' <=> UpToSize(k)
    BY <2>1, PrefixFrame DEF UpToSize
  <2> QED  BY <2>1, <2>4, <2>5 DEF CopyInv
<1>2. CASE List
  <2>1. SeesOutputs'
    BY <1>2, ListSees
  <2>2. ASSUME NEW k \in DOMAIN listed' \ todo'
        PROVE  UpToSize(k)'
    <3>1. /\ k \in DOMAIN src /\ listed'[k] = src[k] /\ dst' = dst
          /\ ~IsDifferent(k)
      BY <1>2 DEF List
    <3>2. Mirrored(k) \in DOMAIN dst /\ dst[Mirrored(k)].size = src[k].size
      BY <3>1 DEF IsDifferent
    <3> QED  BY <3>1, <3>2, PrefixFrame DEF UpToSize
  <2>3. job' = "copy"
    BY <1>2 DEF List
  <2> QED  BY <2>1, <2>2, <2>3 DEF CopyInv
<1>3. ASSUME NEW k \in todo, Transfer(k)
      PROVE  CopyInv'
  <2>1. /\ UNCHANGED <<src, job, listed, asOf, incomplete>>
        /\ job = "copy" /\ todo' = todo \ {k}
    BY <1>3 DEF Transfer, bucketVars
  <2>2. SeesOutputs'
    BY <2>1, PrefixFrame DEF CopyInv, SeesOutputs
  <2>3. ASSUME ~incomplete, NEW j \in DOMAIN listed \ todo'
        PROVE  UpToSize(j)'
    <3>1. j = k \/ UpToSize(j)
      BY <2>1, <2>3 DEF CopyInv
    <3> QED  BY <1>3, <3>1, TransferUpToSize
  <2> QED  BY <2>1, <2>2, <2>3 DEF CopyInv
<1>4. CASE QuietStep
  <2> SUFFICES ASSUME job' \in {"copy", "done"}
               PROVE  CopyInv'
    BY DEF CopyInv
  <2>1. /\ UNCHANGED <<src, dst, listed, asOf>> /\ job \in {"copy", "done"}
    BY <1>4, Quiet
  <2>2. SeesOutputs' /\ \A k : UpToSize(k)' <=> UpToSize(k)
    BY <2>1, PrefixFrame DEF CopyInv, SeesOutputs, UpToSize
  <2>3. ~incomplete' => ~incomplete /\ todo' = todo
    BY <1>4 DEF QuietStep, StartJob, GenerateConfig, CopyEnds, Fails, Retry,
       TransferFails, copyVars, vars
  <2>4. job' = "done" => todo' = {} /\ ~incomplete'
    BY <1>4 DEF QuietStep, StartJob, GenerateConfig, CopyEnds, Fails, Retry,
       TransferFails, copyVars, vars, CopyInv
  <2> QED  BY <2>1, <2>2, <2>3, <2>4 DEF CopyInv
<1> QED  BY <1>1, <1>2, <1>3, <1>4, StepKinds

-------------------------------------------------------------------------------
(* MirrorsThePath.                                                         *)

\* What is transferred comes from the path of its copy, where it is only
\* replaced by newer objects.
LEMMA PathStep ==
  ASSUME TypeOK, BucketInv, ListInv, MirrorsThePath, [Next]_vars
  PROVE  MirrorsThePath'
<1> DEFINE Origin(d) == SrcDir \o SubSeq(d, Len(DstDir) + 1, Len(d))
<1>1. /\ \A k \in DOMAIN src : src[k].version \in Nat
      /\ \A k \in DOMAIN src' : src'[k].version \in Nat
      /\ \A k \in DOMAIN dst : dst[k].version \in Nat
  BY BucketStep DEF TypeOK, BucketInv, Object
<1>2. ASSUME NEW d \in DOMAIN dst
      PROVE  /\ Within(DstDir, d) /\ Origin(d) \in DOMAIN src'
             /\ dst[d].version <= src'[Origin(d)].version
  <2>1. /\ Within(DstDir, d) /\ Origin(d) \in DOMAIN src
        /\ dst[d].version <= src[Origin(d)].version
    BY DEF MirrorsThePath
  <2> HIDE DEF Origin
  <2>2. /\ Origin(d) \in DOMAIN src'
        /\ src[Origin(d)].version <= src'[Origin(d)].version
    BY <2>1, BucketStep
  <2> QED  BY <1>1, <2>1, <2>2
<1>3. ASSUME dst' = dst
      PROVE  MirrorsThePath'
  BY <1>2, <1>3, PrefixFrame DEF MirrorsThePath, DstDir
<1>4. ASSUME NEW k \in todo, Transfer(k)
      PROVE  MirrorsThePath'
  <2>1. dst' = Put(dst, Mirrored(k), src[k]) /\ src' = src
    BY <1>4 DEF Transfer, bucketVars
  <2>2. k \in DOMAIN listed /\ k \in DOMAIN src
    BY DEF TypeOK, ListInv
  <2>3. Within(DstDir, Mirrored(k)) /\ Origin(Mirrored(k)) = k
    BY <2>2, ListedKeys, MirrorBack DEF TypeOK
  <2> HIDE DEF Origin
  <2>4. ASSUME NEW d \in DOMAIN dst'
        PROVE  /\ Within(DstDir, d) /\ Origin(d) \in DOMAIN src'
               /\ dst'[d].version <= src'[Origin(d)].version
    <3>1. CASE d = Mirrored(k)
      <4>1. dst'[d] = src[k]
        BY <2>1, <3>1 DEF Put
      <4> QED  BY <1>1, <2>1, <2>2, <2>3, <3>1, <4>1
    <3>2. CASE d # Mirrored(k)
      <4>1. d \in DOMAIN dst /\ dst'[d] = dst[d]
        BY <2>1, <3>2 DEF Put
      <4> QED  BY <1>2, <4>1
    <3> QED  BY <3>1, <3>2
  <2> USE DEF Origin
  <2> QED  BY <2>4, PrefixFrame DEF MirrorsThePath, DstDir
<1>5. ASSUME \/ \E w \in Writer, size \in Size : \E m \in Writes(w) : PutObject(w, m, size)
             \/ List
      PROVE  dst' = dst
  BY <1>5 DEF PutObject, List
<1> QED  BY <1>3, <1>4, <1>5, StepKinds, Quiet

-------------------------------------------------------------------------------
(* The theorems.                                                           *)

\* At first both buckets are empty, and so is the listing.
LEMMA InitMirror ==
  ASSUME Init
  PROVE  MirrorInv
<1>1. DOMAIN src = {} /\ DOMAIN dst = {} /\ DOMAIN listed = {}
  BY DEF Init, NoObjects
<1>2. TypeOK
  <2>1. /\ srcPrefix \in SrcPrefixes /\ puts \in 0 .. MaxPuts /\ asOf \in 0 .. puts
        /\ attempts \in 0 .. BackoffLimit + 2 /\ jobs \in 0 .. MaxJobs
        /\ job = "idle" /\ todo = {}
    BY MirrorAssumption DEF Init
  <2>2. incomplete \in BOOLEAN
    BY DEF Init
  <2> QED  BY <1>1, <2>1, <2>2 DEF TypeOK
<1>3. BucketInv /\ ListInv /\ MirrorsThePath
  BY <1>1 DEF BucketInv, ListInv, MirrorsThePath
<1>4. CopyInv /\ AttemptInv
  BY MirrorAssumption DEF Init, CopyInv, AttemptInv
<1> QED  BY <1>2, <1>3, <1>4 DEF MirrorInv

\* MirrorInv is inductive.
LEMMA MirrorInvariance == Spec => []MirrorInv
<1>1. Init => MirrorInv
  BY InitMirror
<1>2. MirrorInv /\ [Next]_vars => MirrorInv'
  BY TypeStep, BucketStep, ListStep, CopyStep, PathStep DEF MirrorInv
<1> QED  BY <1>1, <1>2, PTL DEF Spec

\* The buckets, the listing and the job keep their types.
THEOREM TypeCorrect == Spec => []TypeOK
<1>1. MirrorInv => TypeOK
  BY DEF MirrorInv
<1> QED  BY <1>1, MirrorInvariance, PTL

\* A job that ends well has listed what the writers of its prefix had put, and
\* the mirror has each listed object, as it was listed or newer, or one of its
\* very size, whatever was put while it copied and however often it was retried.
THEOREM SuccessMeansMirrored == Spec => []MirroredUpToSize
<1>1. MirrorInv => MirroredUpToSize
  BY DEF MirrorInv, CopyInv, MirroredUpToSize
<1> QED  BY <1>1, MirrorInvariance, PTL

\* At any time, after a failed job as well, the mirror holds only objects of the
\* source prefix, each at the same path, and none newer than at the source.
THEOREM PathsMirrored == Spec => []MirrorsThePath
<1>1. MirrorInv => MirrorsThePath
  BY DEF MirrorInv
<1> QED  BY <1>1, MirrorInvariance, PTL

\* What the exporter overwrites is an object of the same message under the same
\* prefix, whatever writers share the bucket: no output takes the place of
\* another one, nor a report that of a projection, two ambiguous events excepted.
THEOREM ObjectsStayApart == Spec => OneMessagePerObject
<1> DEFINE Kept ==
        \A k \in DOMAIN src :
            \/ src'[k].of = src[k].of /\ Prefix[src'[k].by] = Prefix[src[k].by]
            \/ /\ Ambiguous(src'[k].of, src[k].of)
               /\ Prefix[src'[k].by] = Prefix[src[k].by]
<1>1. MirrorInv /\ MirrorInv' /\ [Next]_vars => [Kept]_vars
  <2> SUFFICES ASSUME MirrorInv, MirrorInv', [Next]_vars, NEW k \in DOMAIN src
               PROVE  \/ src'[k].of = src[k].of /\ Prefix[src'[k].by] = Prefix[src[k].by]
                      \/ /\ Ambiguous(src'[k].of, src[k].of)
                         /\ Prefix[src'[k].by] = Prefix[src[k].by]
    OBVIOUS
  <2>1. k \in DOMAIN src'
    BY BucketStep DEF MirrorInv
  <2>2. PICK o, n : o = src[k] /\ n = src'[k]
    OBVIOUS
  <2>3. /\ o \in Object /\ k = ObjectKey(Prefix[o.by], o.of)
        /\ n \in Object /\ k = ObjectKey(Prefix[n.by], n.of)
    BY <2>1, <2>2 DEF MirrorInv, BucketInv
  <2>4. /\ o.of \in Message /\ Prefix[o.by] \in KeyPrefix
        /\ n.of \in Message /\ Prefix[n.by] \in KeyPrefix
    BY <2>3, MirrorAssumption DEF Object
  <2>5. Prefix[n.by] = Prefix[o.by] /\ (n.of = o.of \/ Ambiguous(n.of, o.of))
    <3>1. PICK p \in KeyPrefix, q \in KeyPrefix : p = Prefix[n.by] /\ q = Prefix[o.by]
      BY <2>4
    <3>2. ObjectKey(p, n.of) = ObjectKey(q, o.of)
      BY <2>3, <3>1
    <3> QED  BY <2>4, <3>1, <3>2, KeysApart
  <2> QED  BY <2>2, <2>5
<1> QED  BY <1>1, MirrorInvariance, PTL DEF OneMessagePerObject, Spec
===============================================================================
