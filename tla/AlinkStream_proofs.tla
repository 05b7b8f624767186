------------------------- MODULE AlinkStream_proofs -------------------------
(***************************************************************************)
(* The stream of ALINK messages for any lengths, any size of the buffer    *)
(* that has room for two messages, and any number of messages and faults:  *)
(* the types, that nothing complete is held back, that messages are handed *)
(* over in order and once, and that none is lost that no fault has         *)
(* touched.                                                                *)
(***************************************************************************)
EXTENDS AlinkStream, SequenceTheorems, TLAPS

\* Where the loop is: behind what it has taken, at the start between callbacks.
PlaceInv == at <= Len(buf) /\ (pc = "select" => at = 0)

\* A cell is a byte of a message the host has sent, or damaged.
Genuine(l, c) == c.msg \in DOMAIN l /\ c.len = l[c.msg] /\ c.pos \in 1 .. c.len

CellInv ==
    /\ \A k \in 1 .. Len(buf) : buf[k] = Noise \/ Genuine(lens, buf[k])
    /\ \A k \in 1 .. Len(wire) : wire[k] = Noise \/ Genuine(lens, wire[k])

TypeInv == TypeOK /\ PlaceInv /\ CellInv

-----------------------------------------------------------------------------
(* Sequences of cells.                                                     *)

LEMMA SizeFacts ==
  /\ HeadSize \in Nat \ {0} /\ BufSize \in Nat \ {0} /\ HeadSize < BufSize
  /\ \A s \in Sizes : s \in Nat \ {0} /\ HeadSize < s /\ s < BufSize
<1>1. HeadSize \in Nat \ {0} /\ BufSize \in Nat
  BY AlinkAssumption
<1>2. \A s \in Sizes : s \in Nat /\ HeadSize < s /\ 2 * s <= BufSize
  BY AlinkAssumption
<1>3. \A s \in Sizes : s \in Nat \ {0} /\ HeadSize < s /\ s < BufSize
  BY <1>1, <1>2
<1>4. PICK s \in Sizes : TRUE
  BY AlinkAssumption
<1> QED BY <1>1, <1>3, <1>4

LEMMA NoiseType == Noise \in Cell
BY DEF Noise, Cell

LEMMA MessageFacts ==
  ASSUME NEW n \in Nat, NEW s \in Nat
  PROVE  /\ Message(n, s) \in Seq(Cell) /\ Len(Message(n, s)) = s
         /\ \A k \in 1 .. s : Message(n, s)[k] = [msg |-> n, pos |-> k, len |-> s]
<1>1. \A k \in 1 .. s : [msg |-> n, pos |-> k, len |-> s] \in Cell
  BY DEF Cell
<1> QED BY <1>1 DEF Message

LEMMA Piece ==
  ASSUME NEW q \in Seq(Cell), NEW m \in 1 .. Len(q) + 1, NEW n \in Nat, n <= Len(q), m <= n + 1
  PROVE  /\ SubSeq(q, m, n) \in Seq(Cell) /\ Len(SubSeq(q, m, n)) = n - m + 1
         /\ \A k \in 1 .. n - m + 1 : SubSeq(q, m, n)[k] = q[m + k - 1]
<1>1. m \in Int /\ n \in Int /\ Len(q) \in Nat
  OBVIOUS
<1>2. \A k \in m .. n : q[k] \in Cell
  BY <1>1, ElementOfSeq
<1> QED BY <1>1, <1>2, SubSeqProperties

LEMMA RestFacts ==
  ASSUME buf \in Seq(Cell), at \in Nat, at <= Len(buf)
  PROVE  /\ Rest \in Seq(Cell) /\ Len(Rest) = Len(buf) - at
         /\ \A k \in 1 .. Len(buf) - at : Rest[k] = buf[at + k]
<1>1. at + 1 \in 1 .. Len(buf) + 1 /\ Len(buf) \in Nat
  OBVIOUS
<1>2. /\ Rest \in Seq(Cell) /\ Len(Rest) = Len(buf) - (at + 1) + 1
      /\ \A k \in 1 .. Len(buf) - (at + 1) + 1 : Rest[k] = buf[at + 1 + k - 1]
  BY <1>1, Piece DEF Rest
<1> QED BY <1>1, <1>2

\* The front of the rest, when its head is right, is a byte of a message of the host.
LEMMA FrontFacts ==
  ASSUME TypeInv, Len(Rest) >= HeadSize, HeadOk(Rest)
  PROVE  Rest[1] = buf[at + 1] /\ Genuine(lens, Rest[1]) /\ Rest[1].len \in Sizes /\ Len(buf) > at
<1>1. at \in Nat /\ Len(buf) \in Nat /\ HeadSize \in Nat \ {0}
  BY AlinkAssumption DEF TypeInv, TypeOK
<1>2. Len(Rest) = Len(buf) - at /\ \A k \in 1 .. Len(buf) - at : Rest[k] = buf[at + k]
  BY <1>1, RestFacts DEF TypeInv, TypeOK, PlaceInv
<1>3. Rest[1] = buf[at + 1] /\ at + 1 \in 1 .. Len(buf)
  BY <1>1, <1>2
<1>4. Rest[1].pos = 1
  BY <1>1 DEF HeadOk
<1>5. Genuine(lens, Rest[1])
  BY <1>3, <1>4 DEF TypeInv, CellInv, Noise
<1>6. lens[Rest[1].msg] \in Sizes
  BY <1>5, ElementOfSeq DEF TypeInv, TypeOK, Genuine
<1> QED BY <1>3, <1>5, <1>6, <1>1 DEF Genuine

-----------------------------------------------------------------------------
(* Types.                                                                  *)

LEMMA TypeInit == Init => TypeInv
<1> SUFFICES ASSUME Init PROVE TypeInv
  OBVIOUS
<1>1. <<>> \in Seq(Cell) /\ <<>> \in Seq(Sizes) /\ <<>> \in Seq(Nat) /\ Len(<<>>) = 0
  OBVIOUS
<1> QED BY <1>1, AlinkAssumption DEF Init, TypeInv, TypeOK, PlaceInv, CellInv

\* What a reset leaves.
LEMMA ResetFacts ==
  ASSUME Reset
  PROVE  /\ buf' = <<>> /\ buf' \in Seq(Cell) /\ Len(buf') = 0
         /\ at' = 0 /\ start' = "zero" /\ msgLen' = 0 /\ pc' = "select"
BY DEF Reset

LEMMA TypeReset ==
  ASSUME TypeInv, Reset, UNCHANGED lens, delivered' \in Seq(Nat),
         faults' \in 0 .. MaxFault, clean' \in Nat \cup {Dirty},
         wire' = wire \/ wire' = <<>>
  PROVE  TypeInv'
<1>1. wire' \in Seq(Cell) /\ \A k \in 1 .. Len(wire') : wire'[k] = Noise \/ Genuine(lens, wire'[k])
  <2>1. CASE wire' = wire
    BY <2>1 DEF TypeInv, TypeOK, CellInv
  <2>2. CASE wire' = <<>>
    BY <2>2
  <2> QED BY <2>1, <2>2
<1> QED BY <1>1, ResetFacts, AlinkAssumption DEF TypeInv, TypeOK, PlaceInv, CellInv

LEMMA TypeAwait ==
  ASSUME TypeInv, NEW need \in {0} \cup Sizes, Await(need)
  PROVE  TypeInv'
<1>1. /\ Rest \in Seq(Cell) /\ Len(Rest) = Len(buf) - at
      /\ \A k \in 1 .. Len(buf) - at : Rest[k] = buf[at + k]
  BY RestFacts DEF TypeInv, TypeOK, PlaceInv
<1>2. \A k \in 1 .. Len(Rest) : Rest[k] = Noise \/ Genuine(lens, Rest[k])
  BY <1>1 DEF TypeInv, TypeOK, PlaceInv, CellInv
<1>3. Len(Rest) <= BufSize
  BY <1>1, AlinkAssumption DEF TypeInv, TypeOK, PlaceInv
<1> QED BY <1>1, <1>2, <1>3, AlinkAssumption DEF TypeInv, TypeOK, PlaceInv, CellInv, Await, link

LEMMA TypeSend ==
  ASSUME TypeInv, NEW s \in Sizes, SendMessage(s)
  PROVE  TypeInv'
<1> DEFINE n == Len(lens) + 1
<1>1. lens \in Seq(Sizes) /\ s \in Nat /\ n \in Nat /\ Len(lens) \in Nat /\ n \in 1 .. n
  BY AlinkAssumption DEF TypeInv, TypeOK
<1>2. /\ lens' \in Seq(Sizes) /\ DOMAIN lens' = 1 .. n /\ lens'[n] = s
      /\ \A i \in DOMAIN lens : i \in DOMAIN lens' /\ lens'[i] = lens[i]
  BY <1>1, AppendProperties, LenProperties DEF SendMessage
<1>3. /\ Message(n, s) \in Seq(Cell) /\ Len(Message(n, s)) = s
      /\ \A k \in 1 .. s : Message(n, s)[k] = [msg |-> n, pos |-> k, len |-> s]
  BY <1>1, MessageFacts
<1>4. \A k \in 1 .. s : Genuine(lens', Message(n, s)[k])
  <2> HIDE DEF n
  <2> QED BY <1>1, <1>2, <1>3 DEF Genuine
<1>5. \A c : Genuine(lens, c) => Genuine(lens', c)
  BY <1>2 DEF Genuine
<1>6. /\ wire' \in Seq(Cell) /\ Len(wire') = Len(wire) + s
      /\ \A k \in 1 .. Len(wire) + s :
            wire'[k] = IF k <= Len(wire) THEN wire[k] ELSE Message(n, s)[k - Len(wire)]
  <2>1. wire' = wire \o Message(n, s) /\ wire \in Seq(Cell)
    BY DEF SendMessage, TypeInv, TypeOK
  <2> DEFINE m == Message(n, s)
  <2>2. m \in Seq(Cell) /\ Len(m) = s
    BY <1>3
  <2> HIDE DEF m
  <2>3. /\ wire \o m \in Seq(Cell) /\ Len(wire \o m) = Len(wire) + Len(m)
        /\ \A k \in 1 .. Len(wire) + Len(m) :
              (wire \o m)[k] = IF k <= Len(wire) THEN wire[k] ELSE m[k - Len(wire)]
    BY <2>1, <2>2, ConcatProperties
  <2> QED BY <2>1, <2>2, <2>3 DEF m
<1>7. \A k \in 1 .. Len(wire') : wire'[k] = Noise \/ Genuine(lens', wire'[k])
  <2> SUFFICES ASSUME NEW k \in 1 .. Len(wire') PROVE wire'[k] = Noise \/ Genuine(lens', wire'[k])
    OBVIOUS
  <2>1. Len(wire) \in Nat
    BY DEF TypeInv, TypeOK
  <2>2. CASE k <= Len(wire)
    BY <2>1, <2>2, <1>5, <1>6 DEF TypeInv, CellInv
  <2>3. CASE k > Len(wire)
    <3>1. k - Len(wire) \in 1 .. s
      BY <2>1, <2>3, <1>1, <1>6
    <3> QED BY <3>1, <2>1, <2>3, <1>4, <1>6
  <2> QED BY <2>1, <2>2, <2>3, <1>1, <1>6
<1>8. clean' \in Nat \cup {Dirty}
  BY <1>1 DEF SendMessage, TypeInv, TypeOK
<1> HIDE DEF n
<1> QED BY <1>2, <1>5, <1>6, <1>7, <1>8 DEF SendMessage, TypeInv, TypeOK, PlaceInv, CellInv

LEMMA DamageFacts ==
  ASSUME TypeInv, NEW k \in 1 .. Len(wire), Damage(k)
  PROVE  /\ wire' \in Seq(Cell)
         /\ \/ Len(wire') = Len(wire) /\ \A i \in 1 .. Len(wire) : wire'[i] = IF i = k THEN Noise ELSE wire[i]
            \/ Len(wire') = Len(wire) - 1 /\ \A i \in 1 .. Len(wire) - 1 : wire'[i] = IF i < k THEN wire[i] ELSE wire[i + 1]
<1>1. wire \in Seq(Cell) /\ Len(wire) \in Nat /\ k \in Nat
  BY DEF TypeInv, TypeOK
<1>2. CASE wire' = [wire EXCEPT ![k] = Noise]
  BY <1>1, <1>2, NoiseType, ExceptSeq
<1>3. CASE wire' = RemoveAt(wire, k)
  <2> DEFINE before == SubSeq(wire, 1, k - 1)
             behind == SubSeq(wire, k + 1, Len(wire))
  <2>1. before \in Seq(Cell) /\ Len(before) = k - 1 /\ \A i \in 1 .. k - 1 : before[i] = wire[i]
    BY <1>1, Piece
  <2>2. behind \in Seq(Cell) /\ Len(behind) = Len(wire) - k
        /\ \A i \in 1 .. Len(wire) - k : behind[i] = wire[k + i]
    <3>1. k + 1 \in 1 .. Len(wire) + 1 /\ Len(wire) <= Len(wire) /\ k + 1 <= Len(wire) + 1
      BY <1>1
    <3>2. /\ behind \in Seq(Cell) /\ Len(behind) = Len(wire) - (k + 1) + 1
          /\ \A i \in 1 .. Len(wire) - (k + 1) + 1 : behind[i] = wire[k + 1 + i - 1]
      BY <1>1, <3>1, Piece
    <3> QED BY <1>1, <3>2
  <2>3. wire' = before \o behind
    BY <1>3 DEF RemoveAt
  <2> HIDE DEF before, behind
  <2>4. /\ wire' \in Seq(Cell) /\ Len(wire') = k - 1 + (Len(wire) - k)
        /\ \A i \in 1 .. Len(wire) - 1 : wire'[i] = IF i <= k - 1 THEN before[i] ELSE behind[i - (k - 1)]
    <3>1. /\ before \o behind \in Seq(Cell) /\ Len(before \o behind) = Len(before) + Len(behind)
          /\ \A i \in 1 .. Len(before) + Len(behind) :
                (before \o behind)[i] = IF i <= Len(before) THEN before[i] ELSE behind[i - Len(before)]
      BY <2>1, <2>2, ConcatProperties
    <3>2. k - 1 + (Len(wire) - k) = Len(wire) - 1
      BY <1>1
    <3> QED BY <3>1, <3>2, <2>1, <2>2, <2>3
  <2>5. \A i \in 1 .. Len(wire) - 1 : wire'[i] = IF i < k THEN wire[i] ELSE wire[i + 1]
    <3> SUFFICES ASSUME NEW i \in 1 .. Len(wire) - 1
                 PROVE  wire'[i] = IF i < k THEN wire[i] ELSE wire[i + 1]
      OBVIOUS
    <3>1. i \in Nat /\ wire'[i] = IF i <= k - 1 THEN before[i] ELSE behind[i - (k - 1)]
      BY <1>1, <2>4
    <3>2. CASE i < k
      <4>1. i \in 1 .. k - 1 /\ i <= k - 1
        BY <1>1, <3>1, <3>2
      <4> QED BY <2>1, <3>1, <3>2, <4>1
    <3>3. CASE ~(i < k)
      <4>1. i - (k - 1) \in 1 .. Len(wire) - k /\ ~(i <= k - 1) /\ k + (i - (k - 1)) = i + 1
        BY <1>1, <3>1, <3>3
      <4> QED BY <2>2, <3>1, <3>3, <4>1
    <3> QED BY <3>2, <3>3
  <2> QED BY <1>1, <2>4, <2>5
<1> QED BY <1>2, <1>3 DEF Damage

LEMMA TypeDamage ==
  ASSUME TypeInv, NEW k \in 1 .. Len(wire), Damage(k)
  PROVE  TypeInv'
<1>1. Len(wire) \in Nat /\ k \in Nat
  BY DEF TypeInv, TypeOK
<1>2. wire' \in Seq(Cell) /\ \A i \in 1 .. Len(wire') : wire'[i] = Noise \/ Genuine(lens, wire'[i])
  <2>1. \A i \in 1 .. Len(wire) : wire[i] = Noise \/ Genuine(lens, wire[i])
    BY DEF TypeInv, CellInv
  <2>2. ASSUME NEW i \in 1 .. Len(wire')
        PROVE  \/ wire'[i] = Noise
               \/ i \in 1 .. Len(wire) /\ wire'[i] = wire[i]
               \/ i + 1 \in 1 .. Len(wire) /\ wire'[i] = wire[i + 1]
    BY <1>1, DamageFacts
  <2> QED BY <2>1, <2>2, DamageFacts
<1> QED BY <1>2, AlinkAssumption DEF Damage, Fault, TypeInv, TypeOK, PlaceInv, CellInv

\* What a read moves from the link to the buffer.
LEMMA ReceiveFacts ==
  ASSUME TypeInv, NEW n \in 1 .. Len(wire), Receive(n)
  PROVE  /\ buf' \in Seq(Cell) /\ Len(buf') = Len(buf) + n /\ Len(buf') <= BufSize
         /\ \A k \in 1 .. Len(buf) + n : buf'[k] = IF k <= Len(buf) THEN buf[k] ELSE wire[k - Len(buf)]
         /\ wire' \in Seq(Cell) /\ Len(wire') = Len(wire) - n
         /\ \A k \in 1 .. Len(wire) - n : wire'[k] = wire[n + k]
<1>1. /\ wire \in Seq(Cell) /\ Len(wire) \in Nat /\ n \in Nat /\ n <= Len(wire)
      /\ buf \in Seq(Cell) /\ Len(buf) \in Nat /\ BufSize \in Nat
  BY AlinkAssumption DEF TypeInv, TypeOK
<1> DEFINE came == SubSeq(wire, 1, n)
           stays == SubSeq(wire, n + 1, Len(wire))
<1>2. came \in Seq(Cell) /\ Len(came) = n /\ \A k \in 1 .. n : came[k] = wire[k]
  BY <1>1, Piece
<1>3. stays \in Seq(Cell) /\ Len(stays) = Len(wire) - n
      /\ \A k \in 1 .. Len(wire) - n : stays[k] = wire[n + k]
  <2>1. n + 1 \in 1 .. Len(wire) + 1 /\ Len(wire) <= Len(wire)
    BY <1>1
  <2>2. /\ stays \in Seq(Cell) /\ Len(stays) = Len(wire) - (n + 1) + 1
        /\ \A k \in 1 .. Len(wire) - (n + 1) + 1 : stays[k] = wire[n + 1 + k - 1]
    BY <1>1, <2>1, Piece
  <2> QED BY <1>1, <2>2
<1>4. buf' = buf \o came /\ wire' = stays /\ n <= BufSize - Len(buf)
  BY DEF Receive, Left
<1> HIDE DEF came, stays
<1>5. /\ buf \o came \in Seq(Cell) /\ Len(buf \o came) = Len(buf) + Len(came)
      /\ \A k \in 1 .. Len(buf) + Len(came) :
            (buf \o came)[k] = IF k <= Len(buf) THEN buf[k] ELSE came[k - Len(buf)]
  BY <1>1, <1>2, ConcatProperties
<1> QED BY <1>1, <1>2, <1>3, <1>4, <1>5

LEMMA TypeReceive ==
  ASSUME TypeInv, NEW n \in 1 .. Len(wire), Receive(n)
  PROVE  TypeInv'
<1>1. Len(wire) \in Nat /\ Len(buf) \in Nat /\ n \in Nat /\ BufSize \in Nat
  BY AlinkAssumption DEF TypeInv, TypeOK
<1>2. \A k \in 1 .. Len(buf') : buf'[k] = Noise \/ Genuine(lens, buf'[k])
  <2>1. ASSUME NEW k \in 1 .. Len(buf')
        PROVE  \/ k \in 1 .. Len(buf) /\ buf'[k] = buf[k]
               \/ k - Len(buf) \in 1 .. Len(wire) /\ buf'[k] = wire[k - Len(buf)]
    <3>1. k \in 1 .. Len(buf) + n /\ k \in Nat
      BY <1>1, ReceiveFacts
    <3> QED BY <1>1, <3>1, ReceiveFacts
  <2> QED BY <2>1 DEF TypeInv, CellInv
<1>3. \A k \in 1 .. Len(wire') : wire'[k] = Noise \/ Genuine(lens, wire'[k])
  <2>1. ASSUME NEW k \in 1 .. Len(wire')
        PROVE  n + k \in 1 .. Len(wire) /\ wire'[k] = wire[n + k]
    <3>1. k \in 1 .. Len(wire) - n /\ k \in Nat
      BY <1>1, ReceiveFacts
    <3> QED BY <1>1, <3>1, ReceiveFacts
  <2> QED BY <2>1 DEF TypeInv, CellInv
<1>4. /\ msgLen' \in {0} \cup Sizes /\ start' \in {"zero", "recent", "old"}
      /\ pc' \in {"select", "parse"} /\ at' = 0 /\ UNCHANGED <<lens, delivered, faults, clean>>
  BY DEF Receive, TypeInv, TypeOK
<1> QED BY <1>1, <1>2, <1>3, <1>4, ReceiveFacts DEF TypeInv, TypeOK, PlaceInv, CellInv

\* The message that is handed over.
LEMMA DeliverFacts ==
  ASSUME TypeInv, Deliver
  PROVE  /\ pc = "parse" /\ Rest[1] = buf[at + 1] /\ Genuine(lens, Rest[1]) /\ Rest[1].len \in Sizes
         /\ Rest[1].len <= Len(buf) - at /\ DataOk(Rest)
<1>1. Complete /\ DataOk(Rest)
  BY DEF Deliver
<1>2. Len(Rest) = Len(buf) - at
  BY RestFacts DEF TypeInv, TypeOK, PlaceInv
<1> QED BY <1>1, <1>2, FrontFacts DEF Complete

LEMMA TypeDeliver ==
  ASSUME TypeInv, Deliver
  PROVE  TypeInv'
<1>1. delivered' \in Seq(Nat) /\ UNCHANGED <<lens, wire, faults, clean>>
  <2>1. Rest[1].msg \in Nat /\ delivered \in Seq(Nat)
    BY DeliverFacts DEF Genuine, TypeInv, TypeOK
  <2>2. delivered' = delivered \/ delivered' = Append(delivered, Rest[1].msg)
    BY DEF Deliver
  <2> QED BY <2>1, <2>2, AppendProperties DEF Deliver, link
<1>2. CASE Len(Rest) = Rest[1].len
  <2>1. Reset
    BY <1>2 DEF Deliver
  <2> QED BY <1>1, <2>1, TypeReset DEF TypeInv, TypeOK
<1>3. CASE Len(Rest) # Rest[1].len
  <2>1. at' = at + Rest[1].len /\ start' = "recent" /\ msgLen' = 0 /\ UNCHANGED <<buf, pc>>
    BY <1>3 DEF Deliver
  <2>2. at' <= Len(buf) /\ at' \in 0 .. BufSize /\ pc = "parse"
    <3>1. Rest[1].len \in Nat /\ Rest[1].len <= Len(buf) - at /\ pc = "parse"
      BY DeliverFacts, AlinkAssumption
    <3>2. at \in Nat /\ Len(buf) \in Nat /\ BufSize \in Nat /\ Len(buf) <= BufSize
      BY AlinkAssumption DEF TypeInv, TypeOK
    <3> QED BY <2>1, <3>1, <3>2
  <2> QED BY <1>1, <2>1, <2>2 DEF TypeInv, TypeOK, PlaceInv, CellInv
<1> QED BY <1>2, <1>3

LEMMA TypeStep == TypeInv /\ [Next]_vars => TypeInv'
<1> SUFFICES ASSUME TypeInv, [Next]_vars PROVE TypeInv'
  OBVIOUS
<1>1. ASSUME NEW s \in Sizes, SendMessage(s) PROVE TypeInv'
  BY <1>1, TypeSend
<1>2. ASSUME NEW k \in 1 .. Len(wire), Damage(k) PROVE TypeInv'
  BY <1>2, TypeDamage
<1>3. CASE Reopened
  <2>1. wire' \in Seq(Cell) /\ Len(wire') = 0
    BY <1>3 DEF Reopened
  <2> QED BY <1>3, <2>1, AlinkAssumption DEF Reopened, Fault, TypeInv, TypeOK, PlaceInv, CellInv
<1>4. CASE TimePasses
  BY <1>4 DEF TimePasses, link, TypeInv, TypeOK, PlaceInv, CellInv
<1>5. CASE ReceiveNothing
  <2>1. faults' \in 0 .. MaxFault
    BY <1>5, AlinkAssumption DEF ReceiveNothing, Fault, TypeInv, TypeOK
  <2> QED BY <1>5, <2>1, TypeReset DEF ReceiveNothing, Fault, TypeInv, TypeOK
<1>6. ASSUME NEW n \in 1 .. Len(wire), Receive(n) PROVE TypeInv'
  BY <1>6, TypeReceive
<1>7. CASE AwaitHead
  BY <1>7, TypeAwait DEF AwaitHead
<1>8. CASE AwaitData
  BY <1>8, TypeAwait, FrontFacts DEF AwaitData
<1>9. CASE BadHead \/ BadData
  BY <1>9, TypeReset DEF BadHead, BadData, link, TypeInv, TypeOK
<1>10. CASE Deliver
  BY <1>10, TypeDeliver
<1>11. CASE UNCHANGED vars
  BY <1>11 DEF vars, link, TypeInv, TypeOK, PlaceInv, CellInv
<1> QED BY <1>1, <1>2, <1>3, <1>4, <1>5, <1>6, <1>7, <1>8, <1>9, <1>10, <1>11 DEF Next, Callback

LEMMA TypeAlways == Spec => []TypeInv
BY TypeInit, TypeStep, PTL DEF Spec

(* The types hold, and with them that the buffer is never written beyond   *)
(* its end (_c2_network_reset_buf, left, memmove), for any lengths of      *)
(* messages, any cuts of the stream and any number of faults.              *)
THEOREM TypeCorrect == Spec => []TypeOK
BY TypeAlways, PTL DEF TypeInv

-----------------------------------------------------------------------------
(* Nothing complete is held back.                                          *)

LEMMA SameHead ==
  ASSUME NEW q, NEW r, \A k \in 1 .. HeadSize : q[k] = r[k]
  PROVE  HeadOk(q) => HeadOk(r)
BY AlinkAssumption DEF HeadOk

LEMMA HeldReset == ASSUME Reset PROVE NoneHeldBack'
<1>1. BufSize \in Nat \ {0} /\ HeadSize \in Nat \ {0}
  BY SizeFacts
<1> QED BY <1>1, ResetFacts DEF NoneHeldBack

LEMMA HeldReceive ==
  ASSUME TypeInv, NoneHeldBack, NEW n \in 1 .. Len(wire), Receive(n)
  PROVE  NoneHeldBack'
<1> SUFFICES ASSUME pc' = "select"
             PROVE  /\ Len(buf') >= HeadSize => HeadOk(buf') /\ Len(buf') < buf'[1].len
                    /\ msgLen' # 0 => Len(buf') >= HeadSize /\ msgLen' = buf'[1].len
                    /\ Len(buf') < BufSize
  BY DEF NoneHeldBack
<1>1. /\ Len(buf) \in Nat /\ n \in Nat \ {0} /\ HeadSize \in Nat \ {0} /\ BufSize \in Nat
      /\ pc = "select" /\ msgLen \in {0} \cup Sizes /\ Len(buf') = Len(buf) + n
      /\ \A s \in Sizes : s \in Nat \ {0} /\ s < BufSize
      /\ HeadSize < BufSize
  <2>1. Len(buf) \in Nat /\ n \in Nat \ {0} /\ msgLen \in {0} \cup Sizes /\ pc = "select"
    BY DEF TypeInv, TypeOK, Receive
  <2> QED BY <2>1, SizeFacts, ReceiveFacts
<1>2. CASE msgLen' = 0
  <2>1. Len(buf) + n < HeadSize
    BY <1>1, <1>2 DEF Receive
  <2> QED BY <1>1, <1>2, <2>1
<1>3. CASE msgLen' # 0
  <2>1. msgLen' = msgLen /\ Len(buf) + n < msgLen /\ msgLen \in Sizes
    BY <1>1, <1>3 DEF Receive
  <2>2. Len(buf) >= HeadSize /\ HeadOk(buf) /\ msgLen = buf[1].len
    BY <1>1, <2>1 DEF NoneHeldBack
  <2>3. \A k \in 1 .. HeadSize : buf[k] = buf'[k]
    BY <1>1, <2>2, ReceiveFacts
  <2>4. HeadOk(buf') /\ buf'[1] = buf[1]
    BY <1>1, <2>2, <2>3, SameHead
  <2> QED BY <1>1, <2>1, <2>2, <2>4
<1> QED BY <1>2, <1>3

LEMMA HeldStep == TypeInv /\ NoneHeldBack /\ [Next]_vars => NoneHeldBack'
<1> SUFFICES ASSUME TypeInv, NoneHeldBack, [Next]_vars PROVE NoneHeldBack'
  OBVIOUS
<1>1. ASSUME UNCHANGED <<buf, msgLen, pc>> PROVE NoneHeldBack'
  BY <1>1 DEF NoneHeldBack
<1>2. ASSUME NEW s \in Sizes, SendMessage(s) PROVE NoneHeldBack'
  BY <1>1, <1>2 DEF SendMessage
<1>3. ASSUME NEW k \in 1 .. Len(wire), Damage(k) PROVE NoneHeldBack'
  BY <1>1, <1>3 DEF Damage
<1>4. CASE Reopened \/ TimePasses
  BY <1>1, <1>4 DEF Reopened, TimePasses
<1>5. CASE ReceiveNothing \/ BadHead \/ BadData
  BY <1>5, HeldReset DEF ReceiveNothing, BadHead, BadData
<1>6. ASSUME NEW n \in 1 .. Len(wire), Receive(n) PROVE NoneHeldBack'
  BY <1>6, HeldReceive
<1>7. CASE AwaitHead
  <2>1. buf' = Rest /\ Len(Rest) < HeadSize /\ msgLen' = 0
    BY <1>7 DEF AwaitHead, Await
  <2>2. HeadSize \in Nat /\ BufSize \in Nat /\ HeadSize < BufSize /\ Len(Rest) \in Nat
    BY SizeFacts, RestFacts DEF TypeInv, TypeOK, PlaceInv
  <2> QED BY <2>1, <2>2 DEF NoneHeldBack
<1>8. CASE AwaitData
  <2>1. buf' = Rest /\ Len(Rest) >= HeadSize /\ HeadOk(Rest) /\ Len(Rest) < Rest[1].len /\ msgLen' = Rest[1].len
    BY <1>8 DEF AwaitData, Await
  <2>2. Rest[1].len \in Sizes
    BY <2>1, FrontFacts
  <2>3. Rest[1].len \in Nat /\ Rest[1].len <= BufSize /\ BufSize \in Nat /\ Len(Rest) \in Nat
    BY <2>2, SizeFacts, RestFacts DEF TypeInv, TypeOK, PlaceInv
  <2>4. HeadOk(buf')
    BY <2>1
  <2> QED BY <2>1, <2>3, <2>4 DEF NoneHeldBack
<1>9. CASE Deliver
  <2>1. CASE Len(Rest) = Rest[1].len
    BY <1>9, <2>1, HeldReset DEF Deliver
  <2>2. CASE Len(Rest) # Rest[1].len
    BY <1>9, <2>2, DeliverFacts DEF Deliver, NoneHeldBack
  <2> QED BY <2>1, <2>2
<1>10. CASE UNCHANGED vars
  BY <1>1, <1>10 DEF vars
<1> QED BY <1>2, <1>3, <1>4, <1>5, <1>6, <1>7, <1>8, <1>9, <1>10 DEF Next, Callback

(* Whatever the reads, the pauses and the faults: between two callbacks    *)
(* the buffer begins with a message that is not complete, msg_len is what  *)
(* that message needs, and there is room for the rest of it                *)
(* (c2_network_cbk_data).                                                  *)
THEOREM NothingHeldBack == Spec => []NoneHeldBack
<1>1. Init => NoneHeldBack
  BY SizeFacts DEF Init, NoneHeldBack
<1> QED BY <1>1, TypeAlways, HeldStep, PTL DEF Spec

-----------------------------------------------------------------------------
(* Order.  What the loop has not looked at and what is still on the link   *)
(* are one stream; in it the bytes that are not damaged stand in the order *)
(* they were sent, and behind everything that was handed over.             *)

Ahead == Len(buf) - at
Under == Ahead + Len(wire)
Stream == [k \in 1 .. Under |-> IF k <= Ahead THEN buf[at + k] ELSE wire[k - Ahead]]

Real(c) == c.msg # 0
Before(c, d) == c.msg < d.msg \/ (c.msg = d.msg /\ c.pos < d.pos)

Sorted(f, n) == \A i, j \in 1 .. n : i < j /\ Real(f[i]) /\ Real(f[j]) => Before(f[i], f[j])
Behind(f, n, d) == \A i \in 1 .. n : \A e \in DOMAIN d : Real(f[i]) => d[e] < f[i].msg

OrderInv == InOrderOnce /\ Sorted(Stream, Under) /\ Behind(Stream, Under, delivered)

\* A stream keeps its order when bytes are damaged or left out.
LEMMA Thinned ==
  ASSUME NEW m \in Nat, NEW n \in Nat, NEW f, NEW g, NEW d, NEW h \in [1 .. n -> 1 .. m],
         \A i, j \in 1 .. n : i < j => h[i] < h[j],
         \A i \in 1 .. n : g[i] = f[h[i]] \/ g[i] = Noise,
         Sorted(f, m), Behind(f, m, d)
  PROVE  Sorted(g, n) /\ Behind(g, n, d)
<1>1. \A i \in 1 .. n : Real(g[i]) => g[i] = f[h[i]] /\ h[i] \in 1 .. m
  BY DEF Real, Noise
<1>2. Sorted(g, n)
  BY <1>1 DEF Sorted
<1>3. Behind(g, n, d)
  BY <1>1 DEF Behind
<1> QED BY <1>2, <1>3

LEMMA StreamFacts ==
  ASSUME TypeInv
  PROVE  /\ Ahead \in Nat /\ Under \in Nat /\ Ahead <= Under /\ Len(wire) = Under - Ahead
         /\ at \in Nat /\ Len(buf) = at + Ahead /\ Len(wire) \in Nat
         /\ \A k \in 1 .. Ahead : Stream[k] = buf[at + k]
         /\ \A k \in 1 .. Len(wire) : Stream[Ahead + k] = wire[k]
         /\ \A k \in 1 .. Under : Stream[k] = Noise \/ Genuine(lens, Stream[k])
<1>1. at \in Nat /\ Len(buf) \in Nat /\ Len(wire) \in Nat /\ at <= Len(buf)
  BY DEF TypeInv, TypeOK, PlaceInv
<1>2. Ahead \in Nat /\ Under \in Nat /\ Ahead <= Under /\ Len(wire) = Under - Ahead /\ Len(buf) = at + Ahead
  BY <1>1 DEF Ahead, Under
<1>3. \A k \in 1 .. Under : Stream[k] = IF k <= Ahead THEN buf[at + k] ELSE wire[k - Ahead]
  BY DEF Stream
<1>4. \A k \in 1 .. Ahead : Stream[k] = buf[at + k] /\ at + k \in 1 .. Len(buf)
  BY <1>1, <1>2, <1>3
<1>5. \A k \in 1 .. Len(wire) : Stream[Ahead + k] = wire[k]
  <2> SUFFICES ASSUME NEW k \in 1 .. Len(wire) PROVE Stream[Ahead + k] = wire[k]
    OBVIOUS
  <2>1. Ahead + k \in 1 .. Under /\ ~(Ahead + k <= Ahead) /\ (Ahead + k) - Ahead = k
    BY <1>1, <1>2
  <2> QED BY <2>1, <1>3
<1>6. ASSUME NEW k \in 1 .. Under PROVE Stream[k] = Noise \/ Genuine(lens, Stream[k])
  <2>1. CASE k <= Ahead
    BY <1>2, <1>4, <2>1 DEF TypeInv, CellInv
  <2>2. CASE k > Ahead
    <3>1. k - Ahead \in 1 .. Len(wire) /\ Stream[k] = wire[k - Ahead]
      BY <1>2, <1>3, <2>2
    <3> QED BY <3>1 DEF TypeInv, CellInv
  <2> QED BY <1>2, <2>1, <2>2
<1> QED BY <1>1, <1>2, <1>4, <1>5, <1>6

\* The end of a stream, or nothing of it, is in order.
LEMMA OrderSuffix ==
  ASSUME TypeInv, OrderInv, UNCHANGED <<delivered, lens>>, NEW skip \in Nat, NEW n \in Nat,
         skip + n <= Under, Under' = n,
         \A i \in 1 .. n : Stream'[i] = Stream[skip + i]
  PROVE  OrderInv'
<1> DEFINE h == [i \in 1 .. n |-> skip + i]
<1>1. Under \in Nat
  BY StreamFacts
<1>2. h \in [1 .. n -> 1 .. Under] /\ \A i \in 1 .. n : h[i] = skip + i
  BY <1>1
<1>3. \A i, j \in 1 .. n : i < j => h[i] < h[j]
  BY <1>2
<1>4. \A i \in 1 .. n : Stream'[i] = Stream[h[i]]
  BY <1>2
<1> HIDE DEF h
<1>5. Sorted(Stream', n) /\ Behind(Stream', n, delivered)
  BY <1>1, <1>2, <1>3, <1>4, Thinned DEF OrderInv
<1>6. InOrderOnce'
  BY DEF OrderInv, InOrderOnce
<1> QED BY <1>5, <1>6 DEF OrderInv

\* The stream after a step, by its parts.
LEMMA StreamNext ==
  ASSUME Len(buf)' - at' \in Nat, Len(wire)' \in Nat
  PROVE  /\ Ahead' = Len(buf)' - at' /\ Under' = Ahead' + Len(wire)'
         /\ \A k \in 1 .. Under' : Stream'[k] = IF k <= Ahead' THEN buf'[at' + k] ELSE wire'[k - Ahead']
BY DEF Ahead, Under, Stream

\* A reset drops what is ahead; when the link is down as well, all of it.
LEMMA OrderReset ==
  ASSUME TypeInv, OrderInv, Reset, UNCHANGED <<lens, delivered>>, wire' = wire \/ wire' = <<>>
  PROVE  OrderInv'
<1>1. Len(buf)' = 0 /\ at' = 0
  BY ResetFacts
<1>2. CASE wire' = wire
  <2>1. Ahead' = 0 /\ Under' = Len(wire) /\ \A k \in 1 .. Len(wire) : Stream'[k] = wire[k]
    BY <1>1, <1>2, StreamFacts, StreamNext
  <2>2. \A k \in 1 .. Len(wire) : Stream'[k] = Stream[Ahead + k]
    BY <2>1, StreamFacts
  <2>3. Ahead \in Nat /\ Len(wire) \in Nat /\ Ahead + Len(wire) <= Under /\ Under' = Len(wire)
    BY <2>1, StreamFacts
  <2> QED BY <2>2, <2>3, OrderSuffix
<1>3. CASE wire' = <<>>
  <2>1. Under' = 0 /\ \A i \in 1 .. 0 : Stream'[i] = Stream[Under + i]
    BY <1>1, <1>3, StreamNext
  <2> QED BY <2>1, StreamFacts, OrderSuffix
<1> QED BY <1>2, <1>3

LEMMA OrderReopened ==
  ASSUME TypeInv, OrderInv, Reopened
  PROVE  OrderInv'
<1>1. Len(wire)' = 0 /\ UNCHANGED <<buf, at, delivered, lens>>
  BY DEF Reopened, Fault
<1>2. Ahead' = Ahead /\ Under' = Ahead /\ \A k \in 1 .. Ahead : Stream'[k] = buf[at + k]
  BY <1>1, StreamFacts, StreamNext DEF Ahead
<1>3. \A k \in 1 .. Ahead : Stream'[k] = Stream[0 + k]
  BY <1>2, StreamFacts
<1>4. 0 \in Nat /\ Ahead \in Nat /\ 0 + Ahead <= Under
  BY StreamFacts
<1> QED BY <1>1, <1>2, <1>3, <1>4, OrderSuffix

\* The callback moves what is left to the front of the buffer: the stream is
\* the same.
LEMMA AwaitStream ==
  ASSUME TypeInv, NEW need, Await(need)
  PROVE  /\ Under' = Under /\ \A k \in 1 .. Under : Stream'[k] = Stream[k]
         /\ UNCHANGED <<wire, lens, delivered, clean>>
<1>1. /\ buf' = Rest /\ at' = 0 /\ UNCHANGED <<wire, lens, delivered, clean>>
      /\ Len(Rest) = Ahead /\ \A k \in 1 .. Ahead : Rest[k] = buf[at + k]
  BY RestFacts DEF Await, link, TypeInv, TypeOK, PlaceInv, Ahead
<1>2. Ahead' = Ahead /\ Under' = Under
  <2>1. Len(buf)' = Ahead /\ Len(wire)' = Len(wire) /\ Ahead - 0 = Ahead
    BY <1>1, StreamFacts
  <2> QED BY <1>1, <2>1, StreamFacts, StreamNext DEF Under
<1>3. \A k \in 1 .. Under : Stream'[k] = IF k <= Ahead THEN buf[at + k] ELSE wire[k - Ahead]
  BY <1>1, <1>2, StreamFacts, StreamNext
<1>4. \A k \in 1 .. Under : Stream'[k] = Stream[k]
  BY <1>3, StreamFacts DEF Stream
<1> QED BY <1>1, <1>2, <1>4

LEMMA OrderAwait ==
  ASSUME TypeInv, OrderInv, NEW need, Await(need)
  PROVE  OrderInv'
<1>1. /\ Under' = Under /\ UNCHANGED <<lens, delivered>>
      /\ \A k \in 1 .. Under : Stream'[k] = Stream[0 + k]
  BY AwaitStream, StreamFacts
<1>2. 0 \in Nat /\ Under \in Nat /\ 0 + Under <= Under
  BY StreamFacts
<1> QED BY <1>1, <1>2, OrderSuffix

\* What is read goes from the wire to the buffer: the stream is the same.
LEMMA ReceiveStream ==
  ASSUME TypeInv, NEW n \in 1 .. Len(wire), Receive(n)
  PROVE  /\ Under' = Under /\ \A k \in 1 .. Under : Stream'[k] = Stream[k]
         /\ UNCHANGED <<lens, delivered, clean>>
<1>1. at = 0 /\ at' = 0 /\ UNCHANGED <<lens, delivered, clean>>
  BY DEF Receive, TypeInv, PlaceInv
<1>2. n \in Nat /\ n <= Len(wire) /\ Ahead = Len(buf)
  BY <1>1, StreamFacts
<1>3. Len(buf)' = Len(buf) + n /\ Len(wire)' = Len(wire) - n
  BY ReceiveFacts
<1>4. Ahead' = Ahead + n /\ Under' = Under
  <2>1. Len(buf)' - at' = Ahead + n /\ Ahead + n \in Nat /\ Len(wire)' \in Nat
    BY <1>1, <1>2, <1>3, StreamFacts
  <2>2. Ahead + n + (Len(wire) - n) = Under
    <3>1. Ahead \in Nat /\ Len(wire) \in Nat /\ Under = Ahead + Len(wire) /\ n \in Nat
      BY <1>2, StreamFacts DEF Under
    <3> QED BY <3>1
  <2> QED BY <1>3, <2>1, <2>2, StreamNext
<1>5. ASSUME NEW k \in 1 .. Under PROVE Stream'[k] = Stream[k]
  <2>1. Stream'[k] = IF k <= Ahead + n THEN buf'[k] ELSE wire'[k - (Ahead + n)]
    BY <1>1, <1>2, <1>3, <1>4, StreamFacts, StreamNext
  <2>2. Stream[k] = IF k <= Ahead THEN buf[k] ELSE wire[k - Ahead]
    BY <1>1, StreamFacts DEF Stream
  <2>3. CASE k <= Ahead + n
    <3>1. buf'[k] = IF k <= Ahead THEN buf[k] ELSE wire[k - Ahead]
      <4>1. k \in 1 .. Len(buf) + n
        BY <1>2, <2>3, StreamFacts
      <4> QED BY <1>2, <4>1, ReceiveFacts
    <3> QED BY <2>1, <2>2, <2>3, <3>1
  <2>4. CASE k > Ahead + n
    <3>1. k - (Ahead + n) \in 1 .. Len(wire) - n /\ n + (k - (Ahead + n)) = k - Ahead
      <4>1. Ahead \in Nat /\ Under \in Nat /\ Len(wire) \in Nat /\ Under = Ahead + Len(wire)
        BY StreamFacts DEF Under
      <4> QED BY <1>2, <2>4, <4>1
    <3>2. wire'[k - (Ahead + n)] = wire[k - Ahead]
      <4>1. \A i \in 1 .. Len(wire) - n : wire'[i] = wire[n + i]
        BY ReceiveFacts
      <4>2. wire'[k - (Ahead + n)] = wire[n + (k - (Ahead + n))]
        BY <3>1, <4>1
      <4> QED BY <3>1, <4>2
    <3> QED BY <1>2, <2>1, <2>2, <2>4, <3>2, StreamFacts
  <2> QED BY <1>2, <2>3, <2>4, StreamFacts
<1> QED BY <1>1, <1>4, <1>5

LEMMA OrderReceive ==
  ASSUME TypeInv, OrderInv, NEW n \in 1 .. Len(wire), Receive(n)
  PROVE  OrderInv'
<1>1. /\ Under' = Under /\ UNCHANGED <<lens, delivered>>
      /\ \A k \in 1 .. Under : Stream'[k] = Stream[0 + k]
  BY ReceiveStream, StreamFacts
<1>2. 0 \in Nat /\ Under \in Nat /\ 0 + Under <= Under
  BY StreamFacts
<1> QED BY <1>1, <1>2, OrderSuffix

LEMMA OrderDamage ==
  ASSUME TypeInv, OrderInv, NEW q \in 1 .. Len(wire), Damage(q)
  PROVE  OrderInv'
<1>1. UNCHANGED <<buf, at, lens, delivered>>
  BY DEF Damage, Fault
<1>2. /\ Ahead \in Nat /\ Len(wire) \in Nat /\ Under = Ahead + Len(wire) /\ Under \in Nat
      /\ q \in Nat /\ 1 <= q /\ q <= Len(wire)
  BY StreamFacts DEF Under
<1>3. Ahead' = Ahead /\ Under' = Ahead + Len(wire)'
  BY <1>1 DEF Ahead, Under
<1>4. \A k \in 1 .. Ahead : k \in 1 .. Under' => Stream'[k] = Stream[k]
  BY <1>1, <1>2, <1>3 DEF Stream, Ahead
<1>5. \A k \in 1 .. Under' : k > Ahead => Stream'[k] = wire'[k - Ahead]
  BY <1>3, <1>2 DEF Stream
<1>6. \A k \in 1 .. Under : k > Ahead => Stream[k] = wire[k - Ahead]
  BY <1>2 DEF Stream
<1>7. InOrderOnce'
  BY <1>1 DEF OrderInv, InOrderOnce
<1>8. CASE /\ Len(wire') = Len(wire)
           /\ \A i \in 1 .. Len(wire) : wire'[i] = IF i = q THEN Noise ELSE wire[i]
  <2> DEFINE h == [i \in 1 .. Under |-> i]
  <2>1. Under' = Under
    BY <1>2, <1>3, <1>8
  <2>2. h \in [1 .. Under -> 1 .. Under] /\ \A i, j \in 1 .. Under : i < j => h[i] < h[j]
    BY <1>2
  <2>3. ASSUME NEW i \in 1 .. Under PROVE Stream'[i] = Stream[h[i]] \/ Stream'[i] = Noise
    <3>1. CASE i <= Ahead
      BY <1>2, <1>4, <2>1, <3>1
    <3>2. CASE i > Ahead
      <4>1. i - Ahead \in 1 .. Len(wire) /\ Stream'[i] = wire'[i - Ahead] /\ Stream[i] = wire[i - Ahead]
        BY <1>2, <1>5, <1>6, <2>1, <3>2
      <4> QED BY <1>8, <4>1
    <3> QED BY <1>2, <3>1, <3>2
  <2> HIDE DEF h
  <2>4. Sorted(Stream', Under) /\ Behind(Stream', Under, delivered)
    BY <1>2, <2>2, <2>3, Thinned DEF OrderInv
  <2> QED BY <1>1, <1>7, <2>1, <2>4 DEF OrderInv
<1>9. CASE /\ Len(wire') = Len(wire) - 1
           /\ \A i \in 1 .. Len(wire) - 1 : wire'[i] = IF i < q THEN wire[i] ELSE wire[i + 1]
  <2> DEFINE n == Under - 1
             h == [i \in 1 .. n |-> IF i < Ahead + q THEN i ELSE i + 1]
  <2>1. Under' = n /\ n \in Nat
    BY <1>2, <1>3, <1>9
  <2>2. /\ h \in [1 .. n -> 1 .. Under]
        /\ \A i \in 1 .. n : h[i] = IF i < Ahead + q THEN i ELSE i + 1
    BY <1>2, <2>1
  <2>3. \A i, j \in 1 .. n : i < j => h[i] < h[j]
    BY <1>2, <2>2
  <2>4. ASSUME NEW i \in 1 .. n PROVE Stream'[i] = Stream[h[i]]
    <3>1. CASE i <= Ahead
      <4>1. i < Ahead + q
        BY <1>2, <3>1
      <4> QED BY <1>4, <2>1, <2>2, <3>1, <4>1
    <3>2. CASE i > Ahead
      <4>1. i \in Nat /\ i - Ahead \in 1 .. Len(wire) - 1 /\ Stream'[i] = wire'[i - Ahead]
        BY <1>2, <1>5, <2>1, <3>2
      <4>2. Stream[i] = wire[i - Ahead] /\ Stream[i + 1] = wire[(i - Ahead) + 1]
        <5>1. i \in 1 .. Under /\ i + 1 \in 1 .. Under /\ i + 1 > Ahead /\ (i + 1) - Ahead = (i - Ahead) + 1
          BY <1>2, <3>2, <4>1
        <5> QED BY <1>6, <3>2, <5>1
      <4>3. i < Ahead + q <=> i - Ahead < q
        BY <1>2, <4>1
      <4> QED BY <1>9, <2>2, <4>1, <4>2, <4>3
    <3> QED BY <1>2, <2>1, <3>1, <3>2
  <2> HIDE DEF n, h
  <2>5. Sorted(Stream', n) /\ Behind(Stream', n, delivered)
    BY <1>2, <2>1, <2>2, <2>3, <2>4, Thinned DEF OrderInv
  <2> QED BY <1>1, <1>7, <2>1, <2>5 DEF OrderInv
<1> QED BY <1>8, <1>9, DamageFacts

\* The bytes of a new message are behind all others.
LEMMA SendStream ==
  ASSUME TypeInv, NEW s \in Sizes, SendMessage(s)
  PROVE  LET m == Message(Len(lens) + 1, s) IN
         /\ Under' = Under + s
         /\ \A k \in 1 .. Under + s : Stream'[k] = IF k <= Under THEN Stream[k] ELSE m[k - Under]
<1> DEFINE n == Len(lens) + 1
           m == Message(n, s)
<1>1. UNCHANGED <<buf, at, delivered>> /\ wire' = wire \o m /\ lens' = Append(lens, s)
  BY DEF SendMessage
<1>2. s \in Nat /\ n \in Nat /\ Len(lens) \in Nat /\ lens \in Seq(Sizes) /\ DOMAIN lens = 1 .. Len(lens)
  BY AlinkAssumption DEF TypeInv, TypeOK
<1>3. /\ m \in Seq(Cell) /\ Len(m) = s
      /\ \A k \in 1 .. s : m[k].msg = n /\ m[k].pos = k
  <2> HIDE DEF n
  <2>1. m \in Seq(Cell) /\ Len(m) = s /\ \A k \in 1 .. s : m[k] = [msg |-> n, pos |-> k, len |-> s]
    BY <1>2, MessageFacts
  <2> HIDE DEF m
  <2>2. \A k \in 1 .. s : m[k].msg = n /\ m[k].pos = k
    BY <2>1
  <2> QED BY <2>1, <2>2
<1>4. n > Len(lens)
  BY <1>2
<1> HIDE DEF n, m
<1>5. wire \in Seq(Cell) /\ Len(wire) \in Nat /\ Ahead \in Nat /\ Under \in Nat /\ Under = Ahead + Len(wire)
  BY StreamFacts DEF Under, TypeInv, TypeOK
<1>6. /\ Len(wire \o m) = Len(wire) + s
      /\ \A k \in 1 .. Len(wire) + s : (wire \o m)[k] = IF k <= Len(wire) THEN wire[k] ELSE m[k - Len(wire)]
  <2>1. /\ Len(wire \o m) = Len(wire) + Len(m)
        /\ \A k \in 1 .. Len(wire) + Len(m) : (wire \o m)[k] = IF k <= Len(wire) THEN wire[k] ELSE m[k - Len(wire)]
    BY <1>3, <1>5, ConcatProperties
  <2> QED BY <1>3, <2>1
<1>7. Ahead' = Ahead /\ Under' = Under + s
  <2>1. Ahead' = Ahead /\ Under' = Ahead + (Len(wire) + s)
    BY <1>1, <1>6 DEF Ahead, Under
  <2> QED BY <1>2, <1>5, <2>1
<1>8. ASSUME NEW k \in 1 .. Under + s
      PROVE  Stream'[k] = IF k <= Under THEN Stream[k] ELSE m[k - Under]
  <2>1. Stream'[k] = IF k <= Ahead THEN buf[at + k] ELSE (wire \o m)[k - Ahead]
    BY <1>1, <1>7 DEF Stream
  <2>2. CASE k <= Ahead
    <3>1. k \in 1 .. Under /\ k <= Under
      BY <1>5, <2>2
    <3> QED BY <2>1, <2>2, <3>1 DEF Stream
  <2>3. CASE k > Ahead
    <3>1. /\ k - Ahead \in 1 .. Len(wire) + s /\ ~(k <= Ahead) /\ (k - Ahead <= Len(wire) <=> k <= Under)
          /\ (k - Ahead) - Len(wire) = k - Under
      BY <1>2, <1>5, <2>3
    <3>2. Stream'[k] = IF k <= Under THEN wire[k - Ahead] ELSE m[k - Under]
      BY <1>6, <2>1, <3>1
    <3>3. k <= Under => Stream[k] = wire[k - Ahead]
      BY <1>5, <3>1 DEF Stream
    <3> QED BY <3>2, <3>3
  <2> QED BY <1>5, <2>2, <2>3
<1> QED BY <1>7, <1>8 DEF m, n

LEMMA OrderSend ==
  ASSUME TypeInv, OrderInv, NEW s \in Sizes, SendMessage(s)
  PROVE  OrderInv'
<1> DEFINE n == Len(lens) + 1
           m == Message(n, s)
<1>1. UNCHANGED <<buf, at, delivered>> /\ wire' = wire \o m /\ lens' = Append(lens, s)
  BY DEF SendMessage
<1>2. s \in Nat /\ n \in Nat /\ Len(lens) \in Nat /\ lens \in Seq(Sizes) /\ DOMAIN lens = 1 .. Len(lens)
  BY AlinkAssumption DEF TypeInv, TypeOK
<1>3. \A k \in 1 .. s : m[k].msg = n /\ m[k].pos = k
  <2> HIDE DEF n
  <2>1. \A k \in 1 .. s : m[k] = [msg |-> n, pos |-> k, len |-> s]
    BY <1>2, MessageFacts
  <2> HIDE DEF m
  <2>2. ASSUME NEW k \in 1 .. s PROVE m[k].msg = n /\ m[k].pos = k
    <3>1. m[k] = [msg |-> n, pos |-> k, len |-> s]
      BY <2>1
    <3> QED BY <3>1
  <2> QED BY <2>2
<1>4. n > Len(lens)
  BY <1>2
<1>5. Under' = Under + s
  BY SendStream
<1>6. \A k \in 1 .. Under + s : Stream'[k] = IF k <= Under THEN Stream[k] ELSE m[k - Under]
  BY SendStream
<1> HIDE DEF n, m
<1>7. Under \in Nat
  BY StreamFacts
<1>8. ASSUME NEW k \in 1 .. Under + s, k > Under
       PROVE  Stream'[k].msg = n /\ Stream'[k].pos = k - Under
  <2>1. k - Under \in 1 .. s /\ ~(k <= Under)
    BY <1>2, <1>7, <1>8
  <2>2. Stream'[k] = m[k - Under]
    BY <1>6, <2>1
  <2> QED BY <1>3, <2>1, <2>2
<1>9. /\ \A k \in 1 .. Under : Real(Stream[k]) => Stream[k].msg \in 1 .. Len(lens)
      /\ \A e \in DOMAIN delivered : delivered[e] \in 1 .. Len(lens)
  <2>1. \A k \in 1 .. Under : Real(Stream[k]) => Genuine(lens, Stream[k])
    BY StreamFacts DEF Real, Noise
  <2> QED BY <1>2, <2>1 DEF Genuine, OrderInv, InOrderOnce
<1>10. Sorted(Stream', Under + s)
  <2> SUFFICES ASSUME NEW i \in 1 .. Under + s, NEW j \in 1 .. Under + s, i < j,
                      Real(Stream'[i]), Real(Stream'[j])
               PROVE  Before(Stream'[i], Stream'[j])
    BY DEF Sorted
  <2>1. CASE j <= Under
    <3>1. i \in 1 .. Under /\ j \in 1 .. Under /\ Stream'[i] = Stream[i] /\ Stream'[j] = Stream[j]
      BY <1>2, <1>7, <1>6, <2>1
    <3> QED BY <3>1 DEF OrderInv, Sorted
  <2>2. CASE j > Under
    <3>1. Stream'[j].msg = n /\ Stream'[j].pos = j - Under
      BY <1>8, <2>2
    <3>2. CASE i <= Under
      <4>1. Stream'[i] = Stream[i] /\ i \in 1 .. Under
        BY <1>7, <1>6, <3>2
      <4> QED BY <1>2, <1>4, <1>9, <3>1, <4>1 DEF Before
    <3>3. CASE i > Under
      <4>1. Stream'[i].msg = n /\ Stream'[i].pos = i - Under
        BY <1>8, <3>3
      <4>2. i - Under < j - Under
        BY <1>7
      <4> QED BY <3>1, <4>1, <4>2 DEF Before
    <3> QED BY <1>7, <3>2, <3>3
  <2> QED BY <1>7, <2>1, <2>2
<1>11. Behind(Stream', Under + s, delivered)
  <2> SUFFICES ASSUME NEW i \in 1 .. Under + s, NEW e \in DOMAIN delivered, Real(Stream'[i])
               PROVE  delivered[e] < Stream'[i].msg
    BY DEF Behind
  <2>1. CASE i <= Under
    <3>1. i \in 1 .. Under /\ Stream'[i] = Stream[i]
      BY <1>7, <1>6, <2>1
    <3> QED BY <3>1 DEF OrderInv, Behind
  <2>2. CASE i > Under
    <3>1. Stream'[i].msg = n
      BY <1>8, <2>2
    <3> QED BY <1>2, <1>4, <1>9, <3>1
  <2> QED BY <1>7, <2>1, <2>2
<1>12. InOrderOnce'
  <2>1. \A i \in DOMAIN lens : i \in DOMAIN lens' /\ lens'[i] = lens[i]
    BY <1>1, <1>2, AppendProperties, LenProperties
  <2> QED BY <1>1, <2>1 DEF OrderInv, InOrderOnce
<1> QED BY <1>1, <1>5, <1>10, <1>11, <1>12 DEF OrderInv

\* A message is handed over: the stream goes on behind its last byte.
LEMMA DeliverStream ==
  ASSUME TypeInv, Deliver
  PROVE  /\ Rest[1].len \in Nat \ {0} /\ Rest[1].len <= Ahead /\ UNCHANGED lens
         /\ Stream[1] = Rest[1]
         /\ Stream[Rest[1].len].msg = Rest[1].msg /\ Stream[Rest[1].len].pos = Rest[1].len
         /\ Under' = Under - Rest[1].len
         /\ \A i \in 1 .. Under - Rest[1].len : Stream'[i] = Stream[Rest[1].len + i]
<1> DEFINE L == Rest[1].len
<1>1. /\ L \in Nat \ {0} /\ L <= Ahead /\ UNCHANGED <<lens, wire>>
      /\ Ahead \in Nat /\ Len(wire) \in Nat /\ Under = Ahead + Len(wire) /\ at \in Nat /\ Len(buf) = at + Ahead
  <2>1. L \in Nat \ {0}
    BY DeliverFacts, SizeFacts
  <2>2. L <= Len(buf) - at /\ Ahead = Len(buf) - at
    BY DeliverFacts DEF Ahead
  <2> QED BY <2>1, <2>2, StreamFacts DEF Deliver, link, Under
<1>2. \A k \in 1 .. Ahead : Stream[k] = Rest[k]
  <2>1. \A k \in 1 .. Ahead : Rest[k] = buf[at + k]
    BY RestFacts DEF TypeInv, TypeOK, PlaceInv, Ahead
  <2> QED BY <2>1, StreamFacts
<1>3. Rest[L].msg = Rest[1].msg /\ Rest[L].pos = L
  <2>1. SubSeq(Rest, 1, L) = Message(Rest[1].msg, L)
    BY DeliverFacts DEF DataOk
  <2>2. L \in Nat /\ Rest[1].msg \in Nat /\ L \in 1 .. L
    <3>1. Rest[1].msg \in DOMAIN lens /\ DOMAIN lens = 1 .. Len(lens)
      BY DeliverFacts DEF Genuine, TypeInv, TypeOK
    <3> QED BY <1>1, <3>1
  <2> HIDE DEF L
  <2>3. SubSeq(Rest, 1, L)[L] = [msg |-> Rest[1].msg, pos |-> L, len |-> L]
    <3>1. Message(Rest[1].msg, L)[L] = [msg |-> Rest[1].msg, pos |-> L, len |-> L]
      BY <2>2 DEF Message
    <3> QED BY <2>1, <3>1
  <2>4. SubSeq(Rest, 1, L)[L] = Rest[L]
    <3>1. Rest \in Seq(Cell) /\ Len(Rest) = Ahead
      BY RestFacts DEF TypeInv, TypeOK, PlaceInv, Ahead
    <3>2. 1 \in 1 .. Len(Rest) + 1 /\ L <= Len(Rest) /\ 1 <= L + 1 /\ L \in 1 .. L - 1 + 1 /\ 1 + L - 1 = L
      BY <1>1, <3>1
    <3> QED BY <2>2, <3>1, <3>2, Piece
  <2>5. Rest[L] = [msg |-> Rest[1].msg, pos |-> L, len |-> L]
    BY <2>3, <2>4, Zenon
  <2> QED BY <2>5
<1>4. Stream[1] = Rest[1] /\ Stream[L].msg = Rest[1].msg /\ Stream[L].pos = L
  <2>1. 1 \in 1 .. Ahead /\ L \in 1 .. Ahead
    BY <1>1
  <2> HIDE DEF L
  <2> QED BY <1>2, <1>3, <2>1
<1>5. Under' = Under - L /\ \A i \in 1 .. Under - L : Stream'[i] = Stream[L + i]
  <2>1. CASE Len(Rest) = L
    <3>1. Ahead = L
      BY <2>1, RestFacts DEF TypeInv, TypeOK, PlaceInv, Ahead
    <3>2. Len(buf)' = 0 /\ at' = 0
      BY <2>1, ResetFacts DEF Deliver
    <3>3. Ahead' = 0 /\ Under' = Len(wire) /\ \A k \in 1 .. Len(wire) : Stream'[k] = wire[k]
      BY <1>1, <3>2, StreamNext
    <3> HIDE DEF L
    <3> QED BY <1>1, <3>1, <3>3, StreamFacts
  <2>2. CASE Len(Rest) # L
    <3>1. at' = at + L /\ UNCHANGED <<buf, wire>>
      BY <1>1, <2>2 DEF Deliver
    <3> HIDE DEF L
    <3>2. Ahead' = Ahead - L /\ Under' = Under - L
      <4>1. Len(buf)' - at' = Ahead - L /\ Len(wire)' = Len(wire)
        BY <1>1, <3>1
      <4> QED BY <1>1, <4>1 DEF Ahead, Under
    <3>3. ASSUME NEW i \in 1 .. Under - L PROVE Stream'[i] = Stream[L + i]
      <4>1. Stream'[i] = IF i <= Ahead - L THEN buf[(at + L) + i] ELSE wire[i - (Ahead - L)]
        BY <3>1, <3>2 DEF Stream
      <4>2. Stream[L + i] = IF L + i <= Ahead THEN buf[at + (L + i)] ELSE wire[(L + i) - Ahead]
        <5>1. L + i \in 1 .. Under
          BY <1>1
        <5> QED BY <5>1 DEF Stream
      <4>3. /\ i <= Ahead - L <=> L + i <= Ahead
            /\ (at + L) + i = at + (L + i) /\ i - (Ahead - L) = (L + i) - Ahead
        BY <1>1
      <4> QED BY <4>1, <4>2, <4>3
    <3> QED BY <3>2, <3>3
  <2> QED BY <2>1, <2>2
<1> QED BY <1>1, <1>4, <1>5

LEMMA OrderDeliver ==
  ASSUME TypeInv, OrderInv, Deliver
  PROVE  OrderInv'
<1> DEFINE L == Rest[1].len
           m == Rest[1].msg
           n == Under - L
           h == [i \in 1 .. n |-> L + i]
<1>1. /\ L \in Nat \ {0} /\ L <= Ahead /\ lens' = lens
      /\ Stream[1] = Rest[1] /\ Stream[L].msg = m /\ Stream[L].pos = L
      /\ Under' = n /\ \A i \in 1 .. n : Stream'[i] = Stream[L + i]
  BY DeliverStream
<1>2. Ahead \in Nat /\ Under \in Nat /\ Ahead <= Under /\ n \in Nat
  BY <1>1, StreamFacts
<1>3. m \in DOMAIN lens /\ L = lens[m] /\ m \in Nat \ {0} /\ DOMAIN lens = 1 .. Len(lens)
  BY DeliverFacts DEF Genuine, TypeInv, TypeOK
<1>4. delivered' = IF L <= EapSize THEN Append(delivered, m) ELSE delivered
  BY DEF Deliver
<1> HIDE DEF L, m, n
<1>5. Sorted(Stream', n) /\ Behind(Stream', n, delivered)
  <2>1. h \in [1 .. n -> 1 .. Under] /\ \A i \in 1 .. n : h[i] = L + i
    BY <1>1, <1>2 DEF n
  <2>2. \A i, j \in 1 .. n : i < j => h[i] < h[j]
    BY <1>1, <2>1
  <2>3. \A i \in 1 .. n : Stream'[i] = Stream[h[i]]
    BY <1>1, <2>1
  <2> HIDE DEF h
  <2> QED BY <1>2, <2>1, <2>2, <2>3, Thinned DEF OrderInv
<1>6. ASSUME NEW i \in 1 .. n, Real(Stream'[i]) PROVE m < Stream'[i].msg
  <2>1. L \in 1 .. Under /\ L + i \in 1 .. Under /\ L < L + i /\ Stream'[i] = Stream[L + i]
    BY <1>1, <1>2 DEF n
  <2>2. Real(Stream[L]) /\ Real(Stream[L + i])
    BY <1>1, <1>3, <1>6, <2>1 DEF Real
  <2>3. Before(Stream[L], Stream[L + i])
    BY <2>1, <2>2 DEF OrderInv, Sorted
  <2>4. Genuine(lens, Stream[L + i])
    BY <2>1, <2>2, StreamFacts DEF Real, Noise
  <2>5. Stream[L + i].msg = m => Stream[L + i].pos <= L
    BY <1>1, <1>3, <2>4 DEF Genuine
  <2>6. Stream[L + i].msg = m => Stream[L + i].pos \in Nat
    BY <1>1, <1>3, <2>4 DEF Genuine
  <2> QED BY <1>1, <2>1, <2>3, <2>5, <2>6 DEF Before
<1>7. \A e \in DOMAIN delivered : delivered[e] < m
  <2>1. Real(Stream[1]) /\ Stream[1].msg = m /\ 1 \in 1 .. Under
    BY <1>1, <1>2, <1>3 DEF Real, m
  <2> QED BY <2>1 DEF OrderInv, Behind
<1>8. CASE L <= EapSize
  <2>1. delivered \in Seq(Nat) /\ Len(delivered) \in Nat
    BY DEF TypeInv, TypeOK
  <2>2. /\ delivered' = Append(delivered, m) /\ DOMAIN delivered = 1 .. Len(delivered)
        /\ DOMAIN delivered' = 1 .. Len(delivered) + 1
        /\ delivered'[Len(delivered) + 1] = m
        /\ \A e \in 1 .. Len(delivered) : delivered'[e] = delivered[e]
    BY <1>3, <1>4, <1>8, <2>1, AppendProperties
  <2>3. Behind(Stream', n, delivered')
    <3> SUFFICES ASSUME NEW i \in 1 .. n, NEW e \in DOMAIN delivered', Real(Stream'[i])
                 PROVE  delivered'[e] < Stream'[i].msg
      BY DEF Behind
    <3>1. CASE e \in 1 .. Len(delivered)
      BY <1>5, <2>2, <3>1 DEF Behind
    <3>2. CASE e = Len(delivered) + 1
      BY <1>6, <2>2, <3>2
    <3> QED BY <2>1, <2>2, <3>1, <3>2
  <2>4. InOrderOnce'
    <3>1. ASSUME NEW i \in DOMAIN delivered'
          PROVE  delivered'[i] \in DOMAIN lens /\ lens[delivered'[i]] <= EapSize
      <4>1. CASE i \in 1 .. Len(delivered)
        BY <2>2, <4>1 DEF OrderInv, InOrderOnce
      <4>2. CASE i = Len(delivered) + 1
        BY <1>3, <1>8, <2>2, <4>2
      <4> QED BY <2>1, <2>2, <4>1, <4>2
    <3>2. ASSUME NEW i \in DOMAIN delivered', NEW j \in DOMAIN delivered', i < j
          PROVE  delivered'[i] < delivered'[j]
      <4>1. i \in 1 .. Len(delivered) /\ i \in DOMAIN delivered
        BY <2>1, <2>2, <3>2
      <4>2. CASE j \in 1 .. Len(delivered)
        BY <2>2, <3>2, <4>1, <4>2 DEF OrderInv, InOrderOnce
      <4>3. CASE j = Len(delivered) + 1
        BY <1>7, <2>2, <4>1, <4>3
      <4> QED BY <2>1, <2>2, <4>2, <4>3
    <3> QED BY <1>1, <3>1, <3>2 DEF InOrderOnce
  <2> QED BY <1>1, <1>5, <2>3, <2>4 DEF OrderInv
<1>9. CASE ~(L <= EapSize)
  BY <1>1, <1>4, <1>5, <1>9 DEF OrderInv, InOrderOnce
<1> QED BY <1>8, <1>9

LEMMA OrderStep == TypeInv /\ OrderInv /\ [Next]_vars => OrderInv'
<1> SUFFICES ASSUME TypeInv, OrderInv, [Next]_vars PROVE OrderInv'
  OBVIOUS
<1>1. ASSUME UNCHANGED <<buf, at, wire, delivered, lens>> PROVE OrderInv'
  BY <1>1 DEF OrderInv, InOrderOnce, Sorted, Behind, Stream, Under, Ahead
<1>2. ASSUME NEW s \in Sizes, SendMessage(s) PROVE OrderInv'
  BY <1>2, OrderSend
<1>3. ASSUME NEW k \in 1 .. Len(wire), Damage(k) PROVE OrderInv'
  BY <1>3, OrderDamage
<1>4. CASE Reopened
  BY <1>4, OrderReopened
<1>5. CASE TimePasses
  BY <1>1, <1>5 DEF TimePasses, link
<1>6. CASE ReceiveNothing
  BY <1>6, OrderReset DEF ReceiveNothing, Fault
<1>7. ASSUME NEW n \in 1 .. Len(wire), Receive(n) PROVE OrderInv'
  BY <1>7, OrderReceive
<1>8. CASE AwaitHead
  BY <1>8, OrderAwait DEF AwaitHead
<1>9. CASE AwaitData
  BY <1>9, OrderAwait DEF AwaitData
<1>10. CASE BadHead \/ BadData
  BY <1>10, OrderReset DEF BadHead, BadData, link
<1>11. CASE Deliver
  BY <1>11, OrderDeliver
<1>12. CASE UNCHANGED vars
  BY <1>1, <1>12 DEF vars, link
<1> QED BY <1>2, <1>3, <1>4, <1>5, <1>6, <1>7, <1>8, <1>9, <1>10, <1>11, <1>12 DEF Next, Callback

(* However the stream is cut, damaged, interrupted or taken up again after *)
(* a bad checksum, EAP is given the messages of the host in the order they *)
(* were sent and none twice, and none that is too long for it              *)
(* (c2_network_cbk_data, send_alinkmsg_to_eap).                            *)
THEOREM OrderTheorem == Spec => []InOrderOnce
<1>1. Init => OrderInv
  <2> SUFFICES ASSUME Init PROVE OrderInv
    OBVIOUS
  <2>1. Under = 0 /\ DOMAIN delivered = {}
    BY DEF Init, Under, Ahead
  <2> QED BY <2>1 DEF OrderInv, InOrderOnce, Sorted, Behind
<1>2. OrderInv => InOrderOnce
  BY DEF OrderInv
<1> QED BY <1>1, <1>2, TypeAlways, OrderStep, PTL DEF Spec
-----------------------------------------------------------------------------
(* Nothing is lost of a stream no fault has touched.                       *)

Byte(m, k) == [msg |-> m, pos |-> k, len |-> lens[m]]

\* The stream is the messages behind number f, whole and in a row: message m
\* begins behind its off[m] bytes.
Cuts(f, off) ==
    /\ off \in [f + 1 .. Len(lens) + 1 -> Nat]
    /\ off[f + 1] = 0 /\ off[Len(lens) + 1] = Under
    /\ \A m \in f + 1 .. Len(lens) : off[m + 1] = off[m] + lens[m]
    /\ \A m, n \in f + 1 .. Len(lens) + 1 : m < n => off[m] + lens[m] <= off[n]
    /\ \A m \in f + 1 .. Len(lens) : \A k \in 1 .. lens[m] : Stream[off[m] + k] = Byte(m, k)

\* The messages up to f were handed over, the others are the stream.
CleanFrom(f) ==
    /\ \A n \in clean + 1 .. f : lens[n] <= EapSize => n \in ToSet(delivered)
    /\ \E off : Cuts(f, off)

CleanInv == clean # Dirty => \E f \in clean .. Len(lens) : CleanFrom(f)

LEMMA LensFacts ==
  ASSUME TypeInv
  PROVE  /\ lens \in Seq(Sizes) /\ Len(lens) \in Nat /\ DOMAIN lens = 1 .. Len(lens)
         /\ \A m \in 1 .. Len(lens) : lens[m] \in Sizes /\ lens[m] \in Nat \ {0}
<1>1. lens \in Seq(Sizes)
  BY DEF TypeInv, TypeOK
<1>2. \A m \in 1 .. Len(lens) : lens[m] \in Sizes
  BY <1>1, ElementOfSeq
<1> QED BY <1>1, <1>2, SizeFacts

\* The first message of a stream that is not empty.
LEMMA FirstMessage ==
  ASSUME TypeInv, NEW f \in Nat, f <= Len(lens), NEW off, Cuts(f, off), Under > 0
  PROVE  /\ f + 1 \in 1 .. Len(lens)
         /\ \A k \in 1 .. lens[f + 1] : Stream[k] = Byte(f + 1, k)
<1>1. f + 1 \in 1 .. Len(lens) + 1 /\ Len(lens) \in Nat
  BY LensFacts
<1>2. off[f + 1] = 0 /\ off[Len(lens) + 1] = Under
  BY DEF Cuts
<1>3. f # Len(lens)
  BY <1>2
<1>4. f + 1 \in 1 .. Len(lens) /\ f + 1 \in f + 1 .. Len(lens)
  BY <1>1, <1>3
<1>5. ASSUME NEW k \in 1 .. lens[f + 1] PROVE Stream[k] = Byte(f + 1, k)
  <2>1. Stream[off[f + 1] + k] = Byte(f + 1, k)
    BY <1>4 DEF Cuts
  <2>2. lens[f + 1] \in Nat
    BY <1>4, LensFacts
  <2>3. 0 + k = k
    BY <2>2
  <2> QED BY <1>2, <2>1, <2>3
<1> QED BY <1>4, <1>5

\* What the loop looks at is the front of the stream.
LEMMA RestIsFront ==
  ASSUME TypeInv
  PROVE  /\ Rest \in Seq(Cell) /\ Len(Rest) = Ahead
         /\ \A k \in 1 .. Ahead : Rest[k] = Stream[k]
<1>1. /\ Rest \in Seq(Cell) /\ Len(Rest) = Len(buf) - at
      /\ \A k \in 1 .. Len(buf) - at : Rest[k] = buf[at + k]
  BY RestFacts DEF TypeInv, TypeOK, PlaceInv
<1> QED BY <1>1, StreamFacts DEF Ahead

\* No checksum of a stream without a fault is wrong.
LEMMA CutsPass ==
  ASSUME TypeInv, NEW f \in Nat, f <= Len(lens), NEW off, Cuts(f, off)
  PROVE  ~BadHead /\ ~BadData
<1>1. Ahead \in Nat /\ Under \in Nat /\ Ahead <= Under /\ HeadSize \in Nat /\ HeadSize > 0
  BY StreamFacts, SizeFacts
<1> SUFFICES ASSUME Len(Rest) >= HeadSize
             PROVE  HeadOk(Rest) /\ (Len(Rest) >= Rest[1].len => DataOk(Rest))
  BY DEF BadHead, BadData, Complete
<1>2. Ahead >= HeadSize /\ Under > 0 /\ 1 \in 1 .. Ahead
  <2>1. Ahead >= HeadSize
    BY RestIsFront
  <2> QED BY <1>1, <2>1
<1> DEFINE L == lens[f + 1]
<1>3. f + 1 \in 1 .. Len(lens) /\ \A k \in 1 .. L : Stream[k] = Byte(f + 1, k)
  BY <1>2, FirstMessage
<1>4. L \in Nat /\ HeadSize < L
  <2>1. L \in Sizes
    BY <1>3, LensFacts
  <2> QED BY <2>1, SizeFacts
<1> HIDE DEF L
<1>5. \A k \in 1 .. L : k <= Ahead => Rest[k] = [msg |-> f + 1, pos |-> k, len |-> L]
  <2>1. \A k \in 1 .. L : k <= Ahead => k \in 1 .. Ahead
    BY <1>1
  <2>2. \A k \in 1 .. L : k <= Ahead => Rest[k] = Byte(f + 1, k)
    BY <1>3, <2>1, RestIsFront
  <2> QED BY <2>2 DEF Byte, L
<1>6. Rest[1].msg = f + 1 /\ Rest[1].len = L
  <2>1. 1 \in 1 .. L /\ 1 <= Ahead
    BY <1>1, <1>2, <1>4
  <2>2. Rest[1] = [msg |-> f + 1, pos |-> 1, len |-> L]
    BY <1>5, <2>1
  <2> QED BY <2>2
<1>7. HeadOk(Rest)
  <2>1. ASSUME NEW k \in 1 .. HeadSize PROVE Rest[k].pos = k /\ Rest[k].msg = Rest[1].msg
    <3>1. k \in 1 .. L /\ k <= Ahead
      BY <1>1, <1>2, <1>4
    <3>2. Rest[k] = [msg |-> f + 1, pos |-> k, len |-> L]
      BY <1>5, <3>1
    <3> QED BY <1>6, <3>2
  <2> QED BY <2>1 DEF HeadOk
<1>8. ASSUME Len(Rest) >= L PROVE DataOk(Rest)
  <2>1. Rest \in Seq(Cell) /\ Len(Rest) = Ahead /\ L <= Ahead
    BY <1>8, RestIsFront
  <2>2. 1 \in 1 .. Len(Rest) + 1 /\ L <= Len(Rest) /\ 1 <= L + 1 /\ L - 1 + 1 = L
    BY <1>1, <1>4, <2>1
  <2>3. /\ SubSeq(Rest, 1, L) \in Seq(Cell) /\ Len(SubSeq(Rest, 1, L)) = L - 1 + 1
        /\ \A k \in 1 .. L - 1 + 1 : SubSeq(Rest, 1, L)[k] = Rest[1 + k - 1]
    BY <1>4, <2>1, <2>2, Piece
  <2>4. /\ Message(f + 1, L) \in Seq(Cell) /\ Len(Message(f + 1, L)) = L
        /\ \A k \in 1 .. L : Message(f + 1, L)[k] = [msg |-> f + 1, pos |-> k, len |-> L]
    BY <1>4, MessageFacts
  <2>5. ASSUME NEW k \in 1 .. L PROVE SubSeq(Rest, 1, L)[k] = Message(f + 1, L)[k]
    <3>1. k <= Ahead /\ 1 + k - 1 = k /\ k \in 1 .. L - 1 + 1
      BY <1>1, <1>4, <2>1
    <3>2. SubSeq(Rest, 1, L)[k] = Rest[k]
      BY <2>3, <3>1
    <3> QED BY <1>5, <2>4, <3>1, <3>2
  <2>6. SubSeq(Rest, 1, L) = Message(f + 1, L)
    BY <2>2, <2>3, <2>4, <2>5, SeqEqual
  <2> QED BY <1>6, <2>6 DEF DataOk
<1> QED BY <1>6, <1>7, <1>8

\* Bytes move from the wire to the buffer and in it: the cuts stay.
LEMMA CutsSame ==
  ASSUME TypeInv, CleanInv, Under' = Under, \A k \in 1 .. Under : Stream'[k] = Stream[k],
         UNCHANGED <<lens, delivered, clean>>
  PROVE  CleanInv'
<1> SUFFICES ASSUME clean # Dirty PROVE \E f \in clean .. Len(lens) : CleanFrom(f)'
  BY DEF CleanInv
<1>1. PICK f \in clean .. Len(lens) : CleanFrom(f)
  BY DEF CleanInv
<1>2. PICK off : Cuts(f, off)
  BY <1>1 DEF CleanFrom
<1>3. f \in Nat /\ f <= Len(lens) /\ Len(lens) \in Nat
  BY LensFacts DEF TypeInv, TypeOK
<1>4. ASSUME NEW m \in f + 1 .. Len(lens), NEW k \in 1 .. lens[m]
      PROVE  off[m] + k \in 1 .. Under /\ Stream[off[m] + k] = Byte(m, k)
  <2>1. m \in 1 .. Len(lens) /\ m \in f + 1 .. Len(lens) + 1 /\ Len(lens) + 1 \in f + 1 .. Len(lens) + 1
        /\ m < Len(lens) + 1
    BY <1>3
  <2>2. off[m] \in Nat /\ lens[m] \in Nat /\ Under \in Nat
    BY <1>2, <2>1, LensFacts, StreamFacts DEF Cuts
  <2>3. off[m] + lens[m] <= Under
    BY <1>2, <2>1 DEF Cuts
  <2> QED BY <1>2, <2>2, <2>3 DEF Cuts
<1>5. Cuts(f, off)'
  <2>1. \A m \in f + 1 .. Len(lens) : \A k \in 1 .. lens[m] : Stream'[off[m] + k] = Byte(m, k)
    BY <1>4
  <2> QED BY <1>2, <2>1 DEF Cuts, Byte
<1> QED BY <1>1, <1>5 DEF CleanFrom

\* A message is sent: its bytes are behind the others.
LEMMA CutsSend ==
  ASSUME TypeInv, NEW s \in Sizes, SendMessage(s),
         NEW f \in Nat, f <= Len(lens), NEW off, Cuts(f, off)
  PROVE  \E o : Cuts(f, o)'
<1> DEFINE N == Len(lens)
<1>0. PICK o : o = [n \in f + 1 .. N + 2 |-> IF n = N + 2 THEN Under + s ELSE off[n]]
  OBVIOUS
<1>1. /\ N \in Nat /\ s \in Nat /\ s > 0 /\ Under \in Nat
      /\ lens' = Append(lens, s) /\ Len(lens)' = N + 1 /\ lens'[N + 1] = s
      /\ \A m \in 1 .. N : lens'[m] = lens[m] /\ lens[m] \in Nat \ {0}
  <2>1. lens' = Append(lens, s) /\ lens \in Seq(Sizes)
    BY LensFacts DEF SendMessage
  <2>2. s \in Nat /\ s > 0
    BY SizeFacts
  <2>3. Under \in Nat
    BY StreamFacts
  <2> QED BY <2>1, <2>2, <2>3, LensFacts, AppendProperties
<1>2. /\ Under' = Under + s
      /\ \A k \in 1 .. Under : Stream'[k] = Stream[k]
      /\ \A k \in 1 .. s : Stream'[Under + k] = [msg |-> N + 1, pos |-> k, len |-> s]
  <2>1. /\ Under' = Under + s
        /\ \A k \in 1 .. Under + s :
             Stream'[k] = IF k <= Under THEN Stream[k] ELSE Message(N + 1, s)[k - Under]
    BY SendStream
  <2>2. \A k \in 1 .. s : Message(N + 1, s)[k] = [msg |-> N + 1, pos |-> k, len |-> s]
    <3>1. N + 1 \in Nat /\ s \in Nat
      BY <1>1
    <3> HIDE DEF N
    <3> QED BY <3>1, MessageFacts
  <2>3. ASSUME NEW k \in 1 .. Under PROVE Stream'[k] = Stream[k]
    <3>1. k \in 1 .. Under + s /\ k <= Under
      BY <1>1
    <3> QED BY <2>1, <3>1
  <2>4. ASSUME NEW k \in 1 .. s
        PROVE  Stream'[Under + k] = [msg |-> N + 1, pos |-> k, len |-> s]
    <3>1. Under + k \in 1 .. Under + s /\ ~(Under + k <= Under) /\ (Under + k) - Under = k
      BY <1>1
    <3> QED BY <2>1, <2>2, <3>1
  <2> QED BY <2>1, <2>3, <2>4
<1>3. /\ off[f + 1] = 0 /\ off[N + 1] = Under
      /\ \A n \in f + 1 .. N + 1 : off[n] \in Nat /\ off[n] <= Under
      /\ \A m \in f + 1 .. N : off[m + 1] = off[m] + lens[m] /\ off[m] + lens[m] <= Under
      /\ \A m, n \in f + 1 .. N + 1 : m < n => off[m] + lens[m] <= off[n]
      /\ \A m \in f + 1 .. N : \A k \in 1 .. lens[m] : Stream[off[m] + k] = Byte(m, k)
  <2>1. /\ off[f + 1] = 0 /\ off[N + 1] = Under
        /\ \A n \in f + 1 .. N + 1 : off[n] \in Nat
        /\ \A m \in f + 1 .. N : off[m + 1] = off[m] + lens[m]
        /\ \A m, n \in f + 1 .. N + 1 : m < n => off[m] + lens[m] <= off[n]
        /\ \A m \in f + 1 .. N : \A k \in 1 .. lens[m] : Stream[off[m] + k] = Byte(m, k)
    BY DEF Cuts
  <2>2. ASSUME NEW m \in f + 1 .. N PROVE off[m] + lens[m] <= Under
    <3>1. m \in f + 1 .. N + 1 /\ N + 1 \in f + 1 .. N + 1 /\ m < N + 1
      BY <1>1
    <3> QED BY <2>1, <3>1
  <2>3. ASSUME NEW n \in f + 1 .. N + 1 PROVE off[n] <= Under
    <3>1. CASE n = N + 1
      BY <1>1, <2>1, <3>1
    <3>2. CASE n # N + 1
      <4>1. n \in f + 1 .. N /\ n \in 1 .. N
        BY <1>1, <3>2
      <4>2. off[n] \in Nat /\ lens[n] \in Nat /\ off[n] + lens[n] <= Under
        BY <1>1, <2>1, <2>2, <4>1
      <4> QED BY <1>1, <4>2
    <3> QED BY <3>1, <3>2
  <2> QED BY <2>1, <2>2, <2>3
<1>4. /\ \A n \in f + 1 .. N + 1 : o[n] = off[n]
      /\ o[N + 2] = Under + s
      /\ o \in [f + 1 .. N + 2 -> Nat]
  <2>1. \A n \in f + 1 .. N + 1 : n \in f + 1 .. N + 2 /\ n # N + 2
    BY <1>1
  <2>2. N + 2 \in f + 1 .. N + 2 /\ Under + s \in Nat
    BY <1>1
  <2>3. \A n \in f + 1 .. N + 2 : n # N + 2 => n \in f + 1 .. N + 1
    BY <1>1
  <2> QED BY <1>0, <1>3, <2>1, <2>2, <2>3
<1>5. \A m \in f + 1 .. N + 1 : o[m + 1] = o[m] + lens'[m]
  <2>1. ASSUME NEW m \in f + 1 .. N PROVE o[m + 1] = o[m] + lens'[m]
    <3>1. m \in f + 1 .. N + 1 /\ m + 1 \in f + 1 .. N + 1 /\ m \in 1 .. N
      BY <1>1
    <3> QED BY <1>1, <1>3, <1>4, <3>1
  <2>2. o[(N + 1) + 1] = o[N + 1] + lens'[N + 1]
    <3>1. N + 1 \in f + 1 .. N + 1 /\ (N + 1) + 1 = N + 2
      BY <1>1
    <3> QED BY <1>1, <1>3, <1>4, <3>1
  <2>3. \A m \in f + 1 .. N + 1 : m \in f + 1 .. N \/ m = N + 1
    BY <1>1
  <2> QED BY <2>1, <2>2, <2>3
<1>6. \A m, n \in f + 1 .. N + 2 : m < n => o[m] + lens'[m] <= o[n]
  <2> SUFFICES ASSUME NEW m \in f + 1 .. N + 2, NEW n \in f + 1 .. N + 2, m < n
               PROVE  o[m] + lens'[m] <= o[n]
    OBVIOUS
  <2>1. CASE n # N + 2
    <3>1. m \in f + 1 .. N + 1 /\ n \in f + 1 .. N + 1 /\ m \in 1 .. N
      BY <1>1, <2>1
    <3> QED BY <1>1, <1>3, <1>4, <3>1
  <2>2. CASE n = N + 2 /\ m = N + 1
    <3>1. N + 1 \in f + 1 .. N + 1
      BY <1>1
    <3>2. o[m] = Under /\ lens'[m] = s /\ o[n] = Under + s
      BY <1>1, <1>3, <1>4, <2>2, <3>1
    <3> QED BY <1>1, <3>2
  <2>3. CASE n = N + 2 /\ m # N + 1
    <3>1. m \in f + 1 .. N /\ m \in f + 1 .. N + 1 /\ m \in 1 .. N
      BY <1>1, <2>3
    <3>2. o[m] + lens'[m] <= Under /\ o[m] \in Nat /\ lens'[m] \in Nat /\ o[n] = Under + s
      BY <1>1, <1>3, <1>4, <2>3, <3>1
    <3> QED BY <1>1, <3>2
  <2> QED BY <2>1, <2>2, <2>3
<1>7. \A m \in f + 1 .. N + 1 : \A k \in 1 .. lens'[m] :
        Stream'[o[m] + k] = [msg |-> m, pos |-> k, len |-> lens'[m]]
  <2>1. ASSUME NEW m \in f + 1 .. N, NEW k \in 1 .. lens'[m]
        PROVE  Stream'[o[m] + k] = [msg |-> m, pos |-> k, len |-> lens'[m]]
    <3>1. m \in f + 1 .. N + 1 /\ m \in 1 .. N
      BY <1>1
    <3>2. lens'[m] = lens[m] /\ lens[m] \in Nat /\ o[m] = off[m] /\ off[m] \in Nat
          /\ off[m] + lens[m] <= Under
      BY <1>1, <1>3, <1>4, <3>1
    <3>3. off[m] + k \in 1 .. Under
      BY <1>1, <3>2
    <3>4. Stream[off[m] + k] = Byte(m, k)
      BY <1>3, <3>2
    <3> QED BY <1>2, <3>2, <3>3, <3>4 DEF Byte
  <2>2. ASSUME NEW k \in 1 .. lens'[N + 1]
        PROVE  Stream'[o[N + 1] + k] = [msg |-> N + 1, pos |-> k, len |-> lens'[N + 1]]
    <3>1. N + 1 \in f + 1 .. N + 1
      BY <1>1
    <3> QED BY <1>1, <1>2, <1>3, <1>4, <3>1
  <2>3. \A m \in f + 1 .. N + 1 : m \in f + 1 .. N \/ m = N + 1
    BY <1>1
  <2> QED BY <2>1, <2>2, <2>3
<1>8. o[f + 1] = 0 /\ (N + 1) + 1 = N + 2
  <2>1. f + 1 \in f + 1 .. N + 1 /\ (N + 1) + 1 = N + 2
    BY <1>1
  <2>2. o[f + 1] = off[f + 1]
    BY <1>4, <2>1
  <2> QED BY <1>3, <2>1, <2>2
<1>9. Cuts(f, o)'
  <2>1. Len(lens') = N + 1 /\ Len(lens') + 1 = N + 2
    BY <1>1, <1>8
  <2> HIDE DEF N
  <2>2. o[Len(lens') + 1] = Under'
    BY <1>2, <1>4, <2>1
  <2>3. /\ o \in [f + 1 .. Len(lens') + 1 -> Nat] /\ o[f + 1] = 0
        /\ \A m, n \in f + 1 .. Len(lens') + 1 : m < n => o[m] + lens'[m] <= o[n]
    BY <1>4, <1>6, <1>8, <2>1
  <2>4. \A m \in f + 1 .. Len(lens') : o[m + 1] = o[m] + lens'[m]
    BY <1>5, <2>1
  <2>5. \A m \in f + 1 .. Len(lens') : \A k \in 1 .. lens'[m] : Stream'[o[m] + k] = Byte(m, k)'
    BY <1>7, <2>1 DEF Byte
  <2> QED BY <2>2, <2>3, <2>4, <2>5 DEF Cuts
<1> QED BY <1>9

\* A message is handed over: it is the next one, and the others begin that
\* much earlier.
LEMMA CutsDeliver ==
  ASSUME TypeInv, Deliver, NEW f \in Nat, f <= Len(lens), NEW off, Cuts(f, off)
  PROVE  /\ f + 1 \in 1 .. Len(lens) /\ Rest[1].msg = f + 1 /\ Rest[1].len = lens[f + 1]
         /\ \E o : Cuts(f + 1, o)'
<1>1. /\ Rest[1].len \in Nat \ {0} /\ Rest[1].len <= Ahead /\ UNCHANGED lens
      /\ Stream[1] = Rest[1] /\ Under' = Under - Rest[1].len
      /\ \A i \in 1 .. Under - Rest[1].len : Stream'[i] = Stream[Rest[1].len + i]
  BY DeliverStream
<1>2. Ahead \in Nat /\ Under \in Nat /\ Ahead <= Under
  BY StreamFacts
<1>3. f + 1 \in 1 .. Len(lens) /\ \A k \in 1 .. lens[f + 1] : Stream[k] = Byte(f + 1, k)
  <2>1. Under > 0
    BY <1>1, <1>2
  <2> QED BY <2>1, FirstMessage
<1>4. PICK N \in Nat : N = Len(lens)
  BY LensFacts
<1>5. PICK L \in Nat : L = lens[f + 1] /\ L > 0
  BY <1>3, LensFacts
<1>6. Rest[1].msg = f + 1 /\ Rest[1].len = L
  <2>1. 1 \in 1 .. lens[f + 1]
    BY <1>5
  <2>2. Rest[1] = [msg |-> f + 1, pos |-> 1, len |-> L]
    BY <1>1, <1>3, <1>5, <2>1 DEF Byte
  <2> QED BY <2>2
<1>7. /\ off[f + 1] = 0 /\ off[N + 1] = Under
      /\ \A n \in f + 1 .. N + 1 : off[n] \in Nat
      /\ \A m \in f + 1 .. N : off[m + 1] = off[m] + lens[m]
      /\ \A m, n \in f + 1 .. N + 1 : m < n => off[m] + lens[m] <= off[n]
      /\ \A m \in f + 1 .. N : \A k \in 1 .. lens[m] : Stream[off[m] + k] = Byte(m, k)
  BY <1>4 DEF Cuts
<1>8. /\ f + 1 <= N /\ f + 2 <= N + 1 /\ (f + 1) + 1 = f + 2 /\ (f + 1) + 1 \in f + 2 .. N + 1
      /\ \A n \in f + 2 .. N + 1 : n \in f + 1 .. N + 1 /\ f + 1 < n /\ n \in Nat
      /\ \A m \in f + 2 .. N : m \in 1 .. N /\ m \in f + 1 .. N /\ m \in f + 2 .. N + 1
                               /\ m + 1 \in f + 2 .. N + 1 /\ N + 1 \in f + 1 .. N + 1 /\ m < N + 1
      /\ f + 1 \in f + 1 .. N + 1 /\ f + 1 \in f + 1 .. N /\ N + 1 \in f + 2 .. N + 1
  BY <1>3, <1>4
<1>9. \A n \in f + 2 .. N + 1 : off[n] >= L /\ off[n] \in Nat
  <2>1. ASSUME NEW n \in f + 2 .. N + 1 PROVE off[n] >= L /\ off[n] \in Nat
    <3>1. off[f + 1] + lens[f + 1] <= off[n] /\ off[n] \in Nat
      BY <1>7, <1>8
    <3> QED BY <1>5, <1>7, <3>1
  <2> QED BY <2>1
<1>10. PICK o : o = [n \in f + 2 .. N + 1 |-> off[n] - L]
  OBVIOUS
<1>11. /\ o \in [f + 2 .. N + 1 -> Nat]
       /\ \A n \in f + 2 .. N + 1 : o[n] = off[n] - L
  <2>1. \A n \in f + 2 .. N + 1 : off[n] - L \in Nat
    BY <1>9
  <2> QED BY <1>10, <2>1
<1>12. o[f + 2] = 0 /\ o[N + 1] = Under - L
  <2>1. off[(f + 1) + 1] = off[f + 1] + lens[f + 1]
    BY <1>7, <1>8
  <2>2. off[f + 2] = L
    BY <1>5, <1>7, <1>8, <2>1
  <2> QED BY <1>7, <1>8, <1>11, <2>2
<1>13. \A m \in f + 2 .. N : o[m + 1] = o[m] + lens[m]
  <2>1. ASSUME NEW m \in f + 2 .. N PROVE o[m + 1] = o[m] + lens[m]
    <3>1. off[m + 1] = off[m] + lens[m] /\ o[m + 1] = off[m + 1] - L /\ o[m] = off[m] - L
      BY <1>7, <1>8, <1>11
    <3>2. off[m] \in Nat /\ lens[m] \in Nat
      BY <1>4, <1>7, <1>8, LensFacts
    <3> QED BY <3>1, <3>2
  <2> QED BY <2>1
<1>14. \A m, n \in f + 2 .. N + 1 : m < n => o[m] + lens[m] <= o[n]
  <2> SUFFICES ASSUME NEW m \in f + 2 .. N + 1, NEW n \in f + 2 .. N + 1, m < n
               PROVE  o[m] + lens[m] <= o[n]
    OBVIOUS
  <2>1. off[m] + lens[m] <= off[n] /\ o[n] = off[n] - L /\ o[m] = off[m] - L
    BY <1>7, <1>8, <1>11
  <2>2. m \in 1 .. N
    BY <1>8
  <2>3. off[m] \in Nat /\ off[n] \in Nat /\ lens[m] \in Nat
    BY <1>4, <1>9, <2>2, LensFacts
  <2> QED BY <2>1, <2>3
<1>15. \A m \in f + 2 .. N : \A k \in 1 .. lens[m] : Stream'[o[m] + k] = Byte(m, k)
  <2> SUFFICES ASSUME NEW m \in f + 2 .. N, NEW k \in 1 .. lens[m]
               PROVE  Stream'[o[m] + k] = Byte(m, k)
    OBVIOUS
  <2>1. /\ o[m] = off[m] - L /\ off[m] \in Nat /\ off[m] >= L /\ lens[m] \in Nat
        /\ off[m] + lens[m] <= Under
    <3>1. off[m] + lens[m] <= off[N + 1]
      BY <1>7, <1>8
    <3> QED BY <1>4, <1>7, <1>8, <1>9, <1>11, <3>1, LensFacts
  <2>2. o[m] + k \in 1 .. Under - L /\ L + (o[m] + k) = off[m] + k
    <3>1. ASSUME NEW a \in Nat, NEW c \in Nat, NEW u \in Nat, a >= L, a + c <= u, NEW j \in 1 .. c
          PROVE  (a - L) + j \in 1 .. u - L /\ L + ((a - L) + j) = a + j
      BY <1>5, <3>1
    <3>2. off[m] \in Nat /\ lens[m] \in Nat /\ Under \in Nat /\ off[m] >= L
          /\ off[m] + lens[m] <= Under
      BY <1>2, <2>1
    <3>3. (off[m] - L) + k \in 1 .. Under - L /\ L + ((off[m] - L) + k) = off[m] + k
      BY <3>1, <3>2
    <3> QED BY <2>1, <3>3
  <2>3. Stream'[o[m] + k] = Stream[off[m] + k]
    BY <1>1, <1>6, <2>2
  <2> QED BY <1>7, <1>8, <2>3
<1>16. Cuts(f + 1, o)'
  <2>1. lens' = lens /\ Len(lens') = N /\ Under' = Under - L
    BY <1>1, <1>4, <1>6
  <2>2. o[Len(lens') + 1] = Under' /\ o[(f + 1) + 1] = 0
    BY <1>8, <1>12, <2>1
  <2>3. /\ o \in [(f + 1) + 1 .. Len(lens') + 1 -> Nat]
        /\ \A m, n \in (f + 1) + 1 .. Len(lens') + 1 : m < n => o[m] + lens'[m] <= o[n]
    BY <1>8, <1>11, <1>14, <2>1
  <2>4. \A m \in (f + 1) + 1 .. Len(lens') : o[m + 1] = o[m] + lens'[m]
    BY <1>8, <1>13, <2>1
  <2>5. \A m \in (f + 1) + 1 .. Len(lens') : \A k \in 1 .. lens'[m] :
          Stream'[o[m] + k] = Byte(m, k)'
    BY <1>8, <1>15, <2>1 DEF Byte
  <2> QED BY <2>2, <2>3, <2>4, <2>5 DEF Cuts
<1> QED BY <1>3, <1>5, <1>6, <1>16

LEMMA CleanInit == Init => CleanInv
<1> SUFFICES ASSUME Init PROVE CleanFrom(0) /\ 0 \in clean .. Len(lens)
  BY DEF CleanInv
<1>1. clean = 0 /\ Len(lens) = 0 /\ Under = 0
  BY DEF Init, Under, Ahead
<1>2. PICK off : off = [n \in 0 + 1 .. 0 + 1 |-> 0]
  OBVIOUS
<1>3. Cuts(0, off)
  BY <1>1, <1>2 DEF Cuts
<1> QED BY <1>1, <1>3 DEF CleanFrom

\* A host that starts afresh finds nothing under way.
LEMMA CleanSend ==
  ASSUME TypeInv, CleanInv, NEW s \in Sizes, SendMessage(s)
  PROVE  CleanInv'
<1>1. /\ lens' = Append(lens, s) /\ UNCHANGED delivered
      /\ clean' = IF clean = Dirty /\ wire = <<>> /\ buf = <<>> THEN Len(lens) ELSE clean
  BY DEF SendMessage
<1>2. /\ Len(lens) \in Nat /\ Len(lens)' = Len(lens) + 1
      /\ \A m \in 1 .. Len(lens) : lens'[m] = lens[m]
  BY <1>1, LensFacts, AppendProperties
<1>3. CASE clean = Dirty /\ wire = <<>> /\ buf = <<>>
  <2>1. Under = 0
    BY <1>3 DEF Under, Ahead, TypeInv, TypeOK, PlaceInv
  <2>2. PICK f \in Nat : f = Len(lens)
    BY <1>2
  <2>3. PICK off : off = [n \in f + 1 .. f + 1 |-> 0]
    OBVIOUS
  <2>4. Cuts(f, off)
    <3>1. f + 1 \in f + 1 .. f + 1 /\ f + 1 .. f = {} /\ \A n \in f + 1 .. f + 1 : n = f + 1
      OBVIOUS
    <3> QED BY <2>1, <2>2, <2>3, <3>1 DEF Cuts
  <2>5. \E o : Cuts(f, o)'
    BY <2>2, <2>4, CutsSend
  <2>6. f \in clean' .. Len(lens') /\ clean' + 1 .. f = {}
    BY <1>1, <1>2, <1>3, <2>2
  <2> QED BY <2>5, <2>6 DEF CleanInv, CleanFrom
<1>4. CASE ~(clean = Dirty /\ wire = <<>> /\ buf = <<>>)
  <2> SUFFICES ASSUME clean # Dirty PROVE \E f \in clean .. Len(lens') : CleanFrom(f)'
    BY <1>1, <1>4 DEF CleanInv
  <2>1. clean' = clean /\ clean \in Nat
    BY <1>1, <1>4 DEF TypeInv, TypeOK
  <2>2. PICK f \in clean .. Len(lens) : CleanFrom(f)
    BY DEF CleanInv
  <2>3. f \in Nat /\ f <= Len(lens) /\ f \in clean .. Len(lens')
    BY <1>2, <2>1
  <2>4. \E o : Cuts(f, o)'
    BY <2>2, <2>3, CutsSend DEF CleanFrom
  <2>5. \A n \in clean + 1 .. f : lens'[n] <= EapSize => n \in ToSet(delivered)
    <3>1. \A n \in clean + 1 .. f : n \in 1 .. Len(lens)
      BY <1>2, <2>1, <2>3
    <3> QED BY <1>2, <2>2, <3>1 DEF CleanFrom
  <2>6. CleanFrom(f)'
    BY <1>1, <2>1, <2>4, <2>5 DEF CleanFrom, ToSet
  <2> QED BY <2>3, <2>6
<1> QED BY <1>3, <1>4

LEMMA CleanDeliver ==
  ASSUME TypeInv, CleanInv, Deliver
  PROVE  CleanInv'
<1>1. UNCHANGED <<lens, clean>>
  BY DEF Deliver, link
<1> SUFFICES ASSUME clean # Dirty PROVE \E f \in clean .. Len(lens) : CleanFrom(f)'
  BY <1>1 DEF CleanInv
<1>2. clean \in Nat /\ Len(lens) \in Nat
  BY LensFacts DEF TypeInv, TypeOK
<1>3. PICK f \in clean .. Len(lens) : CleanFrom(f)
  BY DEF CleanInv
<1>4. f \in Nat /\ f <= Len(lens)
  BY <1>2
<1>5. /\ f + 1 \in 1 .. Len(lens) /\ Rest[1].msg = f + 1 /\ Rest[1].len = lens[f + 1]
      /\ \E o : Cuts(f + 1, o)'
  <2>1. PICK off : Cuts(f, off)
    BY <1>3 DEF CleanFrom
  <2> QED BY <1>4, <2>1, CutsDeliver
<1>6. delivered' = IF lens[f + 1] <= EapSize THEN Append(delivered, f + 1) ELSE delivered
  BY <1>5 DEF Deliver
<1>7. /\ ToSet(delivered) \subseteq ToSet(delivered')
      /\ lens[f + 1] <= EapSize => f + 1 \in ToSet(delivered')
  <2>1. delivered \in Seq(Nat) /\ f + 1 \in Nat
    BY <1>4 DEF TypeInv, TypeOK
  <2>2. CASE lens[f + 1] <= EapSize
    <3>1. /\ delivered' = Append(delivered, f + 1)
          /\ DOMAIN delivered = 1 .. Len(delivered) /\ Len(delivered) \in Nat
          /\ DOMAIN delivered' = 1 .. Len(delivered) + 1
          /\ delivered'[Len(delivered) + 1] = f + 1
          /\ \A e \in 1 .. Len(delivered) : delivered'[e] = delivered[e]
      BY <1>6, <2>1, <2>2, AppendProperties
    <3>2. DOMAIN delivered \subseteq DOMAIN delivered' /\ Len(delivered) + 1 \in DOMAIN delivered'
      BY <3>1
    <3> QED BY <3>1, <3>2 DEF ToSet
  <2>3. CASE ~(lens[f + 1] <= EapSize)
    BY <1>6, <2>3
  <2> QED BY <2>2, <2>3
<1>8. \A n \in clean + 1 .. f + 1 : lens[n] <= EapSize => n \in ToSet(delivered')
  <2>1. \A n \in clean + 1 .. f + 1 : n \in clean + 1 .. f \/ n = f + 1
    BY <1>2, <1>4
  <2> QED BY <1>3, <1>7, <2>1 DEF CleanFrom
<1>9. CleanFrom(f + 1)'
  BY <1>1, <1>5, <1>8 DEF CleanFrom, ToSet
<1>10. f + 1 \in clean .. Len(lens)
  BY <1>2, <1>4, <1>5
<1> QED BY <1>9, <1>10

LEMMA CleanStep == TypeInv /\ CleanInv /\ [Next]_vars => CleanInv'
<1> SUFFICES ASSUME TypeInv, CleanInv, [Next]_vars PROVE CleanInv'
  OBVIOUS
<1>1. ASSUME UNCHANGED <<buf, at, wire, delivered, lens, clean>> PROVE CleanInv'
  BY <1>1, CutsSame DEF Stream, Under, Ahead
<1>2. ASSUME Fault PROVE CleanInv'
  BY <1>2 DEF Fault, CleanInv
<1>3. ASSUME BadHead \/ BadData PROVE CleanInv'
  <2>1. UNCHANGED <<clean, lens>>
    BY <1>3 DEF BadHead, BadData, link
  <2>2. CASE clean = Dirty
    BY <2>1, <2>2 DEF CleanInv
  <2>3. CASE clean # Dirty
    <3>1. PICK f \in clean .. Len(lens) : CleanFrom(f)
      BY <2>3 DEF CleanInv
    <3>2. f \in Nat /\ f <= Len(lens)
      BY <2>3, LensFacts DEF TypeInv, TypeOK
    <3>3. PICK off : Cuts(f, off)
      BY <3>1 DEF CleanFrom
    <3> QED BY <1>3, <3>2, <3>3, CutsPass
  <2> QED BY <2>2, <2>3
<1>4. ASSUME NEW s \in Sizes, SendMessage(s) PROVE CleanInv'
  BY <1>4, CleanSend
<1>5. CASE Reopened \/ ReceiveNothing \/ \E k \in 1 .. Len(wire) : Damage(k)
  BY <1>2, <1>5 DEF Reopened, ReceiveNothing, Damage
<1>6. CASE TimePasses
  BY <1>1, <1>6 DEF TimePasses, link
<1>7. ASSUME NEW n \in 1 .. Len(wire), Receive(n) PROVE CleanInv'
  BY <1>7, ReceiveStream, CutsSame
<1>8. ASSUME NEW need, Await(need) PROVE CleanInv'
  BY <1>8, AwaitStream, CutsSame
<1>9. CASE AwaitHead \/ AwaitData
  BY <1>8, <1>9 DEF AwaitHead, AwaitData
<1>10. CASE Deliver
  BY <1>10, CleanDeliver
<1>11. CASE UNCHANGED vars
  BY <1>1, <1>11 DEF vars, link
<1> QED BY <1>3, <1>4, <1>5, <1>6, <1>7, <1>9, <1>10, <1>11 DEF Next, Callback

\* The bytes of a message that is not handed over yet are in the stream, and
\* so in the buffer behind the loop or on the wire.
LEMMA CleanUnderWay == TypeInv /\ CleanInv => CleanLosesNothing
<1> SUFFICES ASSUME TypeInv, CleanInv, clean # Dirty,
                    NEW n \in clean + 1 .. Len(lens), lens[n] <= EapSize,
                    n \notin ToSet(delivered)
             PROVE  ToSet(Message(n, lens[n])) \subseteq UnderWay
  BY DEF CleanLosesNothing
<1>1. clean \in Nat /\ Len(lens) \in Nat
  BY LensFacts DEF TypeInv, TypeOK
<1>2. PICK f \in clean .. Len(lens) : CleanFrom(f)
  BY DEF CleanInv
<1>3. PICK off : Cuts(f, off)
  BY <1>2 DEF CleanFrom
<1>4. n \in f + 1 .. Len(lens) /\ n \in 1 .. Len(lens)
  <2>1. n \notin clean + 1 .. f
    BY <1>2 DEF CleanFrom
  <2> QED BY <1>1, <2>1
<1>5. n \in Nat /\ lens[n] \in Nat
  BY <1>1, <1>4, LensFacts
<1>6. off[n] \in Nat /\ off[n] + lens[n] <= Under
  <2>1. n \in f + 1 .. Len(lens) + 1 /\ Len(lens) + 1 \in f + 1 .. Len(lens) + 1
        /\ n < Len(lens) + 1
    BY <1>1, <1>4
  <2> QED BY <1>3, <2>1 DEF Cuts
<1>7. ASSUME NEW k \in 1 .. lens[n] PROVE Message(n, lens[n])[k] \in UnderWay
  <2>1. Message(n, lens[n])[k] = Byte(n, k)
    BY <1>5, MessageFacts DEF Byte
  <2>2. Stream[off[n] + k] = Byte(n, k)
    BY <1>3, <1>4 DEF Cuts
  <2>3. off[n] + k \in 1 .. Under /\ Ahead \in Nat /\ Len(wire) = Under - Ahead /\ Under \in Nat
    <3>1. Ahead \in Nat /\ Len(wire) = Under - Ahead /\ Under \in Nat
      BY StreamFacts
    <3>2. off[n] + k \in 1 .. Under
      BY <1>5, <1>6, <3>1
    <3> QED BY <3>1, <3>2
  <2>4. CASE off[n] + k <= Ahead
    <3>1. off[n] + k \in 1 .. Ahead
      BY <2>3, <2>4
    <3>2. Rest[off[n] + k] = Byte(n, k) /\ DOMAIN Rest = 1 .. Ahead
      BY <2>2, <3>1, RestIsFront, LenProperties
    <3> QED BY <2>1, <3>1, <3>2 DEF UnderWay, ToSet
  <2>5. CASE ~(off[n] + k <= Ahead)
    <3>1. /\ (off[n] + k) - Ahead \in 1 .. Len(wire)
          /\ Ahead + ((off[n] + k) - Ahead) = off[n] + k
      BY <1>5, <1>6, <2>3, <2>5
    <3>2. wire[(off[n] + k) - Ahead] = Byte(n, k)
      BY <2>2, <3>1, StreamFacts
    <3>3. DOMAIN wire = 1 .. Len(wire)
      BY DEF TypeInv, TypeOK
    <3> QED BY <2>1, <3>1, <3>2, <3>3 DEF UnderWay, ToSet
  <2> QED BY <2>4, <2>5
<1>8. DOMAIN Message(n, lens[n]) = 1 .. lens[n]
  BY <1>5 DEF Message
<1> QED BY <1>7, <1>8 DEF ToSet

(* However the reads cut the stream and however long the host pauses in    *)
(* the middle of a message, no message that no fault has touched is lost:  *)
(* the stream behind what was taken is whole messages in a row, so that no *)
(* checksum fails and no byte is dropped (c2_network_cbk_data).            *)
THEOREM CleanTheorem == Spec => []CleanLosesNothing
BY CleanInit, CleanStep, CleanUnderWay, TypeAlways, PTL DEF Spec
=============================================================================
