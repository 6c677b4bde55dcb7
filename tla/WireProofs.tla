------------------------------ MODULE WireProofs ------------------------------
(***************************************************************************)
(* Proofs about Wire.tla, for any padding, any limit and any verdicts: the *)
(* line that a client parses is the line that was written for it, the      *)
(* connection behaves as RemoteGuard.tla has it, and a verdict other than  *)
(* a deny is in the database.                                              *)
(***************************************************************************)
EXTENDS Wire, SequenceTheorems, TLAPS

(* What can stand in a line, or in what is left of it.                     *)
Byte == Verdict \cup {"request", "x", "hi", "lo", "end", "newline", "?"}

WireTypeOK ==
  /\ client \in {"js", "py"}
  /\ pc \in {"idle", "connecting", "waiting", "resolved"}
  /\ verdict \in Verdict \cup {"raised"}
  /\ handler \in {"none", "reading", "closed"}
  /\ ended \in BOOLEAN /\ closed \in BOOLEAN
  /\ line \in Seq(Byte) /\ buffer \in Seq(Byte) /\ reply \in Seq(Byte)
  /\ up \in Seq(Byte) /\ inbox \in Seq(Byte) /\ down \in Seq(Byte)

(* a and then b are how text begins.                                       *)
Begins(text, a, b) ==
  /\ Len(a) + Len(b) <= Len(text)
  /\ \A i \in 1 .. Len(a) : a[i] = text[i]
  /\ \A i \in 1 .. Len(b) : b[i] = text[Len(a) + i]

(* a is what b has become on its way to the client.                        *)
Same(a, b) == a = b \/ (client = "js" /\ a = "?" /\ b \in {"hi", "lo"})

(* Where the two ends are.                                                 *)
EndsInv ==
  /\ pc \in {"idle", "connecting"} => handler = "none"
  /\ pc = "waiting" => handler # "none"
  /\ handler = "none" => inbox = <<>> /\ up = <<>> /\ reply = <<>>
  /\ closed <=> handler = "closed"

RequestInv ==
  /\ Len(inbox) + Len(up) > 0 => \E n \in Padding : Begins(Text("request", n), inbox, up)
  /\ reply # <<>> => inbox = <<>> /\ up = <<>>

AnswerInv ==
  /\ reply # <<>> => \E v \in Verdict, n \in Padding : reply = Text(v, n)
  /\ reply = <<>> => down = <<>> /\ buffer = <<>> /\ line = <<>>
  /\ pc = "waiting" =>
       /\ line = <<>>
       /\ Len(buffer) + Len(down) <= Len(reply)
       /\ \A i \in 1 .. Len(buffer) : Same(buffer[i], reply[i]) /\ buffer[i] # "newline"
       /\ \A i \in 1 .. Len(down) : down[i] = reply[Len(buffer) + i]
  /\ LineIntactUnlessSplit

-----------------------------------------------------------------------------
(* LINES                                                                   *)

(* What First and Rest leave of a sequence.                                *)
LEMMA Cut ==
  ASSUME NEW S, NEW s \in Seq(S), NEW n \in 0 .. Len(s)
  PROVE  /\ First(s, n) \in Seq(S) /\ Rest(s, n) \in Seq(S)
         /\ Len(First(s, n)) = n /\ Len(Rest(s, n)) = Len(s) - n
         /\ \A i \in 1 .. n : First(s, n)[i] = s[i]
         /\ \A i \in 1 .. Len(s) - n : Rest(s, n)[i] = s[n + i]
<1>1. Len(s) \in Nat /\ \A i \in 1 .. Len(s) : s[i] \in S
  BY LenProperties, ElementOfSeq
<1>2. n \in Int /\ n + 1 \in Int /\ Len(s) \in Int /\ 0 <= n /\ n <= Len(s)
  BY <1>1
<1>3. /\ First(s, n) \in Seq(S) /\ Len(First(s, n)) = IF 1 <= n THEN n - 1 + 1 ELSE 0
      /\ \A i \in 1 .. n - 1 + 1 : First(s, n)[i] = s[1 + i - 1]
  <2>1. \A i \in 1 .. n : s[i] \in S
    BY <1>1, <1>2
  <2> QED BY <1>2, <2>1, SubSeqProperties DEF First
<1>4. /\ Rest(s, n) \in Seq(S)
      /\ Len(Rest(s, n)) = IF n + 1 <= Len(s) THEN Len(s) - (n + 1) + 1 ELSE 0
      /\ \A i \in 1 .. Len(s) - (n + 1) + 1 : Rest(s, n)[i] = s[n + 1 + i - 1]
  <2>1. \A i \in n + 1 .. Len(s) : s[i] \in S
    BY <1>1, <1>2
  <2> QED BY <1>2, <2>1, SubSeqProperties DEF Rest
<1>5. \A i \in 1 .. n : First(s, n)[i] = s[i]
  BY <1>2, <1>3
<1>6. \A i \in 1 .. Len(s) - n : Rest(s, n)[i] = s[n + i]
  <2>1. \A i \in 1 .. Len(s) - n : i \in 1 .. Len(s) - (n + 1) + 1 /\ n + 1 + i - 1 = n + i
    BY <1>2
  <2> QED BY <1>4, <2>1
<1> QED BY <1>2, <1>3, <1>4, <1>5, <1>6

(* A sequence that has no newline but at its end is one line.              *)
LEMMA OneLine ==
  ASSUME NEW S, NEW s \in Seq(S),
         \A i \in 1 .. Len(s) : s[i] = "newline" => i = Len(s)
  PROVE  /\ LineLength(s) = Len(s)
         /\ First(s, LineLength(s)) = s
         /\ Rest(s, LineLength(s)) = <<>>
<1>1. Len(s) \in Nat /\ DOMAIN s = 1 .. Len(s)
  BY LenProperties
<1>2. LineLength(s) = Len(s)
  <2>1. CASE ~Has(s, "newline")
    BY <2>1 DEF LineLength
  <2>2. CASE Has(s, "newline")
    <3>1. Len(s) \in DOMAIN s /\ s[Len(s)] = "newline"
      BY <1>1, <2>2 DEF Has
    <3>2. ~Has(First(s, Len(s) - 1), "newline")
      <4> DEFINE n == Len(s) - 1
      <4>1. n \in 0 .. Len(s) /\ n < Len(s) /\ \A i \in 1 .. n : i \in 1 .. Len(s) /\ i # Len(s)
        <5>1. Len(s) \in Nat /\ Len(s) \in 1 .. Len(s)
          BY <1>1, <3>1
        <5> QED BY <5>1
      <4> HIDE DEF n
      <4>2. /\ First(s, n) \in Seq(S) /\ Len(First(s, n)) = n
            /\ \A i \in 1 .. n : First(s, n)[i] = s[i]
        BY <4>1, Cut
      <4>3. DOMAIN First(s, n) = 1 .. n
        BY <4>2, LenProperties
      <4>4. ~Has(First(s, n), "newline")
        BY <4>1, <4>2, <4>3 DEF Has
      <4> QED BY <4>4 DEF n
    <3>3. \A i \in DOMAIN s : s[i] = "newline" => i = Len(s)
      BY <1>1
    <3> QED BY <2>2, <3>1, <3>2, <3>3 DEF LineLength
  <2> QED BY <2>1, <2>2
<1>3. SubSeq(s, 1, Len(s)) = s
  BY SubSeqFull
<1>4. SubSeq(s, Len(s) + 1, Len(s)) = <<>>
  <2>1. \A n \in Nat : n + 1 \in Int /\ n \in Int /\ n < n + 1
    OBVIOUS
  <2>2. Len(s) + 1 \in Int /\ Len(s) \in Int /\ Len(s) < Len(s) + 1
    BY <1>1, <2>1
  <2> QED BY <2>2, SubSeqEmpty
<1> QED BY <1>2, <1>3, <1>4 DEF First, Rest

(* Where the parts of a line are.                                          *)
LEMMA TextShape ==
  ASSUME NEW head \in Verdict \cup {"request"}, NEW n \in Nat
  PROVE  /\ Text(head, n) \in Seq(Byte)
         /\ Len(Text(head, n)) = n + 5
         /\ Text(head, n)[1] = head
         /\ \A i \in 1 .. n + 5 : Text(head, n)[i] = "newline" <=> i = n + 5
         /\ \A i \in 1 .. n + 5 : Text(head, n)[i] = "end" <=> i = n + 4
<1> DEFINE pad == [i \in 1 .. n |-> "x"]
           tail == <<"hi", "lo", "end", "newline">>
           start == <<head>> \o pad
<1>1. /\ pad \in Seq(Byte) /\ Len(pad) = n /\ \A i \in 1 .. n : pad[i] = "x"
  <2>1. pad \in [1 .. n -> Byte]
    BY DEF Byte
  <2>2. pad \in Seq(Byte)
    BY <2>1, SeqDef
  <2>3. Len(pad) \in Nat /\ DOMAIN pad = 1 .. Len(pad)
    BY <2>2, LenProperties
  <2> QED BY <2>2, <2>3
<1>2. /\ <<head>> \in Seq(Byte) /\ Len(<<head>>) = 1 /\ <<head>>[1] = head
  BY DEF Byte
<1>3. /\ tail \in Seq(Byte) /\ Len(tail) = 4
      /\ tail[1] = "hi" /\ tail[2] = "lo" /\ tail[3] = "end" /\ tail[4] = "newline"
  BY DEF Byte
<1> HIDE DEF pad, tail
<1>4. /\ start \in Seq(Byte) /\ Len(start) = n + 1
      /\ \A i \in 1 .. n + 1 : start[i] = IF i <= 1 THEN <<head>>[i] ELSE pad[i - 1]
  <2>1. /\ start \in Seq(Byte) /\ Len(start) = 1 + n
        /\ \A i \in 1 .. 1 + n : start[i] = IF i <= 1 THEN <<head>>[i] ELSE pad[i - 1]
    BY <1>1, <1>2, ConcatProperties
  <2> QED BY <2>1
<1>5. start[1] = head /\ \A i \in 2 .. n + 1 : start[i] = "x"
  <2>1. start[1] = head
    BY <1>2, <1>4
  <2>2. \A i \in 2 .. n + 1 : i \in 1 .. n + 1 /\ ~(i <= 1) /\ i - 1 \in 1 .. n
    OBVIOUS
  <2> QED BY <1>1, <1>4, <2>1, <2>2
<1> HIDE DEF start
<1>6. /\ start \o tail \in Seq(Byte) /\ Len(start \o tail) = n + 5
      /\ \A i \in 1 .. n + 5 :
           (start \o tail)[i] = IF i <= n + 1 THEN start[i] ELSE tail[i - (n + 1)]
  <2>1. /\ start \o tail \in Seq(Byte) /\ Len(start \o tail) = (n + 1) + 4
        /\ \A i \in 1 .. (n + 1) + 4 :
             (start \o tail)[i] = IF i <= n + 1 THEN start[i] ELSE tail[i - (n + 1)]
    <3>1. start \in Seq(Byte) /\ tail \in Seq(Byte) /\ Len(start) = n + 1 /\ Len(tail) = 4
      BY <1>3, <1>4
    <3>2. /\ start \o tail \in Seq(Byte) /\ Len(start \o tail) = Len(start) + Len(tail)
          /\ \A i \in 1 .. Len(start) + Len(tail) :
               (start \o tail)[i] = IF i <= Len(start) THEN start[i] ELSE tail[i - Len(start)]
      BY <3>1, ConcatProperties
    <3> QED BY <3>1, <3>2
  <2>2. (n + 1) + 4 = n + 5
    OBVIOUS
  <2> QED BY <2>1, <2>2
<1>7. Text(head, n) = start \o tail
  BY DEF Text, start, pad, tail
<1> DEFINE t == start \o tail
<1>8. /\ t[1] = head /\ \A i \in 2 .. n + 1 : t[i] = "x"
      /\ t[n + 2] = "hi" /\ t[n + 3] = "lo" /\ t[n + 4] = "end" /\ t[n + 5] = "newline"
  <2>1. t[1] = head
    BY <1>5, <1>6
  <2>2. \A i \in 2 .. n + 1 : i \in 1 .. n + 5 /\ i <= n + 1
    OBVIOUS
  <2>3. \A i \in 2 .. n + 1 : t[i] = "x"
    BY <1>5, <1>6, <2>2
  <2>4. \A k \in 1 .. 4 : n + 1 + k \in 1 .. n + 5 /\ ~(n + 1 + k <= n + 1) /\ n + 1 + k - (n + 1) = k
    OBVIOUS
  <2>5. \A k \in 1 .. 4 : t[n + 1 + k] = tail[k]
    BY <1>6, <2>4
  <2>6. n + 1 + 1 = n + 2 /\ n + 1 + 2 = n + 3 /\ n + 1 + 3 = n + 4 /\ n + 1 + 4 = n + 5
    OBVIOUS
  <2>7. t[n + 1 + 1] = tail[1] /\ t[n + 1 + 2] = tail[2] /\ t[n + 1 + 3] = tail[3]
        /\ t[n + 1 + 4] = tail[4]
    <3>1. 1 \in 1 .. 4 /\ 2 \in 1 .. 4 /\ 3 \in 1 .. 4 /\ 4 \in 1 .. 4
      OBVIOUS
    <3> HIDE DEF t
    <3> QED BY <2>5, <3>1
  <2> QED BY <1>3, <2>1, <2>3, <2>6, <2>7
<1> HIDE DEF t
<1>9. head # "newline" /\ head # "end"
  BY HeadAssumption
<1>10. ASSUME NEW i \in 1 .. n + 5
       PROVE (t[i] = "newline" <=> i = n + 5) /\ (t[i] = "end" <=> i = n + 4)
  <2>1. i = 1 \/ i \in 2 .. n + 1 \/ i = n + 2 \/ i = n + 3 \/ i = n + 4 \/ i = n + 5
    OBVIOUS
  <2>2. CASE i = 1
    BY <1>8, <1>9, <2>2
  <2>3. CASE i \in 2 .. n + 1
    BY <1>8, <2>3
  <2> QED BY <1>8, <2>1, <2>2, <2>3
<1> QED BY <1>6, <1>7, <1>8, <1>10 DEF t

(* What toString() makes of a chunk has its length, and differs from it    *)
(* only where a character of two bytes was cut.                            *)
LEMMA Decoding ==
  ASSUME NEW s \in Seq(Byte)
  PROVE  /\ Decoded(s) \in Seq(Byte) /\ Len(Decoded(s)) = Len(s)
         /\ \A i \in 1 .. Len(s) : Same(Decoded(s)[i], s[i])
<1>1. Len(s) \in Nat /\ DOMAIN s = 1 .. Len(s) /\ \A i \in 1 .. Len(s) : s[i] \in Byte
  BY LenProperties, ElementOfSeq
<1>2. /\ DOMAIN Decoded(s) = 1 .. Len(s)
      /\ Decoded(s) = [i \in 1 .. Len(s) |-> Decoded(s)[i]]
      /\ \A i \in 1 .. Len(s) : Decoded(s)[i] = s[i] \/ (/\ client = "js" /\ Decoded(s)[i] = "?"
                                                         /\ s[i] \in {"hi", "lo"})
  BY <1>1 DEF Decoded
<1>3. \A i \in 1 .. Len(s) : Decoded(s)[i] \in Byte
  BY <1>1, <1>2 DEF Byte
<1>4. Decoded(s) \in [1 .. Len(s) -> Byte]
  BY <1>2, <1>3
<1>5. Decoded(s) \in Seq(Byte)
  BY <1>1, <1>4, SeqDef
<1>6. Len(Decoded(s)) \in Nat /\ DOMAIN Decoded(s) = 1 .. Len(Decoded(s))
  BY <1>5, LenProperties
<1>7. Len(Decoded(s)) = Len(s)
  BY <1>1, <1>2, <1>6
<1> QED BY <1>2, <1>5, <1>7 DEF Same

-----------------------------------------------------------------------------
(* THE INVARIANT                                                           *)

WireInv == WireTypeOK /\ EndsInv /\ RequestInv /\ AnswerInv

(* The lengths of what is under way are numbers, and only <<>> has none.   *)
LEMMA Lengths ==
  ASSUME WireTypeOK
  PROVE  \A s \in {up, inbox, down, buffer, reply, line} :
           /\ Len(s) \in Nat /\ DOMAIN s = 1 .. Len(s)
           /\ s = <<>> <=> Len(s) = 0
           /\ \A i \in 1 .. Len(s) : s[i] \in Byte
<1>1. ASSUME NEW s \in Seq(Byte)
      PROVE  /\ Len(s) \in Nat /\ DOMAIN s = 1 .. Len(s)
             /\ s = <<>> <=> Len(s) = 0
             /\ \A i \in 1 .. Len(s) : s[i] \in Byte
  BY LenProperties, EmptySeq, ElementOfSeq
<1> QED BY <1>1 DEF WireTypeOK

(* What readline() takes is the request, or what there will ever be of it. *)
LEMMA RequestLine ==
  ASSUME WireInv, inbox # <<>>, Has(inbox, "newline") \/ up = <<>>
  PROVE  /\ up = <<>>
         /\ First(inbox, LineLength(inbox)) = inbox
         /\ Rest(inbox, LineLength(inbox)) = <<>>
         /\ inbox[1] = "request"
         /\ reply = <<>>
<1>1. /\ Len(inbox) \in Nat /\ Len(up) \in Nat /\ DOMAIN inbox = 1 .. Len(inbox)
      /\ Len(inbox) # 0 /\ (up = <<>> <=> Len(up) = 0)
  BY Lengths DEF WireInv
<1>2. PICK n \in Padding : Begins(Text("request", n), inbox, up)
  BY <1>1 DEF WireInv, RequestInv
<1> DEFINE t == Text("request", n)
<1>3. /\ Len(t) = n + 5 /\ n \in Nat /\ t[1] = "request"
      /\ \A i \in 1 .. n + 5 : t[i] = "newline" <=> i = n + 5
  BY TextShape, SizeAssumption
<1>4. /\ Len(inbox) + Len(up) <= n + 5
      /\ \A i \in 1 .. Len(inbox) : inbox[i] = t[i]
  BY <1>2, <1>3 DEF Begins
<1> HIDE DEF t
<1>5. \A i \in 1 .. Len(inbox) : inbox[i] = "newline" => i = n + 5 /\ i = Len(inbox) /\ Len(up) = 0
  <2>1. \A i \in 1 .. Len(inbox) : i \in 1 .. n + 5 /\ i <= Len(inbox)
    BY <1>1, <1>3, <1>4
  <2>2. \A i \in 1 .. Len(inbox) : inbox[i] = "newline" => i = n + 5
    BY <1>3, <1>4, <2>1
  <2>3. \A i \in 1 .. Len(inbox) : i = n + 5 => i = Len(inbox) /\ Len(up) = 0
    <3>1. Len(inbox) \in Nat /\ Len(up) \in Nat /\ n \in Nat /\ Len(inbox) + Len(up) <= n + 5
      BY <1>1, <1>3, <1>4
    <3>2. \A a, b, m \in Nat : \A i \in 1 .. a : (a + b <= m + 5 /\ i = m + 5) => i = a /\ b = 0
      OBVIOUS
    <3> QED BY <3>1, <3>2
  <2> QED BY <2>2, <2>3
<1>6. Len(up) = 0
  BY <1>1, <1>5 DEF Has
<1>7. inbox \in Seq(Byte) /\ \A i \in 1 .. Len(inbox) : inbox[i] = "newline" => i = Len(inbox)
  BY <1>5 DEF WireInv, WireTypeOK
<1>8. inbox[1] = "request"
  <2>1. 1 \in 1 .. Len(inbox)
    BY <1>1
  <2> QED BY <1>3, <1>4, <2>1
<1>9. reply = <<>>
  BY DEF WireInv, RequestInv
<1> QED BY <1>1, <1>6, <1>7, <1>8, <1>9, OneLine

(* What verify() has received with one more chunk: it is how the answer    *)
(* begins, and it is all of the answer if there is a newline in it.        *)
LEMMA AnswerSoFar ==
  ASSUME WireInv, pc = "waiting", NEW n \in 1 .. Len(down),
         NEW text, text = buffer \o Decoded(First(down, n))
  PROVE  /\ text \in Seq(Byte) /\ reply # <<>> /\ reply[1] \in Verdict
         /\ Len(text) = Len(buffer) + n /\ Len(text) <= Len(reply)
         /\ \A i \in 1 .. Len(text) : Same(text[i], reply[i])
         /\ \A i \in 1 .. Len(down) - n : Rest(down, n)[i] = reply[Len(text) + i]
         /\ text[1] = reply[1]
         /\ Has(text, "newline") => /\ Len(text) = Len(reply)
                                    /\ First(text, LineLength(text)) = text
<1>1. /\ down \in Seq(Byte) /\ buffer \in Seq(Byte)
      /\ Len(down) \in Nat /\ Len(buffer) \in Nat /\ Len(reply) \in Nat
      /\ n \in 0 .. Len(down) /\ n \in Nat /\ 1 <= n /\ n <= Len(down)
  BY Lengths DEF WireInv, WireTypeOK
<1>2. down # <<>>
  BY <1>1, EmptySeq
<1>3. reply # <<>>
  BY <1>2 DEF WireInv, AnswerInv
<1>4. PICK v \in Verdict, p \in Padding : reply = Text(v, p)
  BY <1>3 DEF WireInv, AnswerInv
<1>5. /\ p \in Nat /\ Len(reply) = p + 5 /\ reply[1] = v
      /\ \A i \in 1 .. p + 5 : reply[i] = "newline" <=> i = p + 5
  <2>1. p \in Nat /\ v \in Verdict \cup {"request"}
    BY SizeAssumption
  <2>2. /\ Len(Text(v, p)) = p + 5 /\ Text(v, p)[1] = v
        /\ \A i \in 1 .. p + 5 : Text(v, p)[i] = "newline" <=> i = p + 5
    BY <2>1, TextShape
  <2> QED BY <1>4, <2>1, <2>2
<1>6. /\ Len(buffer) + Len(down) <= Len(reply)
      /\ \A i \in 1 .. Len(buffer) : Same(buffer[i], reply[i]) /\ buffer[i] # "newline"
      /\ \A i \in 1 .. Len(down) : down[i] = reply[Len(buffer) + i]
  BY DEF WireInv, AnswerInv
<1> DEFINE chunk == Decoded(First(down, n))
<1>7. /\ First(down, n) \in Seq(Byte) /\ Len(First(down, n)) = n
      /\ \A i \in 1 .. n : First(down, n)[i] = down[i]
      /\ \A i \in 1 .. Len(down) - n : Rest(down, n)[i] = down[n + i]
  BY <1>1, Cut
<1>8. /\ chunk \in Seq(Byte) /\ Len(chunk) = n
      /\ \A i \in 1 .. n : Same(chunk[i], First(down, n)[i])
  BY <1>7, Decoding
<1> HIDE DEF chunk
<1>9. /\ text \in Seq(Byte) /\ Len(text) = Len(buffer) + n
      /\ \A i \in 1 .. Len(buffer) + n :
           text[i] = IF i <= Len(buffer) THEN buffer[i] ELSE chunk[i - Len(buffer)]
  <2>1. /\ buffer \o chunk \in Seq(Byte)
        /\ Len(buffer \o chunk) = Len(buffer) + Len(chunk)
        /\ \A i \in 1 .. Len(buffer) + Len(chunk) :
             (buffer \o chunk)[i] = IF i <= Len(buffer) THEN buffer[i] ELSE chunk[i - Len(buffer)]
    BY <1>1, <1>8, ConcatProperties
  <2>2. text = buffer \o chunk
    BY DEF chunk
  <2> QED BY <1>8, <2>1, <2>2
<1>10. ASSUME NEW i \in 1 .. Len(text) PROVE Same(text[i], reply[i])
  <2>1. CASE i <= Len(buffer)
    BY <1>1, <1>6, <1>9, <2>1
  <2>2. CASE ~(i <= Len(buffer))
    <3> DEFINE j == i - Len(buffer)
    <3>1. j \in 1 .. n /\ j \in 1 .. Len(down) /\ Len(buffer) + j = i /\ i \in 1 .. Len(buffer) + n
      BY <1>1, <1>9, <2>2
    <3> QED BY <1>6, <1>7, <1>8, <1>9, <2>2, <3>1
  <2> QED BY <2>1, <2>2
<1>11. Len(text) <= Len(reply) /\ Len(text) \in Nat /\ 1 <= Len(text) /\ DOMAIN text = 1 .. Len(text)
  BY <1>1, <1>6, <1>9, LenProperties
<1>12. ASSUME NEW i \in 1 .. Len(down) - n PROVE Rest(down, n)[i] = reply[Len(text) + i]
  <2>1. n + i \in 1 .. Len(down) /\ Len(buffer) + (n + i) = Len(text) + i
    BY <1>1, <1>9
  <2> QED BY <1>6, <1>7, <2>1
<1>13. text[1] = reply[1]
  <2>1. 1 \in 1 .. Len(text) /\ v \notin {"hi", "lo"}
    BY <1>11, HeadAssumption
  <2> QED BY <1>5, <1>10, <2>1 DEF Same
<1>14. \A i \in 1 .. Len(text) : text[i] = "newline" => i = Len(reply) /\ i = Len(text)
  <2>1. \A i \in 1 .. Len(text) : i \in 1 .. p + 5
    BY <1>5, <1>11
  <2>2. \A i \in 1 .. Len(text) : text[i] = "newline" => reply[i] = "newline"
    BY <1>10 DEF Same
  <2>3. \A i \in 1 .. Len(text) : text[i] = "newline" => i = p + 5
    BY <1>5, <2>1, <2>2
  <2> QED BY <1>5, <1>11, <2>3
<1>15. Has(text, "newline") => Len(text) = Len(reply)
  BY <1>11, <1>14 DEF Has
<1>16. First(text, LineLength(text)) = text
  BY <1>9, <1>14, OneLine
<1> QED BY <1>3, <1>5, <1>9, <1>10, <1>11, <1>12, <1>13, <1>15, <1>16

(* Bytes that move on, or that are lost from the end, leave what was       *)
(* received the beginning of what was written.                             *)
LEMMA BeginsStill ==
  ASSUME NEW text, NEW a \in Seq(Byte), NEW b \in Seq(Byte), NEW n \in 0 .. Len(b),
         Len(text) \in Nat, Begins(text, a, b)
  PROVE  /\ Begins(text, a, First(b, n))
         /\ Begins(text, a \o First(b, n), Rest(b, n))
<1>1. /\ First(b, n) \in Seq(Byte) /\ Len(First(b, n)) = n /\ Len(Rest(b, n)) = Len(b) - n
      /\ \A i \in 1 .. n : First(b, n)[i] = b[i]
      /\ \A i \in 1 .. Len(b) - n : Rest(b, n)[i] = b[n + i]
  BY Cut
<1>2. /\ Len(a) \in Nat /\ Len(b) \in Nat /\ n \in Nat /\ n <= Len(b)
      /\ Len(a) + Len(b) <= Len(text)
  BY LenProperties DEF Begins
<1>3. /\ \A i \in 1 .. Len(a) : a[i] = text[i]
      /\ \A i \in 1 .. Len(b) : b[i] = text[Len(a) + i]
  BY DEF Begins
<1> DEFINE f == First(b, n)
           r == Rest(b, n)
           c == a \o f
<1>4. /\ Len(c) = Len(a) + n
      /\ \A i \in 1 .. Len(a) + n : c[i] = IF i <= Len(a) THEN a[i] ELSE f[i - Len(a)]
  <2>1. /\ Len(c) = Len(a) + Len(f)
        /\ \A i \in 1 .. Len(a) + Len(f) : c[i] = IF i <= Len(a) THEN a[i] ELSE f[i - Len(a)]
    BY <1>1, ConcatProperties
  <2> QED BY <1>1, <2>1
<1> HIDE DEF c, f, r
<1>5. /\ Len(f) = n /\ Len(r) = Len(b) - n
      /\ \A i \in 1 .. n : f[i] = b[i]
      /\ \A i \in 1 .. Len(b) - n : r[i] = b[n + i]
  BY <1>1 DEF f, r
<1>6. Begins(text, a, f)
  <2>1. Len(a) + Len(f) <= Len(text)
    BY <1>2, <1>5
  <2>2. ASSUME NEW i \in 1 .. Len(f) PROVE f[i] = text[Len(a) + i]
    <3>1. i \in 1 .. n /\ i \in 1 .. Len(b)
      BY <1>2, <1>5
    <3> QED BY <1>3, <1>5, <3>1
  <2> QED BY <1>3, <2>1, <2>2 DEF Begins
<1>7. Begins(text, c, r)
  <2>1. Len(c) + Len(r) <= Len(text)
    BY <1>2, <1>4, <1>5
  <2>2. ASSUME NEW i \in 1 .. Len(c) PROVE c[i] = text[i]
    <3>1. CASE i <= Len(a)
      <4>1. i \in 1 .. Len(a) /\ i \in 1 .. Len(a) + n
        BY <1>2, <1>4, <3>1
      <4> QED BY <1>3, <1>4, <3>1, <4>1
    <3>2. CASE ~(i <= Len(a))
      <4> DEFINE j == i - Len(a)
      <4>1. j \in 1 .. n /\ j \in 1 .. Len(b) /\ Len(a) + j = i /\ i \in 1 .. Len(a) + n
        BY <1>2, <1>4, <3>2
      <4> QED BY <1>3, <1>4, <1>5, <3>2, <4>1
    <3> QED BY <3>1, <3>2
  <2>3. ASSUME NEW i \in 1 .. Len(r) PROVE r[i] = text[Len(c) + i]
    <3>1. i \in 1 .. Len(b) - n /\ n + i \in 1 .. Len(b) /\ Len(a) + (n + i) = Len(c) + i
      BY <1>2, <1>4, <1>5
    <3> QED BY <1>3, <1>5, <3>1
  <2> QED BY <2>1, <2>2, <2>3 DEF Begins
<1> QED BY <1>6, <1>7 DEF c, f, r

LEMMA WireInvInit == Init => WireInv
<1> SUFFICES ASSUME Init PROVE WireInv
  OBVIOUS
<1>1. <<>> \in Seq(Byte) /\ Len(<<>>) = 0
  BY EmptySeq
<1>2. WireTypeOK
  BY <1>1, VerdictAssumption DEF Init, WireTypeOK
<1>3. EndsInv
  BY DEF Init, EndsInv
<1>4. RequestInv
  BY <1>1 DEF Init, RequestInv
<1>5. AnswerInv
  BY DEF Init, AnswerInv, LineIntactUnlessSplit
<1> QED BY <1>2, <1>3, <1>4, <1>5 DEF WireInv

LEMMA ConnectKeeps == ASSUME WireInv, Connect PROVE WireInv'
<1> USE DEF Connect, serverVars
<1>1. WireTypeOK'
  BY DEF WireInv, WireTypeOK
<1>2. EndsInv'
  BY DEF WireInv, EndsInv
<1>3. RequestInv'
  BY DEF WireInv, RequestInv
<1>4. AnswerInv'
  BY DEF WireInv, AnswerInv, LineIntactUnlessSplit, Same
<1> QED BY <1>1, <1>2, <1>3, <1>4 DEF WireInv

LEMMA SendKeeps == ASSUME WireInv, Send PROVE WireInv'
<1>1. PICK n \in Padding :
        /\ pc = "connecting" /\ pc' = "waiting"
        /\ up' = Text("request", n) /\ handler' = "reading"
        /\ UNCHANGED <<client, verdict, line, buffer, ended, inbox, evidence, reply, down, closed>>
  BY DEF Send
<1>2. /\ handler = "none" /\ inbox = <<>> /\ reply = <<>> /\ ~closed
  BY <1>1 DEF WireInv, EndsInv
<1>3. /\ up' \in Seq(Byte) /\ Len(up') = n + 5 /\ n \in Nat
  BY <1>1, TextShape, SizeAssumption
<1>4. down = <<>> /\ buffer = <<>> /\ line = <<>>
  BY <1>2 DEF WireInv, AnswerInv
<1>5. Len(<<>>) = 0
  OBVIOUS
<1>6. WireTypeOK'
  BY <1>1, <1>3 DEF WireInv, WireTypeOK
<1>7. EndsInv'
  BY <1>1, <1>2 DEF WireInv, EndsInv
<1>8. RequestInv'
  <2>1. Begins(Text("request", n), inbox', up')
    BY <1>1, <1>2, <1>3, <1>5 DEF Begins
  <2> QED BY <1>1, <1>2, <2>1 DEF RequestInv
<1>9. AnswerInv'
  BY <1>1, <1>2, <1>4, <1>5 DEF AnswerInv, LineIntactUnlessSplit
<1> QED BY <1>6, <1>7, <1>8, <1>9 DEF WireInv

(* verify() ends, and nothing else happens but that the end of the request *)
(* may be lost.                                                            *)
LEMMA ResolveKeeps ==
  ASSUME WireInv, pc \in {"connecting", "waiting"},
         NEW v \in Verdict \cup {"raised"}, NEW text, Resolve(v, text),
         NEW n \in 0 .. Len(up), up' = First(up, n) \/ up' = up,
         UNCHANGED <<client, buffer, serverVars, down, closed>>,
         text = <<>> \/ (text = buffer /\ pc = "waiting" /\ client = "py" /\ Parses(buffer))
  PROVE  WireInv'
<1>1. /\ up \in Seq(Byte) /\ inbox \in Seq(Byte) /\ Len(up) \in Nat /\ Len(inbox) \in Nat
  BY Lengths DEF WireInv, WireTypeOK
<1>2. /\ up' \in Seq(Byte) /\ Len(up') \in Nat /\ Len(up') <= Len(up)
      /\ up = <<>> => up' = <<>>
  <2>1. /\ First(up, n) \in Seq(Byte) /\ Len(First(up, n)) = n /\ n \in Nat /\ n <= Len(up)
    BY <1>1, Cut
  <2>2. up = <<>> => First(up, n) = <<>>
    BY <2>1, EmptySeq
  <2> QED BY <1>1, <2>1, <2>2
<1>3. WireTypeOK'
  <2>1. text \in Seq(Byte)
    BY EmptySeq DEF WireInv, WireTypeOK
  <2> QED BY <1>2, <2>1 DEF WireInv, WireTypeOK, Resolve, serverVars
<1>4. EndsInv'
  BY <1>2 DEF WireInv, EndsInv, Resolve, serverVars
<1>5. RequestInv'
  <2>1. ASSUME Len(inbox') + Len(up') > 0
        PROVE  \E m \in Padding : Begins(Text("request", m), inbox', up')
    <3>1. inbox' = inbox /\ Len(inbox) + Len(up) > 0
      BY <1>1, <1>2, <2>1 DEF serverVars
    <3>2. PICK m \in Padding : Begins(Text("request", m), inbox, up)
      BY <3>1 DEF WireInv, RequestInv
    <3>3. Len(Text("request", m)) = m + 5 /\ m \in Nat
      BY TextShape, SizeAssumption
    <3>4. Begins(Text("request", m), inbox, First(up, n))
      BY <1>1, <3>2, <3>3, BeginsStill
    <3> QED BY <3>1, <3>2, <3>4
  <2>2. reply' # <<>> => inbox' = <<>> /\ up' = <<>>
    BY <1>2 DEF WireInv, RequestInv, serverVars
  <2> QED BY <2>1, <2>2 DEF RequestInv
<1>6. LineIntactUnlessSplit'
  <2>1. CASE text = <<>>
    BY <2>1 DEF LineIntactUnlessSplit, Resolve
  <2>2. CASE text # <<>>
    <3>1. line' = buffer /\ pc = "waiting" /\ client = "py" /\ reply' = reply /\ client' = client
      BY <2>2 DEF Resolve, serverVars
    <3>2. reply # <<>>
      BY <2>2 DEF WireInv, AnswerInv
    <3>3. PICK w \in Verdict, m \in Padding : reply = Text(w, m)
      BY <3>2 DEF WireInv, AnswerInv
    <3>4. /\ m \in Nat /\ Len(reply) = m + 5
          /\ \A i \in 1 .. m + 5 : reply[i] = "end" <=> i = m + 4
      <4>1. m \in Nat /\ w \in Verdict \cup {"request"}
        BY SizeAssumption
      <4> QED BY <3>3, <4>1, TextShape
    <3>5. /\ Len(buffer) \in Nat /\ DOMAIN buffer = 1 .. Len(buffer)
          /\ Len(down) \in Nat /\ Len(buffer) + Len(down) <= Len(reply)
          /\ \A i \in 1 .. Len(buffer) : buffer[i] = reply[i]
      BY <3>1, Lengths DEF WireInv, AnswerInv, Same
    <3>6. PICK i \in 1 .. Len(buffer) : buffer[i] = "end"
      BY <2>2, <3>5 DEF Parses, Has
    <3>7. Len(buffer) >= Len(reply) - 1
      BY <3>4, <3>5, <3>6
    <3> QED BY <3>1, <3>5, <3>7 DEF LineIntactUnlessSplit
  <2> QED BY <2>1, <2>2
<1>7. AnswerInv'
  <2>1. /\ reply' # <<>> => \E w \in Verdict, m \in Padding : reply' = Text(w, m)
        /\ reply' = <<>> => down' = <<>> /\ buffer' = <<>> /\ line' = <<>>
    BY DEF WireInv, AnswerInv, Resolve, serverVars
  <2>2. pc' # "waiting"
    BY DEF Resolve
  <2> QED BY <1>6, <2>1, <2>2 DEF AnswerInv
<1> QED BY <1>3, <1>4, <1>5, <1>7 DEF WireInv

LEMMA RefusedKeeps == ASSUME WireInv, Refused PROVE WireInv'
<1>1. 0 \in 0 .. Len(up)
  BY Lengths DEF WireInv
<1> QED BY <1>1, VerdictAssumption, ResolveKeeps DEF Refused

LEMMA ClosedKeeps == ASSUME WireInv, Closed PROVE WireInv'
<1>1. 0 \in 0 .. Len(up)
  BY Lengths DEF WireInv
<1>2. CASE client = "py" /\ Parses(buffer) /\ Resolve(buffer[1], buffer)
  <2>1. buffer[1] \in Verdict
    <3>1. Len(buffer) \in Nat /\ DOMAIN buffer = 1 .. Len(buffer) /\ buffer # <<>> /\ 1 \in 1 .. Len(buffer)
      <4>1. Len(buffer) \in Nat /\ DOMAIN buffer = 1 .. Len(buffer) /\ (buffer = <<>> <=> Len(buffer) = 0)
        BY Lengths DEF WireInv
      <4>2. DOMAIN buffer # {}
        BY <1>2 DEF Parses, Has
      <4> QED BY <4>1, <4>2
    <3>2. reply # <<>> /\ buffer[1] = reply[1]
      BY <1>2, <3>1 DEF WireInv, AnswerInv, Same, Closed
    <3>3. PICK v \in Verdict, m \in Padding : reply = Text(v, m)
      BY <3>2 DEF WireInv, AnswerInv
    <3>4. m \in Nat /\ v \in Verdict \cup {"request"}
      BY SizeAssumption
    <3>5. Text(v, m)[1] = v
      BY <3>4, TextShape
    <3> QED BY <3>2, <3>3, <3>5
  <2> QED BY <1>1, <1>2, <2>1, ResolveKeeps DEF Closed
<1>3. CASE client = "py" /\ Resolve("raised", <<>>)
  BY <1>1, <1>3, ResolveKeeps DEF Closed
<1>4. CASE ~(client = "py" /\ Parses(buffer)) /\ Resolve("deny", <<>>)
  BY <1>1, <1>4, VerdictAssumption, ResolveKeeps DEF Closed
<1> QED BY <1>2, <1>3, <1>4 DEF Closed

LEMMA TimeoutKeeps == ASSUME WireInv, Timeout PROVE WireInv'
<1>1. PICK n \in 0 .. Len(up) :
        /\ pc \in {"connecting", "waiting"} /\ Resolve("deny", <<>>) /\ up' = First(up, n)
        /\ UNCHANGED <<client, buffer, serverVars, down, closed>>
  BY DEF Timeout
<1> QED BY <1>1, VerdictAssumption, ResolveKeeps

LEMMA DataKeeps == ASSUME WireInv, Data PROVE WireInv'
<1> DEFINE text(n) == buffer \o Decoded(First(down, n))
<1>1. PICK n \in 1 .. Len(down) :
        /\ pc = "waiting" /\ down' = Rest(down, n)
        /\ \/ Resolve("deny", <<>>) /\ UNCHANGED buffer
           \/ /\ Has(text(n), "newline")
              /\ Resolve(text(n)[1], First(text(n), LineLength(text(n))))
              /\ UNCHANGED buffer
           \/ /\ ~Has(text(n), "newline")
              /\ buffer' = text(n) /\ UNCHANGED <<pc, verdict, line, ended>>
        /\ UNCHANGED <<client, up, serverVars, closed>>
  BY DEF Data
<1> DEFINE t == text(n)
<1>2. /\ t \in Seq(Byte) /\ reply # <<>> /\ reply[1] \in Verdict
      /\ Len(t) = Len(buffer) + n /\ Len(t) <= Len(reply)
      /\ \A i \in 1 .. Len(t) : Same(t[i], reply[i])
      /\ \A i \in 1 .. Len(down) - n : Rest(down, n)[i] = reply[Len(t) + i]
      /\ t[1] = reply[1]
      /\ Has(t, "newline") => Len(t) = Len(reply) /\ First(t, LineLength(t)) = t
  BY <1>1, AnswerSoFar
<1> HIDE DEF text
<1>3. /\ Len(t) \in Nat /\ DOMAIN t = 1 .. Len(t) /\ t # <<>>
      /\ Len(down) \in Nat /\ n \in 0 .. Len(down) /\ Len(buffer) \in Nat
  <2>1. Len(down) \in Nat /\ Len(buffer) \in Nat
    BY Lengths DEF WireInv
  <2>2. Len(t) \in Nat /\ DOMAIN t = 1 .. Len(t)
    BY <1>2, LenProperties
  <2>3. n \in Nat /\ n >= 1 /\ n \in 0 .. Len(down)
    BY <2>1
  <2>4. Len(t) # 0
    BY <1>2, <2>1, <2>3
  <2> QED BY <2>1, <2>2, <2>3, <2>4, EmptySeq
<1>4. down' \in Seq(Byte) /\ Len(down') = Len(down) - n
  <2>1. down \in Seq(Byte)
    BY DEF WireInv, WireTypeOK
  <2> QED BY <1>1, <1>3, <2>1, Cut
<1>5. \/ Resolve("deny", <<>>) /\ UNCHANGED buffer
      \/ Has(t, "newline") /\ Resolve(reply[1], t) /\ UNCHANGED buffer
      \/ ~Has(t, "newline") /\ buffer' = t /\ UNCHANGED <<pc, verdict, line, ended>>
  BY <1>1, <1>2
<1>6. WireTypeOK'
  <2>1. line' \in Seq(Byte) /\ buffer' \in Seq(Byte) /\ verdict' \in Verdict \cup {"raised"}
        /\ pc' \in {"waiting", "resolved"} /\ ended' \in BOOLEAN
    <3>1. line \in Seq(Byte) /\ buffer \in Seq(Byte) /\ <<>> \in Seq(Byte) /\ ended \in BOOLEAN
          /\ verdict \in Verdict \cup {"raised"} /\ "deny" \in Verdict
      BY EmptySeq, VerdictAssumption DEF WireInv, WireTypeOK
    <3> HIDE DEF t
    <3> QED BY <1>1, <1>2, <1>5, <3>1 DEF Resolve
  <2> QED BY <1>1, <1>4, <2>1 DEF WireInv, WireTypeOK, serverVars
<1>7. EndsInv'
  <2>1. pc' \in {"waiting", "resolved"}
    BY <1>1, <1>5 DEF Resolve
  <2> QED BY <1>1, <2>1 DEF WireInv, EndsInv, serverVars
<1>8. RequestInv'
  BY <1>1 DEF WireInv, RequestInv, serverVars
<1>9. reply' = reply /\ client' = client
  BY <1>1 DEF serverVars
<1>10. /\ reply' # <<>> => \E v \in Verdict, m \in Padding : reply' = Text(v, m)
       /\ reply' = <<>> => down' = <<>> /\ buffer' = <<>> /\ line' = <<>>
  BY <1>2, <1>9 DEF WireInv, AnswerInv
<1>11. line = <<>>
  BY <1>1 DEF WireInv, AnswerInv
<1>12. ASSUME pc' = "waiting"
       PROVE  /\ line' = <<>>
              /\ Len(buffer') + Len(down') <= Len(reply')
              /\ \A i \in 1 .. Len(buffer') : Same(buffer'[i], reply[i]) /\ buffer'[i] # "newline"
              /\ \A i \in 1 .. Len(down') : down'[i] = reply[Len(buffer') + i]
  <2>1. buffer' = t /\ ~Has(t, "newline") /\ line' = line
    <3> HIDE DEF t
    <3> QED BY <1>5, <1>12 DEF Resolve
  <2>2. \A i \in 1 .. Len(t) : t[i] # "newline"
    BY <1>3, <2>1 DEF Has
  <2>3. Len(buffer) + Len(down) <= Len(reply) /\ Len(reply) \in Nat
    BY <1>1, Lengths DEF WireInv, AnswerInv
  <2> HIDE DEF t
  <2>4. Len(t) + Len(down') <= Len(reply)
    BY <1>2, <1>3, <1>4, <2>3
  <2> QED BY <1>1, <1>2, <1>4, <1>9, <1>11, <2>1, <2>2, <2>4
<1>13. LineIntactUnlessSplit'
  <2>1. CASE line' = <<>>
    BY <2>1 DEF LineIntactUnlessSplit
  <2>2. CASE line' = t /\ Has(t, "newline")
    <3>1. Len(t) >= Len(reply) - (IF client = "py" THEN 1 ELSE 0)
      <4>1. Len(t) = Len(reply) /\ Len(t) \in Nat
        BY <1>2, <1>3, <2>2
      <4> QED BY <4>1
    <3>2. \A i \in DOMAIN t : Same(t[i], reply[i])
      BY <1>2, <1>3
    <3> HIDE DEF t
    <3> QED BY <1>9, <2>2, <3>1, <3>2 DEF LineIntactUnlessSplit, Same
  <2>3. line' = <<>> \/ (line' = t /\ Has(t, "newline"))
    <3> HIDE DEF t
    <3> QED BY <1>5, <1>11 DEF Resolve
  <2> QED BY <2>1, <2>2, <2>3
<1>14. AnswerInv'
  <2> HIDE DEF t
  <2> QED BY <1>9, <1>10, <1>12, <1>13 DEF AnswerInv, Same
<1> QED BY <1>6, <1>7, <1>8, <1>14 DEF WireInv

LEMMA ReceiveKeeps == ASSUME WireInv, Receive PROVE WireInv'
<1>1. PICK n \in 1 .. Len(up) :
        /\ handler = "reading" /\ inbox' = inbox \o First(up, n) /\ up' = Rest(up, n)
        /\ UNCHANGED <<clientVars, ended, handler, evidence, reply, down, closed>>
  BY DEF Receive
<1>2. /\ up \in Seq(Byte) /\ inbox \in Seq(Byte) /\ Len(up) \in Nat /\ Len(inbox) \in Nat
      /\ n \in Nat /\ n \in 0 .. Len(up) /\ Len(up) > 0
  BY Lengths DEF WireInv, WireTypeOK
<1>3. PICK m \in Padding : Begins(Text("request", m), inbox, up)
  BY <1>2 DEF WireInv, RequestInv
<1>4. Len(Text("request", m)) = m + 5 /\ m \in Nat
  BY TextShape, SizeAssumption
<1>5. Begins(Text("request", m), inbox', up')
  BY <1>1, <1>2, <1>3, <1>4, BeginsStill
<1>6. up # <<>>
  BY <1>2, EmptySeq
<1>7. reply = <<>> /\ reply' = <<>>
  BY <1>1, <1>6 DEF WireInv, RequestInv
<1>8. inbox' \in Seq(Byte) /\ up' \in Seq(Byte)
  <2>1. First(up, n) \in Seq(Byte) /\ Rest(up, n) \in Seq(Byte)
    BY <1>2, Cut
  <2> QED BY <1>1, <1>2, <2>1, ConcatProperties
<1>9. WireTypeOK'
  BY <1>1, <1>8 DEF WireInv, WireTypeOK, clientVars
<1>10. EndsInv'
  BY <1>1 DEF WireInv, EndsInv, clientVars
<1>11. RequestInv'
  BY <1>5, <1>7 DEF RequestInv
<1>12. AnswerInv'
  BY <1>1 DEF WireInv, AnswerInv, LineIntactUnlessSplit, Same, clientVars
<1> QED BY <1>9, <1>10, <1>11, <1>12 DEF WireInv

LEMMA ReadLineKeeps == ASSUME WireInv, ReadLine PROVE WireInv'
<1>1. CASE handler = "reading" /\ HangUp /\ UNCHANGED <<inbox, evidence, down, reply, clientVars, up, ended>>
  <2> USE <1>1 DEF HangUp, clientVars
  <2>1. WireTypeOK'
    BY DEF WireInv, WireTypeOK
  <2>2. EndsInv'
    BY DEF WireInv, EndsInv
  <2>3. RequestInv'
    BY DEF WireInv, RequestInv
  <2>4. AnswerInv'
    BY DEF WireInv, AnswerInv, LineIntactUnlessSplit, Same
  <2> QED BY <2>1, <2>2, <2>3, <2>4 DEF WireInv
<1>2. CASE /\ inbox # <<>> /\ (Has(inbox, "newline") \/ up = <<>>) /\ handler = "reading"
           /\ Serve(First(inbox, LineLength(inbox)))
           /\ inbox' = Rest(inbox, LineLength(inbox))
           /\ UNCHANGED <<handler, closed, clientVars, up, ended>>
  <2>1. up = <<>> /\ inbox' = <<>> /\ reply = <<>>
    BY <1>2, RequestLine
  <2>2. down = <<>> /\ buffer = <<>> /\ line = <<>>
    BY <2>1 DEF WireInv, AnswerInv
  <2>3. PICK v \in Verdict, n \in Padding : Write(Text(v, n))
    BY <1>2 DEF Serve
  <2>4. Text(v, n) \in Seq(Byte) /\ Len(Text(v, n)) = n + 5 /\ n \in Nat
    <3>1. n \in Nat /\ v \in Verdict \cup {"request"}
      BY SizeAssumption
    <3> QED BY <3>1, TextShape
  <2>5. reply' = Text(v, n) /\ down' = Text(v, n) /\ Len(<<>>) = 0
    BY <2>2, <2>3, <2>4, ConcatEmptySeq DEF Write
  <2>6. reply' # <<>>
    BY <2>4, <2>5
  <2>7. WireTypeOK'
    BY <1>2, <2>1, <2>4, <2>5, EmptySeq DEF WireInv, WireTypeOK, clientVars
  <2>8. EndsInv'
    BY <1>2 DEF WireInv, EndsInv, clientVars
  <2>9. RequestInv'
    BY <1>2, <2>1, <2>5 DEF RequestInv
  <2>10. AnswerInv'
    <3>1. /\ line' = <<>> /\ buffer' = <<>>
      BY <1>2, <2>2 DEF clientVars
    <3>2. LineIntactUnlessSplit'
      BY <3>1 DEF LineIntactUnlessSplit
    <3>3. /\ Len(buffer') + Len(down') <= Len(reply')
          /\ \A i \in 1 .. Len(down') : down'[i] = reply'[Len(buffer') + i]
      BY <2>4, <2>5, <3>1
    <3>4. \A i \in 1 .. Len(buffer') : FALSE
      BY <2>5, <3>1
    <3> QED BY <2>5, <2>6, <3>1, <3>2, <3>3, <3>4 DEF AnswerInv
  <2> QED BY <2>7, <2>8, <2>9, <2>10 DEF WireInv
<1> QED BY <1>1, <1>2 DEF ReadLine

LEMMA BreakKeeps == ASSUME WireInv, Break PROVE WireInv'
<1>1. PICK n \in 0 .. Len(down) :
        /\ handler = "reading" /\ HangUp /\ down' = First(down, n)
        /\ UNCHANGED <<clientVars, up, ended, inbox, evidence, reply>>
  BY DEF Break
<1>2. down \in Seq(Byte) /\ Len(down) \in Nat /\ (down = <<>> <=> Len(down) = 0)
  BY Lengths DEF WireInv, WireTypeOK
<1>3. /\ down' \in Seq(Byte) /\ Len(down') = n /\ n \in Nat /\ n <= Len(down)
      /\ \A i \in 1 .. n : down'[i] = down[i]
  <2>1. n \in Nat /\ n <= Len(down)
    BY <1>2
  <2>2. /\ First(down, n) \in Seq(Byte) /\ Len(First(down, n)) = n
        /\ \A i \in 1 .. n : First(down, n)[i] = down[i]
    BY <1>2, Cut
  <2> QED BY <1>1, <2>1, <2>2
<1>4. down = <<>> => down' = <<>>
  BY <1>2, <1>3, EmptySeq
<1>5. WireTypeOK'
  BY <1>1, <1>3 DEF WireInv, WireTypeOK, HangUp, clientVars
<1>6. EndsInv'
  BY <1>1 DEF WireInv, EndsInv, HangUp, clientVars
<1>7. RequestInv'
  BY <1>1 DEF WireInv, RequestInv
<1>8. AnswerInv'
  <2>1. UNCHANGED <<client, pc, line, buffer, reply>>
    BY <1>1 DEF clientVars
  <2>2. pc = "waiting" =>
          /\ Len(buffer) + n <= Len(reply)
          /\ \A i \in 1 .. n : down'[i] = reply[Len(buffer) + i]
    <3> SUFFICES ASSUME pc = "waiting"
                 PROVE  /\ Len(buffer) + n <= Len(reply)
                        /\ \A i \in 1 .. n : down'[i] = reply[Len(buffer) + i]
      OBVIOUS
    <3>1. /\ Len(buffer) + Len(down) <= Len(reply)
          /\ \A i \in 1 .. Len(down) : down[i] = reply[Len(buffer) + i]
      BY DEF WireInv, AnswerInv
    <3>2. Len(buffer) \in Nat /\ Len(reply) \in Nat
      BY Lengths DEF WireInv
    <3>3. Len(buffer) + n <= Len(reply)
      BY <1>2, <1>3, <3>1, <3>2
    <3>4. \A i \in 1 .. n : i \in 1 .. Len(down)
      BY <1>2, <1>3
    <3> QED BY <1>3, <3>1, <3>3, <3>4
  <2> QED BY <1>3, <1>4, <2>1, <2>2 DEF WireInv, AnswerInv, LineIntactUnlessSplit, Same
<1> QED BY <1>5, <1>6, <1>7, <1>8 DEF WireInv

(* Every step keeps the invariant.                                         *)
LEMMA WireInvariant == Spec => []WireInv
<1>1. ASSUME WireInv, [Next]_vars PROVE WireInv'
  <2>1. CASE UNCHANGED vars
    BY <1>1, <2>1 DEF vars, clientVars, serverVars, WireInv, WireTypeOK, EndsInv, RequestInv,
                      AnswerInv, LineIntactUnlessSplit, Same
  <2> QED
    BY <1>1, <2>1, ConnectKeeps, RefusedKeeps, SendKeeps, DataKeeps, ClosedKeeps, TimeoutKeeps,
       ReceiveKeeps, ReadLineKeeps, BreakKeeps DEF Next
<1> QED BY <1>1, WireInvInit, PTL DEF Spec

(* However the network cuts the bytes and whichever end goes away, a line  *)
(* that verify() parses is the line that _handle() wrote for it, but for   *)
(* the character of two bytes that remote.js may lose.                     *)
THEOREM LineArrivesIntact == Spec => []LineIntactUnlessSplit
<1>1. WireInv => LineIntactUnlessSplit
  BY DEF WireInv, AnswerInv
<1> QED BY <1>1, WireInvariant, PTL

-----------------------------------------------------------------------------
(* THE REFINEMENT                                                          *)

(* The request, the answer and the verdict of the abstract connection.     *)
requestOf == IF Pending THEN "request" ELSE "nothing"
answerOf  == IF reply # <<>> /\ line = <<>> THEN reply[1] ELSE "nothing"
verdictOf == IF verdict = "raised" THEN "deny" ELSE verdict

GuardStep == Guard!Next \/ UNCHANGED Guard!vars

(* Each lemma says of one step of RemoteGuard.tla what a step here must do *)
(* to be that step.                                                        *)
LEMMA AsStutter ==
  ASSUME UNCHANGED <<pc, verdictOf, requestOf, answerOf, evidence>>
  PROVE  GuardStep
BY DEF GuardStep, Guard!vars, Guard!connection, requestOf, answerOf, verdictOf

LEMMA AsGovern ==
  ASSUME pc = "idle", pc' = "connecting", UNCHANGED <<verdictOf, requestOf, answerOf, evidence>>
  PROVE  GuardStep
BY DEF GuardStep, Guard!Next, Guard!Govern, Guard!Goto, Guard!connection,
       requestOf, answerOf, verdictOf

LEMMA AsConnect ==
  ASSUME pc = "connecting", pc' = "waiting", requestOf' = "request",
         UNCHANGED <<verdictOf, answerOf, evidence>>
  PROVE  GuardStep
BY DEF GuardStep, Guard!Next, Guard!Connect, Guard!Goto,
       requestOf, answerOf, verdictOf

LEMMA AsVerify ==
  ASSUME requestOf = "request", requestOf' = "nothing", UNCHANGED <<pc, verdictOf>>,
         NEW v \in Verdict, answerOf' = v,
         \/ evidence' = evidence \cup {[call |-> 1, params |-> "request", verdict |-> v]}
         \/ v = "deny" /\ UNCHANGED evidence
  PROVE  GuardStep
BY DEF GuardStep, Guard!Next, Guard!Verify, requestOf, answerOf, verdictOf

LEMMA AsDeliver ==
  ASSUME pc = "waiting", pc' = "resolved", answerOf # "nothing", verdictOf' = answerOf,
         answerOf' = "nothing", UNCHANGED <<requestOf, evidence>>
  PROVE  GuardStep
BY DEF GuardStep, Guard!Next, Guard!Deliver, Guard!Resolve, Guard!Goto,
       requestOf, answerOf, verdictOf

LEMMA AsTimeout ==
  ASSUME pc \in {"connecting", "waiting"}, pc' = "resolved", verdictOf' = "deny",
         UNCHANGED <<requestOf, answerOf, evidence>>
  PROVE  GuardStep
BY DEF GuardStep, Guard!Next, Guard!Timeout, Guard!Resolve, Guard!Goto, Guard!connection,
       requestOf, answerOf, verdictOf

LEMMA AsBreak ==
  ASSUME \/ pc \in {"connecting", "waiting"} /\ pc' = "resolved" /\ verdictOf' = "deny"
         \/ /\ pc \notin {"connecting", "waiting"} /\ requestOf = "request"
            /\ UNCHANGED <<pc, verdictOf>>,
         requestOf' = "nothing", answerOf' = "nothing", UNCHANGED evidence
  PROVE  GuardStep
BY DEF GuardStep, Guard!Next, Guard!Break, Guard!Resolve, Guard!Goto,
       requestOf, answerOf, verdictOf

(* The first word of an answer is its verdict.                             *)
LEMMA AnswerHead ==
  ASSUME WireInv, reply # <<>>
  PROVE  reply[1] \in Verdict /\ reply[1] # "nothing" /\ reply[1] # "raised"
<1>1. PICK v \in Verdict, n \in Padding : reply = Text(v, n)
  BY DEF WireInv, AnswerInv
<1>2. n \in Nat /\ v \in Verdict \cup {"request"}
  BY SizeAssumption
<1>3. Text(v, n)[1] = v
  BY <1>2, TextShape
<1> QED BY <1>1, <1>3, HeadAssumption

(* Nothing is asked of a verifier before there is a connection to it.      *)
LEMMA NotPending == ASSUME WireInv, handler = "none" PROVE ~Pending
<1>1. pc # "waiting"
  BY DEF WireInv, EndsInv
<1> QED BY <1>1 DEF Pending

(* Whether a request is under way is a matter of what is left of it.       *)
LEMMA PendingIff ==
  ASSUME WireTypeOK
  PROVE  Pending <=> /\ reply = <<>>
                     /\ \/ pc = "waiting"
                        \/ handler = "reading" /\ ~(inbox = <<>> /\ up = <<>>)
<1>1. inbox \o up = <<>> <=> inbox = <<>> /\ up = <<>>
  BY ConcatEqualIffEmpty DEF WireTypeOK
<1> QED BY <1>1 DEF Pending

LEMMA ConnectRefines == ASSUME WireInv, Connect PROVE GuardStep
<1>1. ~Pending /\ ~Pending'
  <2>1. handler = "none" /\ handler' = "none"
    BY DEF Connect, WireInv, EndsInv, serverVars
  <2>2. WireInv'
    BY ConnectKeeps
  <2> QED BY <2>1, <2>2, NotPending DEF Connect, Pending
<1> QED BY <1>1, AsGovern DEF Connect, serverVars, requestOf, answerOf, verdictOf

LEMMA SendRefines == ASSUME WireInv, Send PROVE GuardStep
<1>1. /\ pc = "connecting" /\ pc' = "waiting"
      /\ UNCHANGED <<verdict, line, evidence, reply>>
  BY DEF Send
<1>2. reply = <<>>
  BY <1>1 DEF WireInv, EndsInv
<1>3. Pending'
  BY <1>1, <1>2 DEF Pending
<1> QED BY <1>1, <1>3, AsConnect DEF requestOf, answerOf, verdictOf

LEMMA RefusedRefines == ASSUME WireInv, Refused PROVE GuardStep
<1>1. /\ pc = "connecting" /\ pc' = "resolved" /\ verdict' \in {"raised", "deny"} /\ line' = <<>>
      /\ UNCHANGED <<reply, handler, evidence>>
  BY DEF Refused, Resolve, serverVars
<1>2. handler = "none" /\ reply = <<>>
  BY <1>1 DEF WireInv, EndsInv
<1>3. ~Pending /\ ~Pending'
  BY <1>1, <1>2 DEF Pending
<1> QED BY <1>1, <1>2, <1>3, AsTimeout DEF requestOf, answerOf, verdictOf

LEMMA DataRefines == ASSUME WireInv, Data PROVE GuardStep
<1> DEFINE text(n) == buffer \o Decoded(First(down, n))
<1>1. PICK n \in 1 .. Len(down) :
        /\ pc = "waiting"
        /\ \/ Resolve("deny", <<>>)
           \/ /\ Has(text(n), "newline")
              /\ Resolve(text(n)[1], First(text(n), LineLength(text(n))))
           \/ UNCHANGED <<pc, verdict, line, ended>>
        /\ UNCHANGED <<client, up, serverVars, closed>>
  BY DEF Data
<1>2. /\ reply # <<>> /\ text(n)[1] = reply[1] /\ text(n) \in Seq(Byte)
      /\ Has(text(n), "newline") => /\ Len(text(n)) = Len(reply)
                                    /\ First(text(n), LineLength(text(n))) = text(n)
  BY <1>1, AnswerSoFar
<1>3. line = <<>> /\ reply' = reply /\ evidence' = evidence
  BY <1>1 DEF WireInv, AnswerInv, serverVars
<1>4. ~Pending /\ ~Pending'
  BY <1>2, <1>3 DEF Pending
<1>5. CASE Resolve("deny", <<>>)
  BY <1>1, <1>3, <1>4, <1>5, AsTimeout DEF Resolve, requestOf, answerOf, verdictOf
<1>6. CASE Has(text(n), "newline") /\ Resolve(text(n)[1], First(text(n), LineLength(text(n))))
  <2>1. text(n) # <<>>
    BY <1>6 DEF Has
  <2>2. /\ pc' = "resolved" /\ verdict' = reply[1] /\ line' # <<>>
    BY <1>2, <1>6, <2>1 DEF Resolve
  <2>3. reply[1] # "nothing" /\ reply[1] # "raised"
    BY <1>2, AnswerHead
  <2> HIDE DEF text
  <2> QED BY <1>1, <1>2, <1>3, <1>4, <2>2, <2>3, AsDeliver DEF requestOf, answerOf, verdictOf
<1>7. CASE UNCHANGED <<pc, verdict, line, ended>>
  BY <1>3, <1>4, <1>7, AsStutter DEF requestOf, answerOf, verdictOf
<1> QED BY <1>1, <1>5, <1>6, <1>7

(* A verify() that ends without a line has timed out or lost a connection. *)
LEMMA ResolveRefines ==
  ASSUME WireInv, pc \in {"connecting", "waiting"}, pc' = "resolved",
         verdict' \in {"deny", "raised"}, line' = <<>>,
         UNCHANGED <<reply, evidence>>, Pending' => Pending
  PROVE  GuardStep
<1>1. line = <<>>
  BY DEF WireInv, AnswerInv, EndsInv
<1>2. CASE Pending' = Pending
  BY <1>1, <1>2, AsTimeout DEF requestOf, answerOf, verdictOf
<1>3. CASE ~Pending'/\ Pending
  <2>1. reply = <<>>
    BY <1>3 DEF Pending
  <2> QED BY <1>3, <2>1, AsBreak DEF requestOf, answerOf, verdictOf
<1>4. Pending \in BOOLEAN /\ Pending' \in BOOLEAN
  BY DEF Pending
<1> QED BY <1>2, <1>3, <1>4

LEMMA ClosedRefines == ASSUME WireInv, Closed PROVE GuardStep
<1>1. /\ pc = "waiting" /\ pc' = "resolved" /\ closed
      /\ UNCHANGED <<handler, reply, evidence, buffer, inbox, up>>
  BY DEF Closed, Resolve, serverVars
<1>2. handler' # "reading"
  BY <1>1 DEF WireInv, EndsInv
<1>3. ~Pending'
  BY <1>1, <1>2 DEF Pending
<1>4. CASE client = "py" /\ Parses(buffer) /\ Resolve(buffer[1], buffer)
  <2>1. /\ Len(buffer) \in Nat /\ DOMAIN buffer = 1 .. Len(buffer)
        /\ (buffer = <<>> <=> Len(buffer) = 0)
    BY Lengths DEF WireInv
  <2>2. DOMAIN buffer # {}
    BY <1>4 DEF Parses, Has
  <2>3. buffer # <<>> /\ 1 \in 1 .. Len(buffer)
    BY <2>1, <2>2
  <2>4. reply # <<>> /\ buffer[1] = reply[1] /\ line = <<>>
    BY <1>1, <1>4, <2>3 DEF WireInv, AnswerInv, Same
  <2>5. reply[1] # "nothing" /\ reply[1] # "raised"
    BY <2>4, AnswerHead
  <2>6. ~Pending
    BY <2>4 DEF Pending
  <2>7. verdict' = reply[1] /\ line' # <<>>
    BY <1>4, <2>3, <2>4 DEF Resolve
  <2> QED BY <1>1, <1>3, <2>4, <2>5, <2>6, <2>7, AsDeliver DEF requestOf, answerOf, verdictOf
<1>5. CASE Resolve("raised", <<>>)
  BY <1>1, <1>3, <1>5, ResolveRefines DEF Resolve
<1>6. CASE Resolve("deny", <<>>)
  BY <1>1, <1>3, <1>6, ResolveRefines DEF Resolve
<1> QED BY <1>4, <1>5, <1>6 DEF Closed

LEMMA TimeoutRefines == ASSUME WireInv, Timeout PROVE GuardStep
<1>1. /\ pc \in {"connecting", "waiting"} /\ Resolve("deny", <<>>)
      /\ UNCHANGED <<handler, reply, evidence, inbox>>
  BY DEF Timeout, serverVars
<1>2. WireInv'
  BY TimeoutKeeps
<1>3. Pending' => Pending
  <2>1. pc' # "waiting"
    BY <1>1 DEF Resolve
  <2>2. CASE pc = "waiting"
    BY <1>1, <2>2 DEF Pending
  <2>3. CASE pc = "connecting"
    BY <1>1, <2>1, <2>3 DEF Pending, WireInv, EndsInv
  <2> QED BY <1>1, <2>2, <2>3
<1> QED BY <1>1, <1>3, ResolveRefines DEF Resolve

LEMMA ReceiveRefines == ASSUME WireInv, Receive PROVE GuardStep
<1>1. PICK n \in 1 .. Len(up) :
        /\ handler = "reading" /\ inbox' = inbox \o First(up, n)
        /\ UNCHANGED <<clientVars, handler, evidence, reply>>
  BY DEF Receive
<1>2. /\ up \in Seq(Byte) /\ inbox \in Seq(Byte) /\ n \in 0 .. Len(up) /\ n >= 1 /\ n \in Nat
      /\ Len(up) # 0
  BY Lengths DEF WireInv, WireTypeOK
<1>3. up # <<>> /\ inbox' # <<>>
  <2>1. First(up, n) \in Seq(Byte) /\ Len(First(up, n)) = n
    BY <1>2, Cut
  <2>2. First(up, n) # <<>>
    BY <1>2, <2>1, EmptySeq
  <2> QED BY <1>1, <1>2, <2>1, <2>2, ConcatEqualIffEmpty, EmptySeq
<1>4. WireTypeOK /\ WireTypeOK'
  BY ReceiveKeeps DEF WireInv
<1>5. Pending <=> reply = <<>>
  BY <1>1, <1>3, <1>4, PendingIff
<1>6. Pending' <=> reply' = <<>>
  <2>1. inbox' \o up' # <<>>
    BY <1>3, <1>4, ConcatEqualIffEmpty DEF WireTypeOK
  <2> QED BY <1>1, <2>1 DEF Pending
<1> QED BY <1>1, <1>5, <1>6, AsStutter DEF requestOf, answerOf, verdictOf, clientVars

(* The verifier's end is closed with no answer written, or after it.       *)
LEMMA HangUpRefines ==
  ASSUME WireInv, handler = "reading", HangUp, UNCHANGED <<clientVars, evidence, reply>>
  PROVE  GuardStep
<1>1. UNCHANGED <<pc, verdict, line>> /\ handler' = "closed"
  BY DEF HangUp, clientVars
<1>2. pc # "connecting"
  BY DEF WireInv, EndsInv
<1>3. Pending' <=> reply = <<>> /\ pc = "waiting"
  BY <1>1 DEF Pending
<1>4. CASE ~Pending \/ pc = "waiting"
  <2>1. Pending' <=> Pending
    BY <1>3, <1>4 DEF Pending
  <2> QED BY <1>1, <2>1, AsStutter DEF requestOf, answerOf, verdictOf
<1>5. CASE Pending /\ pc # "waiting"
  <2>1. reply = <<>> /\ ~Pending'
    BY <1>3, <1>5 DEF Pending
  <2> QED BY <1>1, <1>2, <1>5, <2>1, AsBreak DEF requestOf, answerOf, verdictOf
<1> QED BY <1>4, <1>5

LEMMA ReadLineRefines == ASSUME WireInv, ReadLine PROVE GuardStep
<1>1. CASE handler = "reading" /\ HangUp /\ UNCHANGED <<clientVars, evidence, reply>>
  BY <1>1, HangUpRefines
<1>2. CASE /\ inbox # <<>> /\ (Has(inbox, "newline") \/ up = <<>>) /\ handler = "reading"
           /\ Serve(First(inbox, LineLength(inbox)))
           /\ UNCHANGED clientVars
  <2>1. First(inbox, LineLength(inbox)) = inbox /\ inbox[1] = "request" /\ reply = <<>>
    BY <1>2, RequestLine
  <2>2. line = <<>>
    BY <2>1 DEF WireInv, AnswerInv
  <2>3. Pending
    BY <1>2, <2>1, PendingIff DEF WireInv
  <2>4. PICK v \in Verdict, n \in Padding :
          /\ \/ evidence' = evidence \cup {[call |-> 1, params |-> "request", verdict |-> v]}
             \/ v = "deny" /\ UNCHANGED evidence
          /\ reply' = Text(v, n)
    BY <1>2, <2>1 DEF Serve, Write
  <2>5. n \in Nat /\ v \in Verdict \cup {"request"}
    BY SizeAssumption
  <2>6. Text(v, n) \in Seq(Byte) /\ Len(Text(v, n)) = n + 5 /\ Text(v, n)[1] = v
    BY <2>5, TextShape
  <2>7. reply' # <<>> /\ reply'[1] = v
    BY <2>4, <2>5, <2>6
  <2>8. ~Pending'
    BY <2>7 DEF Pending
  <2>9. UNCHANGED <<pc, verdict, line>>
    BY <1>2 DEF clientVars
  <2>10. requestOf = "request" /\ requestOf' = "nothing" /\ answerOf' = v /\ UNCHANGED verdictOf
    BY <2>2, <2>3, <2>7, <2>8, <2>9 DEF requestOf, answerOf, verdictOf
  <2> QED BY <2>4, <2>9, <2>10, AsVerify
<1> QED BY <1>1, <1>2 DEF ReadLine

(* One connection is one call of RemoteGuard.tla: what is persisted is     *)
(* what was asked, an answer is of its own request, and a client that lost *)
(* any byte of it comes to a deny.                                         *)
THEOREM RemoteGuardImplemented == Spec => ImplementsRemoteGuard
<1>1. Init => Guard!Init
  <2> SUFFICES ASSUME Init PROVE Guard!Init
    OBVIOUS
  <2>1. ~Pending /\ reply = <<>>
    BY DEF Init, Pending
  <2> QED BY <2>1 DEF Init, Guard!Init
<1>2. ASSUME WireInv, [Next]_vars PROVE [Guard!Next]_(Guard!vars)
  <2>1. CASE UNCHANGED vars
    <3>1. Pending' = Pending
      BY <2>1 DEF vars, clientVars, serverVars, Pending
    <3> QED BY <2>1, <3>1, AsStutter
        DEF vars, clientVars, serverVars, requestOf, answerOf, verdictOf, GuardStep
  <2>2. CASE Break
    BY <1>2, <2>2, HangUpRefines DEF Break, GuardStep
  <2> QED
    BY <1>2, <2>1, <2>2, ConnectRefines, RefusedRefines, SendRefines, DataRefines, ClosedRefines,
       TimeoutRefines, ReceiveRefines, ReadLineRefines DEF Next, GuardStep
<1> QED BY <1>1, <1>2, WireInvariant, PTL DEF Spec, ImplementsRemoteGuard, Guard!Spec

-----------------------------------------------------------------------------
(* FROM THE BYTES TO THE ROW                                               *)

Row(v) == [call |-> 1, params |-> "request", verdict |-> v]

(* An answer other than a deny has its row, and so a verdict taken from it.*)
PersistInv ==
  /\ reply # <<>> /\ reply[1] # "deny" => Row(reply[1]) \in evidence
  /\ verdict \notin {"deny", "raised"} => reply # <<>> /\ verdict = reply[1]

(* A verify() that ends with a deny, or with the head of the answer.       *)
LEMMA ResolvePersists ==
  ASSUME PersistInv, UNCHANGED <<reply, evidence>>,
         verdict' \in {verdict, "deny", "raised"} \/ (reply # <<>> /\ verdict' = reply[1])
  PROVE  PersistInv'
BY DEF PersistInv, Row

LEMMA ServePersists ==
  ASSUME WireInv, PersistInv, ReadLine PROVE PersistInv'
<1>1. CASE UNCHANGED <<clientVars, evidence, reply>>
  BY <1>1, ResolvePersists DEF clientVars
<1>2. CASE /\ inbox # <<>> /\ (Has(inbox, "newline") \/ up = <<>>)
           /\ Serve(First(inbox, LineLength(inbox)))
           /\ UNCHANGED clientVars
  <2>1. First(inbox, LineLength(inbox)) = inbox /\ inbox[1] = "request" /\ reply = <<>>
    BY <1>2, RequestLine
  <2>2. PICK v \in Verdict, n \in Padding :
          /\ \/ evidence' = evidence \cup {Row(v)}
             \/ v = "deny" /\ UNCHANGED evidence
          /\ reply' = Text(v, n)
    BY <1>2, <2>1 DEF Serve, Write, Row
  <2>3. n \in Nat /\ v \in Verdict \cup {"request"}
    BY SizeAssumption
  <2>4. Text(v, n)[1] = v
    BY <2>3, TextShape
  <2>5. reply'[1] # "deny" => Row(reply'[1]) \in evidence'
    BY <2>2, <2>4
  <2>6. verdict' \in {"deny", "raised"}
    BY <1>2, <2>1 DEF PersistInv, clientVars
  <2> QED BY <2>5, <2>6 DEF PersistInv, Row
<1> QED BY <1>1, <1>2 DEF ReadLine

(* Whatever the network does to the bytes, a client that comes to anything *)
(* but a deny or an exception has the row of its own request, with that    *)
(* verdict, in the database of the verifier: a torn, glued or late line is *)
(* never read as an allow.                                                 *)
THEOREM VerdictIsPersisted ==
  Spec => [](verdict \notin {"deny", "raised"} => Row(verdict) \in evidence)
<1>1. Init => PersistInv
  BY DEF Init, PersistInv
<1>2. ASSUME WireInv, PersistInv, [Next]_vars PROVE PersistInv'
  <2> USE <1>2
  <2>1. CASE UNCHANGED vars
    BY <2>1, ResolvePersists DEF vars, clientVars, serverVars
  <2>2. CASE Connect
    BY <2>2, ResolvePersists DEF Connect, serverVars
  <2>3. CASE Refused
    BY <2>3, ResolvePersists DEF Refused, Resolve, serverVars
  <2>4. CASE Send
    BY <2>4, ResolvePersists DEF Send
  <2>5. CASE Data
    <3>1. PICK n \in 1 .. Len(down) :
            /\ pc = "waiting"
            /\ \/ verdict' = "deny"
               \/ verdict' = (buffer \o Decoded(First(down, n)))[1]
               \/ verdict' = verdict
      BY <2>5 DEF Data, Resolve
    <3>2. reply # <<>> /\ (buffer \o Decoded(First(down, n)))[1] = reply[1]
      BY <3>1, AnswerSoFar
    <3>3. UNCHANGED <<reply, evidence>>
      BY <2>5 DEF Data, serverVars
    <3> QED BY <3>1, <3>2, <3>3, ResolvePersists
  <2>6. CASE Closed
    <3>1. /\ UNCHANGED <<reply, evidence>> /\ pc = "waiting"
          /\ \/ verdict' \in {"deny", "raised"}
             \/ client = "py" /\ Parses(buffer) /\ verdict' = buffer[1]
      BY <2>6 DEF Closed, Resolve, serverVars
    <3>2. CASE client = "py" /\ Parses(buffer)
      <4>1. Len(buffer) \in Nat /\ DOMAIN buffer = 1 .. Len(buffer)
            /\ (buffer = <<>> <=> Len(buffer) = 0)
        BY Lengths DEF WireInv
      <4>2. DOMAIN buffer # {}
        BY <3>2 DEF Parses, Has
      <4>3. buffer # <<>> /\ 1 \in 1 .. Len(buffer)
        BY <4>1, <4>2
      <4>4. reply # <<>> /\ buffer[1] = reply[1]
        BY <3>1, <3>2, <4>3 DEF WireInv, AnswerInv, Same
      <4> QED BY <3>1, <4>4, ResolvePersists
    <3> QED BY <3>1, <3>2, ResolvePersists
  <2>7. CASE Timeout
    BY <2>7, ResolvePersists DEF Timeout, Resolve, serverVars
  <2>8. CASE Receive
    BY <2>8, ResolvePersists DEF Receive, clientVars
  <2>9. CASE ReadLine
    BY <2>9, ServePersists
  <2>10. CASE Break
    BY <2>10, ResolvePersists DEF Break, clientVars
  <2> QED BY <2>1, <2>2, <2>3, <2>4, <2>5, <2>6, <2>7, <2>8, <2>9, <2>10 DEF Next
<1>3. PersistInv => (verdict \notin {"deny", "raised"} => Row(verdict) \in evidence)
  BY DEF PersistInv
<1> QED BY <1>1, <1>2, <1>3, WireInvariant, PTL DEF Spec
=============================================================================
