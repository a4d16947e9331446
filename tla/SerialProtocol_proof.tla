------------------------ MODULE SerialProtocol_proof ------------------------
(***************************************************************************)
(* Proofs about the serial protocol, for every software that keeps to its  *)
(* assumptions and however the bytes of its requests arrive.               *)
(***************************************************************************)
EXTENDS SerialProtocol, ToothLogger_proof

(***************************************************************************)
(* Requests and their bytes                                                *)
(***************************************************************************)
LEMMA Codes ==
  /\ Ord.A = 65 /\ Ord.b = 98 /\ Ord.d = 100 /\ Ord.H = 72 /\ Ord.h = 104 /\ Ord.J = 74
  /\ Ord.j = 106 /\ Ord.P = 80 /\ Ord.p = 112 /\ Ord.T = 84 /\ Ord.t = 116 /\ Ord.V = 86
  /\ Ord.W = 87 /\ Ord.w = 119
  /\ DOMAIN Ord = {"A", "b", "d", "H", "h", "J", "j", "P", "p", "T", "t", "V", "W", "w"}
  BY DEF Ord

LEMMA CodesIndexed ==
  /\ Ord["A"] = 65 /\ Ord["b"] = 98 /\ Ord["d"] = 100 /\ Ord["H"] = 72 /\ Ord["h"] = 104 /\ Ord["J"] = 74
  /\ Ord["j"] = 106 /\ Ord["P"] = 80 /\ Ord["p"] = 112 /\ Ord["T"] = 84 /\ Ord["t"] = 116 /\ Ord["V"] = 86
  /\ Ord["W"] = 87 /\ Ord["w"] = 119
  BY DEF Ord

LEMMA Letters == \A c \in DOMAIN Ord : Ord[c] \in Byte /\ Letter(Ord[c]) = c
  BY Codes, CodesIndexed DEF Letter, Byte

LEMMA LowHigh ==
  ASSUME NEW n \in Word
  PROVE  /\ LowFirst(n) \in Seq(Byte) /\ Len(LowFirst(n)) = 2
         /\ word(LowFirst(n)[1], LowFirst(n)[2]) = n
  <1> DEFINE low == n % 256
             high == n \div 256
  <1>1. low \in Byte /\ high \in Byte /\ high * 256 + low = n
    <2>1. n \in Int /\ 0 <= n /\ n <= 65535
      BY DEF Word
    <2>2. low \in Int /\ high \in Int /\ high * 256 + low = n /\ 0 <= low /\ low <= 255
      BY <2>1
    <2> HIDE DEF low, high
    <2>3. 0 <= high /\ high <= 255
      BY <2>1, <2>2
    <2> QED
      BY <2>2, <2>3 DEF Byte
  <1>2. LowFirst(n) = <<low, high>>
    BY DEF LowFirst
  <1> HIDE DEF low, high
  <1>3. LowFirst(n)[1] = low /\ LowFirst(n)[2] = high /\ Len(LowFirst(n)) = 2
    BY <1>2
  <1>4. LowFirst(n) \in Seq(Byte)
    BY <1>1, <1>2
  <1>5. word(low, high) = n
    BY <1>1 DEF word, Byte
  <1> QED
    BY <1>3, <1>4, <1>5

LEMMA Numbers ==
  /\ \A n \in Byte : n \in Nat
  /\ \A n \in Word : n \in Nat /\ (n < 256 => n \in Byte)
  BY SMTT(60) DEF Byte, Word

\* u is s, of length k, and t, of length m, behind it.
Joint(u, s, t, k, m) ==
  /\ u \in Seq(Byte) /\ Len(u) = k + m
  /\ \A i \in 1 .. k : u[i] = s[i]
  /\ \A i \in 1 .. m : u[k + i] = t[i]

LEMMA Joined ==
  ASSUME NEW s \in Seq(Byte), NEW t \in Seq(Byte), NEW u, u = s \o t,
         NEW k \in Nat, Len(s) = k, NEW m \in Nat, Len(t) = m
  PROVE  Joint(u, s, t, k, m)
  <1>1. /\ u \in Seq(Byte) /\ Len(u) = Len(s) + Len(t)
        /\ \A i \in 1 .. Len(s) + Len(t) : u[i] = IF i <= Len(s) THEN s[i] ELSE t[i - Len(s)]
    BY ConcatProperties
  <1> QED
    BY <1>1 DEF Joint

LEMMA Single == ASSUME NEW a \in Byte PROVE <<a>> \in Seq(Byte) /\ Len(<<a>>) = 1 /\ <<a>>[1] = a
  OBVIOUS

LEMMA RequestFields ==
  ASSUME NEW r, WellFormed(r)
  PROVE  /\ r.c \in DOMAIN Ord /\ r.page \in Byte
         /\ r.offset \in Word /\ r.length \in Word /\ r.values \in Seq(Byte)
         /\ r = Request(r.c, r.page, r.offset, r.length, r.values)
  <1>1. r \in [c : DOMAIN Ord, page : Byte, offset : Word, length : Word, values : Seq(Byte)]
    BY SMT DEF WellFormed, Requests
  <1>2. /\ r.c \in DOMAIN Ord /\ r.page \in Byte
        /\ r.offset \in Word /\ r.length \in Word /\ r.values \in Seq(Byte)
    BY <1>1, SMT
  <1>3. r = Request(r.c, r.page, r.offset, r.length, r.values)
    BY <1>1, SMT DEF Request
  <1> QED
    BY <1>2, <1>3

\* Where the parameters of a request are in its bytes.
BytesOfWord(s, i, n) == word(s[i], s[i + 1]) = n

Laid(r, s) ==
  /\ s \in Seq(Byte) /\ Len(s) >= 1 /\ s[1] = Ord[r.c]
  /\ r.c \in {"A", "H", "h", "J", "j", "V"} => Len(s) = 1
  /\ r.c \in {"b", "d"} => Len(s) = 3 /\ s[3] = r.page
  /\ r.c = "P" => Len(s) = 2 /\ s[2] = Digit(r.page)
  /\ r.c = "p" => /\ Len(s) = 7 /\ s[3] = r.page
                  /\ BytesOfWord(s, 4, r.offset) /\ BytesOfWord(s, 6, r.length)
  /\ r.c = "T" => Len(s) = 7
  /\ r.c = "W" => IF IsMapPage(r.page)
                  THEN Len(s) = 4 /\ BytesOfWord(s, 2, r.offset) /\ s[4] = r.values[1]
                  ELSE Len(s) = 3 /\ s[2] = r.offset /\ s[3] = r.values[1]
  /\ r.c = "w" => /\ Len(s) = 7 + r.length /\ s[3] = r.page
                  /\ BytesOfWord(s, 4, r.offset) /\ BytesOfWord(s, 6, r.length)
  /\ r.c = "t" => Len(s) = 2 + CalibrationValues * BytesPerValue(r.page) /\ s[2] = r.page

LEMMA CodeByte == ASSUME NEW c \in DOMAIN Ord PROVE Ord[c] \in Byte
  BY Letters

\* The places where there are words.
LEMMA Places ==
  /\ 1 \in 1 .. 2 /\ 1 + 1 \in 1 .. 2 /\ 1 \in 1 .. 3 /\ 1 + 1 \in 1 .. 3
  /\ 3 \in 1 .. 6 /\ 3 + 1 \in 1 .. 6 /\ 5 \in 1 .. 6 /\ 5 + 1 \in 1 .. 6
  /\ 1 + (1 + 1) = (1 + 1) + 1 /\ 1 + (3 + 1) = (1 + 3) + 1 /\ 1 + (5 + 1) = (1 + 5) + 1
  /\ 1 \in Nat /\ 2 \in Nat /\ 4 \in Nat /\ 6 \in Nat /\ 0 \in Nat
  OBVIOUS

\* What p and w have in common.
Header(page, offset, length) == <<0, page>> \o LowFirst(offset) \o LowFirst(length)

LEMMA HeaderIs ==
  ASSUME NEW page \in Byte, NEW offset \in Word, NEW length \in Word,
         NEW h, h = Header(page, offset, length)
  PROVE  /\ h \in Seq(Byte) /\ Len(h) = 6 /\ h[2] = page
         /\ BytesOfWord(h, 3, offset) /\ BytesOfWord(h, 5, length)
  <1> DEFINE s == <<0, page>>
             o == LowFirst(offset)
             l == LowFirst(length)
             t == s \o o
  <1>1. s \in Seq(Byte) /\ Len(s) = 2 /\ s[2] = page
    BY SMT DEF Byte
  <1>2. /\ o \in Seq(Byte) /\ Len(o) = 2 /\ word(o[1], o[2]) = offset
        /\ l \in Seq(Byte) /\ Len(l) = 2 /\ word(l[1], l[2]) = length
    BY LowHigh
  <1>3. h = t \o l
    BY DEF Header
  <1> HIDE DEF s, o, l
  <1>4. Joint(t, s, o, 2, 2)
    BY <1>1, <1>2, Joined, Places, Zenon
  <1> HIDE DEF t
  <1>5. t \in Seq(Byte) /\ Len(t) = 4 /\ t[2] = page /\ t[3] = o[1] /\ t[4] = o[2]
    BY <1>1, <1>4, SMT DEF Joint
  <1>6. Joint(h, t, l, 4, 2)
    BY <1>2, <1>3, <1>5, Joined, Places, Zenon
  <1>7. h \in Seq(Byte) /\ Len(h) = 6 /\ h[2] = page /\ h[3] = o[1] /\ h[4] = o[2]
        /\ h[5] = l[1] /\ h[6] = l[2]
    BY <1>5, <1>6, SMT DEF Joint
  <1>8. 3 + 1 = 4 /\ 5 + 1 = 6
    OBVIOUS
  <1>9. BytesOfWord(h, 3, offset) /\ BytesOfWord(h, 5, length)
    BY <1>2, <1>7, <1>8, Zenon DEF BytesOfWord
  <1> QED
    BY <1>7, <1>9

\* A word keeps its place when more is put behind, and moves with what is put before.
LEMMA WordKept ==
  ASSUME NEW s, NEW u, NEW k, \A i \in 1 .. k : u[i] = s[i],
         NEW i \in 1 .. k, i + 1 \in 1 .. k, NEW n, BytesOfWord(s, i, n)
  PROVE  BytesOfWord(u, i, n)
  BY Zenon DEF BytesOfWord

LEMMA WordMoved ==
  ASSUME NEW s, NEW u, NEW k, \A i \in 1 .. k : u[1 + i] = s[i],
         NEW i \in 1 .. k, i + 1 \in 1 .. k, 1 + (i + 1) = (1 + i) + 1, NEW n, BytesOfWord(s, i, n)
  PROVE  BytesOfWord(u, 1 + i, n)
  <1>1. u[1 + i] = s[i] /\ u[(1 + i) + 1] = s[i + 1]
    <2>1. u[1 + (i + 1)] = s[i + 1]
      BY Zenon
    <2> QED
      BY <2>1, Zenon
  <1> QED
    BY <1>1, Zenon DEF BytesOfWord

LEMMA Layout == ASSUME NEW r, WellFormed(r) PROVE Laid(r, Bytes(r))
  <1> DEFINE a == Ord[r.c]
             s == Parameters(r)
             b == Bytes(r)
             page == r.page
             offset == r.offset
             length == r.length
             values == r.values
  <1>1. page \in Byte
    BY RequestFields
  <1>2. offset \in Word
    BY RequestFields
  <1>3. length \in Word
    BY RequestFields
  <1>4. values \in Seq(Byte)
    BY RequestFields
  <1>5. a \in Byte
    BY RequestFields, CodeByte
  <1>6. r.c \in {"A", "b", "d", "H", "h", "J", "j", "P", "p", "T", "t", "V", "W", "w"}
    BY RequestFields, Codes
  <1>7. b = <<a>> \o s
    BY DEF Bytes
  <1>8. 0 \in Byte
    BY SMT DEF Byte
  <1> HIDE DEF a, s, b, page, offset, length, values
  <1>9. ASSUME NEW m \in Nat, s \in Seq(Byte), Len(s) = m
        PROVE  /\ b \in Seq(Byte) /\ Len(b) = 1 + m /\ b[1] = a
               /\ \A i \in 1 .. m : b[1 + i] = s[i]
    <2>1. <<a>> \in Seq(Byte) /\ Len(<<a>>) = 1 /\ <<a>>[1] = a
      BY <1>5, Single
    <2>2. Joint(b, <<a>>, s, 1, m)
      BY <1>7, <1>9, <2>1, Joined, Places, Zenon
    <2>3. 1 \in 1 .. 1
      OBVIOUS
    <2> QED
      BY <2>1, <2>2, <2>3, Zenon DEF Joint
  <1>10. CASE r.c \in {"A", "H", "h", "J", "j", "V"}
    <2>1. s = <<>>
      BY <1>10, SMT DEF Parameters, s
    <2>2. s \in Seq(Byte) /\ Len(s) = 0
      BY <2>1, SMT
    <2>3. b \in Seq(Byte) /\ Len(b) = 1 + 0 /\ b[1] = a
      BY <1>9, <2>2, Places, Zenon
    <2>4. Len(b) = 1 /\ Len(b) >= 1
      BY <2>3
    <2> QED
      BY <1>10, <2>3, <2>4, Zenon DEF Laid, a, b
  <1>11. CASE r.c \in {"b", "d"}
    <2>1. r.c = "b" \/ r.c = "d"
      BY <1>11
    <2>2. s = <<0, page>>
      BY <2>1, Zenon DEF Parameters, s, page
    <2>3. s \in Seq(Byte) /\ Len(s) = 2 /\ s[2] = page
      BY <1>1, <1>8, <2>2, SMT
    <2>4. b \in Seq(Byte) /\ Len(b) = 1 + 2 /\ b[1] = a /\ \A i \in 1 .. 2 : b[1 + i] = s[i]
      BY <1>9, <2>3
    <2>5. b \in Seq(Byte) /\ Len(b) = 3 /\ Len(b) >= 1 /\ b[1] = a /\ b[3] = page
      BY <2>3, <2>4, SMT
    <2> QED
      BY <2>1, <2>5, Zenon DEF Laid, a, b, page
  <1>12. CASE r.c = "P"
    <2>1. s = <<Digit(page)>>
      BY <1>12, Zenon DEF Parameters, s, page
    <2>2. page < 16
      BY <1>12, Zenon DEF WellFormed, page
    <2>3. Digit(page) \in Byte
      BY <1>1, <2>2, SMT DEF Digit, Byte
    <2>4. s \in Seq(Byte) /\ Len(s) = 1 /\ s[1] = Digit(page)
      BY <2>1, <2>3, Single
    <2>5. b \in Seq(Byte) /\ Len(b) = 1 + 1 /\ b[1] = a /\ \A i \in 1 .. 1 : b[1 + i] = s[i]
      BY <1>9, <2>4
    <2>6. b \in Seq(Byte) /\ Len(b) = 2 /\ Len(b) >= 1 /\ b[1] = a /\ b[2] = s[1]
      BY <2>5, SMT
    <2> QED
      BY <1>12, <2>4, <2>6, Zenon DEF Laid, a, b, page
  <1>13. CASE r.c = "p"
    <2>1. s = Header(page, offset, length)
      BY <1>13, Zenon DEF Parameters, s, Header, page, offset, length
    <2>2. /\ s \in Seq(Byte) /\ Len(s) = 6 /\ s[2] = page
          /\ BytesOfWord(s, 3, offset) /\ BytesOfWord(s, 5, length)
      BY <1>1, <1>2, <1>3, <2>1, HeaderIs
    <2>3. b \in Seq(Byte) /\ Len(b) = 1 + 6 /\ b[1] = a /\ \A i \in 1 .. 6 : b[1 + i] = s[i]
      BY <1>9, <2>2
    <2>4. BytesOfWord(b, 1 + 3, offset) /\ BytesOfWord(b, 1 + 5, length)
      BY <2>2, <2>3, WordMoved, Places, Zenon
    <2>5. BytesOfWord(b, 4, offset) /\ BytesOfWord(b, 6, length)
      BY <2>4
    <2>6. Len(b) = 7 /\ Len(b) >= 1 /\ b[3] = page
      BY <2>2, <2>3, SMT
    <2> QED
      BY <1>13, <2>3, <2>5, <2>6, Zenon DEF Laid, a, b, page, offset, length
  <1>14. CASE r.c = "T"
    <2>1. s = <<0, 0, 0, 0, 0, 0>>
      BY <1>14, Zenon DEF Parameters, s
    <2>2. s \in Seq(Byte) /\ Len(s) = 6
      BY <1>8, <2>1, SMT
    <2>3. b \in Seq(Byte) /\ Len(b) = 1 + 6 /\ b[1] = a
      BY <1>9, <2>2, Places, Zenon
    <2>4. Len(b) = 7 /\ Len(b) >= 1
      BY <2>3
    <2> QED
      BY <1>14, <2>3, <2>4, Zenon DEF Laid, a, b
  <1>15. CASE r.c = "W"
    <2>1. Len(values) = 1 /\ (offset < 256 \/ IsMapPage(page))
      BY <1>15, Zenon DEF WellFormed, values, offset, page
    <2> DEFINE x == IF page \in DOMAIN MapTable THEN LowFirst(offset) ELSE <<offset>>
    <2>2. s = x \o values
      BY <1>15, Zenon DEF Parameters, s, page, offset, values
    <2>3. CASE IsMapPage(page)
      <3> DEFINE o == LowFirst(offset)
      <3>1. s = o \o values
        BY <2>2, <2>3, Zenon DEF IsMapPage
      <3>2. o \in Seq(Byte) /\ Len(o) = 2 /\ BytesOfWord(o, 1, offset)
        BY <1>2, LowHigh DEF BytesOfWord
      <3> HIDE DEF o
      <3>3. Joint(s, o, values, 2, 1)
        BY <1>4, <2>1, <3>1, <3>2, Joined, Places, Zenon
      <3>4. s \in Seq(Byte) /\ Len(s) = 3 /\ s[3] = values[1]
        BY <3>3, SMT DEF Joint
      <3>5. BytesOfWord(s, 1, offset)
        BY <3>2, <3>3, WordKept, Places, Zenon DEF Joint
      <3>6. b \in Seq(Byte) /\ Len(b) = 1 + 3 /\ b[1] = a /\ \A i \in 1 .. 3 : b[1 + i] = s[i]
        BY <1>9, <3>4
      <3>7. BytesOfWord(b, 1 + 1, offset)
        BY <3>5, <3>6, WordMoved, Places, Zenon
      <3>8. BytesOfWord(b, 2, offset)
        BY <3>7
      <3>9. Len(b) = 4 /\ Len(b) >= 1 /\ b[4] = values[1]
        BY <3>4, <3>6, SMT
      <3> QED
        BY <1>15, <2>3, <3>6, <3>8, <3>9, Zenon DEF Laid, a, b, page, offset, values
    <2>4. CASE ~ IsMapPage(page)
      <3>1. s = <<offset>> \o values
        BY <2>2, <2>4, Zenon DEF IsMapPage
      <3>2. offset \in Byte
        <4>1. offset < 256
          BY <2>1, <2>4
        <4> QED
          BY <1>2, <4>1, Numbers
      <3>3. <<offset>> \in Seq(Byte) /\ Len(<<offset>>) = 1 /\ <<offset>>[1] = offset
        BY <3>2, Single
      <3> DEFINE o == <<offset>>
      <3> HIDE DEF o
      <3>4. Joint(s, o, values, 1, 1)
        BY <1>4, <2>1, <3>1, <3>3, Joined, Places, Zenon DEF o
      <3>5. s \in Seq(Byte) /\ Len(s) = 2 /\ s[1] = o[1] /\ s[2] = values[1]
        BY <3>4, SMT DEF Joint
      <3>6. b \in Seq(Byte) /\ Len(b) = 1 + 2 /\ b[1] = a /\ \A i \in 1 .. 2 : b[1 + i] = s[i]
        BY <1>9, <3>5
      <3>7. Len(b) = 3 /\ Len(b) >= 1 /\ b[2] = s[1] /\ b[3] = s[2]
        BY <3>6, SMT
      <3>8. b[2] = offset /\ b[3] = values[1]
        BY <3>3, <3>5, <3>7, Zenon DEF o
      <3> QED
        BY <1>15, <2>4, <3>6, <3>7, <3>8, Zenon DEF Laid, a, b, page, offset, values
    <2> QED
      BY <2>3, <2>4
  <1>16. CASE r.c = "w"
    <2> DEFINE h == Header(page, offset, length)
    <2>1. s = h \o values
      BY <1>16, Zenon DEF Parameters, s, Header, page, offset, length, values
    <2>2. /\ h \in Seq(Byte) /\ Len(h) = 6 /\ h[2] = page
          /\ BytesOfWord(h, 3, offset) /\ BytesOfWord(h, 5, length)
      BY <1>1, <1>2, <1>3, HeaderIs
    <2>3. Len(values) = length
      BY <1>16, Zenon DEF WellFormed, values, length
    <2>4. length \in Nat
      BY <1>3, Numbers
    <2> HIDE DEF h
    <2>5. Joint(s, h, values, 6, length)
      BY <1>4, <2>1, <2>2, <2>3, <2>4, Joined, Places, ZenonT(60)
    <2>6. BytesOfWord(s, 3, offset) /\ BytesOfWord(s, 5, length)
      <3>1. \A i \in 1 .. 6 : s[i] = h[i]
        BY <2>5 DEF Joint
      <3>2. s[3] = h[3] /\ s[3 + 1] = h[3 + 1] /\ s[5] = h[5] /\ s[5 + 1] = h[5 + 1]
        BY <3>1, Places
      <3> QED
        BY <2>2, <3>2, Zenon DEF BytesOfWord
    <2>7. 6 + length \in Nat
      BY <2>4
    <2>8. /\ b \in Seq(Byte) /\ Len(b) = 1 + (6 + length) /\ b[1] = a
          /\ \A i \in 1 .. 6 + length : b[1 + i] = s[i]
      BY <1>9, <2>5, <2>7, Zenon DEF Joint
    <2>9. \A i \in 1 .. 6 : b[1 + i] = s[i]
      BY <2>4, <2>8
    <2>10. BytesOfWord(b, 1 + 3, offset) /\ BytesOfWord(b, 1 + 5, length)
      BY <2>6, <2>9, WordMoved, Places, Zenon
    <2>11. BytesOfWord(b, 4, offset) /\ BytesOfWord(b, 6, length)
      BY <2>10
    <2>12. Len(b) = 7 + length /\ Len(b) >= 1
      BY <2>4, <2>8
    <2>13. b[3] = page
      <3>1. b[3] = s[2] /\ s[2] = h[2]
        BY <2>5, <2>9, SMT DEF Joint
      <3> QED
        BY <2>2, <3>1
    <2> QED
      BY <1>16, <2>8, <2>11, <2>12, <2>13, Zenon DEF Laid, a, b, page, offset, length
  <1>17. CASE r.c = "t"
    <2> DEFINE m == CalibrationValues * BytesPerValue(page)
    <2>1. s = <<page>> \o values
      BY <1>17, Zenon DEF Parameters, s, page, values
    <2>2. Len(values) = m
      BY <1>17, Zenon DEF WellFormed, values, page
    <2>3. m \in Nat
      BY <1>4, <2>2
    <2>4. <<page>> \in Seq(Byte) /\ Len(<<page>>) = 1 /\ <<page>>[1] = page
      BY <1>1, Single
    <2> DEFINE o == <<page>>
    <2> HIDE DEF o, m
    <2>5. Joint(s, o, values, 1, m)
      BY <1>4, <2>1, <2>2, <2>3, <2>4, Joined, Places, Zenon DEF o
    <2>6. 1 + m \in Nat
      BY <2>3
    <2>7. /\ b \in Seq(Byte) /\ Len(b) = 1 + (1 + m) /\ b[1] = a
          /\ \A i \in 1 .. 1 + m : b[1 + i] = s[i]
      BY <1>9, <2>5, <2>6, Zenon DEF Joint
    <2>8. Len(b) = 2 + m /\ Len(b) >= 1 /\ b[2] = s[1] /\ s[1] = o[1]
      BY <2>3, <2>5, <2>7, SMT DEF Joint
    <2>9. b[2] = page
      BY <2>4, <2>8, Zenon DEF o
    <2> QED
      BY <1>17, <2>7, <2>8, <2>9, Zenon DEF Laid, a, b, page, m
  <1> QED
    BY <1>6, <1>10, <1>11, <1>12, <1>13, <1>14, <1>15, <1>16, <1>17

(***************************************************************************)
(* The bytes of several requests                                           *)
(***************************************************************************)
Regular == {r \in Requests : WellFormed(r)}

LEMMA BytesAre ==
  ASSUME NEW r \in Regular
  PROVE  /\ WellFormed(r) /\ r \in Requests
         /\ Bytes(r) \in Seq(Byte) /\ Len(Bytes(r)) \in Nat /\ Len(Bytes(r)) >= 1
         /\ Bytes(r)[1] = Ord[r.c]
  <1>1. WellFormed(r) /\ r \in Requests
    BY DEF Regular
  <1>2. Laid(r, Bytes(r))
    BY <1>1, Layout
  <1>3. Bytes(r) \in Seq(Byte) /\ Len(Bytes(r)) >= 1 /\ Bytes(r)[1] = Ord[r.c]
    BY <1>2, Zenon DEF Laid
  <1>4. Len(Bytes(r)) \in Nat
    BY <1>3, LenProperties
  <1> QED
    BY <1>1, <1>3, <1>4

\* The bytes b are in s behind its first k.
LiesAt(s, k, b) == \A j \in 1 .. Len(b) : s[k + j] = b[j]

\* s is the bytes of the requests q, one behind the other: the i-th ends at cut[i].
Cuts(s, q, cut) ==
  /\ cut \in [0 .. Len(q) -> Nat]
  /\ cut[0] = 0 /\ cut[Len(q)] = Len(s)
  /\ \A i, j \in 0 .. Len(q) : i <= j => cut[i] <= cut[j]
  /\ \A i \in 1 .. Len(q) : /\ cut[i] = cut[i - 1] + Len(Bytes(q[i]))
                            /\ LiesAt(s, cut[i - 1], Bytes(q[i]))

Splits(s, q) == \E cut : Cuts(s, q, cut)

LEMMA SplitsNone == Splits(<<>>, <<>>)
  <1> DEFINE cut == [i \in 0 .. 0 |-> 0]
  <1>1. Len(<<>>) = 0
    OBVIOUS
  <1>2. Cuts(<<>>, <<>>, cut)
    BY <1>1 DEF Cuts
  <1> QED
    BY <1>2 DEF Splits

\* s without its first k bytes.
LEMMA Beyond ==
  ASSUME NEW s \in Seq(Byte), NEW k \in Nat, k <= Len(s), NEW t, t = SubSeq(s, k + 1, Len(s))
  PROVE  /\ t \in Seq(Byte) /\ Len(t) = Len(s) - k
         /\ \A j \in 1 .. Len(s) - k : t[j] = s[k + j]
  <1>1. Len(s) \in Nat
    BY LenProperties
  <1>2. \A i \in k + 1 .. Len(s) : s[i] \in Byte
    BY <1>1, ElementOfSeq
  <1>3. /\ t \in Seq(Byte)
        /\ Len(t) = IF k + 1 <= Len(s) THEN Len(s) - (k + 1) + 1 ELSE 0
        /\ \A i \in 1 .. Len(s) - (k + 1) + 1 : t[i] = s[(k + 1) + i - 1]
    BY <1>1, <1>2, SubSeqProperties
  <1> DEFINE n == Len(s)
  <1> HIDE DEF n
  <1>4. Len(t) = n - k
    BY <1>1, <1>3 DEF n
  <1>5. ASSUME NEW j \in 1 .. n - k PROVE t[j] = s[k + j]
    <2>1. j \in 1 .. n - (k + 1) + 1 /\ (k + 1) + j - 1 = k + j
      BY <1>1 DEF n
    <2> QED
      BY <1>3, <2>1 DEF n
  <1> QED
    BY <1>3, <1>4, <1>5 DEF n

LEMMA SplitsHead ==
  ASSUME NEW s \in Seq(Byte), NEW q \in Seq(Regular), q # <<>>, Splits(s, q)
  PROVE  /\ Len(Bytes(Head(q))) <= Len(s)
         /\ LiesAt(s, 0, Bytes(Head(q)))
         /\ Splits(SubSeq(s, Len(Bytes(Head(q))) + 1, Len(s)), Tail(q))
  <1> DEFINE n == Len(q)
             b == Bytes(q[1])
             k == Len(b)
             t == SubSeq(s, k + 1, Len(s))
  <1>1. PICK cut : Cuts(s, q, cut)
    BY DEF Splits
  <1>2. n \in Nat /\ n >= 1 /\ Len(s) \in Nat
    BY EmptySeq, LenProperties
  <1>3. /\ Head(q) = q[1] /\ Tail(q) \in Seq(Regular) /\ Len(Tail(q)) = n - 1
        /\ \A i \in 1 .. n - 1 : Tail(q)[i] = q[i + 1]
    BY HeadTailProperties
  <1>4. q[1] \in Regular
    BY <1>2, ElementOfSeq
  <1>5. b \in Seq(Byte) /\ k \in Nat
    BY <1>4, BytesAre
  <1>6. /\ cut \in [0 .. n -> Nat] /\ cut[0] = 0 /\ cut[n] = Len(s)
        /\ \A i, j \in 0 .. n : i <= j => cut[i] <= cut[j]
        /\ \A i \in 1 .. n : /\ cut[i] = cut[i - 1] + Len(Bytes(q[i]))
                             /\ LiesAt(s, cut[i - 1], Bytes(q[i]))
    BY <1>1 DEF Cuts
  <1>7. cut[1] = cut[1 - 1] + k /\ LiesAt(s, cut[1 - 1], b)
    BY <1>2, <1>6
  <1>8. cut[1] = k /\ LiesAt(s, 0, b)
    <2>1. 1 - 1 = 0
      OBVIOUS
    <2> QED
      BY <1>5, <1>6, <1>7, <2>1
  <1>9. k <= Len(s)
    <2>1. 1 \in 0 .. n /\ n \in 0 .. n /\ 1 <= n
      BY <1>2
    <2> QED
      BY <1>6, <1>8, <2>1
  <1>10. /\ t \in Seq(Byte) /\ Len(t) = Len(s) - k
         /\ \A j \in 1 .. Len(s) - k : t[j] = s[k + j]
    BY <1>5, <1>9, Beyond
  <1> DEFINE rest == [i \in 0 .. n - 1 |-> cut[i + 1] - k]
  <1> HIDE DEF b, k, t, n
  <1>11. \A i \in 0 .. n - 1 : i + 1 \in 0 .. n /\ cut[i + 1] \in Nat /\ cut[i + 1] >= k
    <2> TAKE i \in 0 .. n - 1
    <2>1. i + 1 \in 0 .. n /\ 1 \in 0 .. n /\ 1 <= i + 1
      BY <1>2
    <2> QED
      BY <1>6, <1>8, <2>1
  <1>12. rest \in [0 .. n - 1 -> Nat]
    BY <1>5, <1>11
  <1>13. rest[0] = 0 /\ rest[n - 1] = Len(t)
    <2>1. 0 \in 0 .. n - 1 /\ n - 1 \in 0 .. n - 1 /\ 0 + 1 = 1 /\ (n - 1) + 1 = n
      BY <1>2
    <2>2. rest[0] = cut[0 + 1] - k /\ rest[n - 1] = cut[(n - 1) + 1] - k
      BY <2>1
    <2>3. cut[0 + 1] = k /\ cut[(n - 1) + 1] = Len(s)
      BY <1>6, <1>8, <2>1
    <2> QED
      BY <1>5, <1>10, <2>2, <2>3
  <1>14. ASSUME NEW i \in 0 .. n - 1, NEW j \in 0 .. n - 1, i <= j
         PROVE  rest[i] <= rest[j]
    <2>1. cut[i + 1] <= cut[j + 1]
      <3>1. i + 1 \in 0 .. n /\ j + 1 \in 0 .. n /\ i + 1 <= j + 1
        BY <1>2, <1>14
      <3> QED
        BY <1>6, <3>1
    <2>2. rest[i] = cut[i + 1] - k /\ rest[j] = cut[j + 1] - k
      OBVIOUS
    <2> QED
      BY <1>5, <1>11, <2>1, <2>2
  <1>15. ASSUME NEW i \in 1 .. n - 1
         PROVE  /\ rest[i] = rest[i - 1] + Len(Bytes(Tail(q)[i]))
                /\ LiesAt(t, rest[i - 1], Bytes(Tail(q)[i]))
    <2> DEFINE c == Bytes(q[i + 1])
               m == cut[i]
    <2>1. /\ i + 1 \in 1 .. n /\ (i + 1) - 1 = i /\ i \in 0 .. n - 1
          /\ i - 1 \in 0 .. n - 1 /\ (i - 1) + 1 = i /\ i + 1 \in 0 .. n /\ i \in Int
      BY <1>2
    <2>2. Tail(q)[i] = q[i + 1]
      BY <1>3 DEF n
    <2>3. cut[i + 1] = m + Len(c) /\ LiesAt(s, m, c)
      BY <1>6, <2>1
    <2>4. rest[i] = cut[i + 1] - k /\ rest[i - 1] = m - k
      BY <2>1
    <2>5. c \in Seq(Byte) /\ Len(c) \in Nat
      <3>1. q[i + 1] \in Regular
        BY <2>1, ElementOfSeq DEF n
      <3> QED
        BY <3>1, BytesAre
    <2>6. m \in Nat /\ m >= k /\ cut[i + 1] <= Len(s)
      <3>1. m \in Nat /\ m >= k
        BY <1>11, <2>1
      <3>2. cut[i + 1] <= cut[n]
        BY <1>2, <1>6, <2>1
      <3> QED
        BY <1>6, <3>1, <3>2
    <2> HIDE DEF rest, c, m
    <2>7. rest[i] = rest[i - 1] + Len(c)
      BY <1>5, <2>3, <2>4, <2>5, <2>6
    <2>8. ASSUME NEW j \in 1 .. Len(c) PROVE t[rest[i - 1] + j] = c[j]
      <3>1. s[m + j] = c[j]
        BY <2>3 DEF LiesAt
      <3>2. (m - k) + j \in 1 .. Len(s) - k /\ k + ((m - k) + j) = m + j
        BY <1>2, <1>5, <2>3, <2>5, <2>6
      <3>3. t[(m - k) + j] = s[m + j]
        BY <1>10, <3>2
      <3> QED
        BY <2>4, <3>1, <3>3
    <2> QED
      BY <2>2, <2>7, <2>8 DEF LiesAt, c
  <1>16. Cuts(t, Tail(q), rest)
    BY <1>3, <1>12, <1>13, <1>14, <1>15, Zenon DEF Cuts, n
  <1>17. Splits(t, Tail(q))
    BY <1>16 DEF Splits
  <1> QED
    BY <1>3, <1>8, <1>9, <1>17 DEF b, k, t

LEMMA SplitsAppend ==
  ASSUME NEW s \in Seq(Byte), NEW q \in Seq(Regular), NEW r \in Regular, Splits(s, q)
  PROVE  Splits(s \o Bytes(r), Append(q, r))
  <1> DEFINE n == Len(q)
             b == Bytes(r)
             t == s \o b
             p == Append(q, r)
  <1>1. PICK cut : Cuts(s, q, cut)
    BY DEF Splits
  <1>2. n \in Nat /\ Len(s) \in Nat
    BY LenProperties
  <1>3. b \in Seq(Byte) /\ Len(b) \in Nat
    BY BytesAre
  <1>4. /\ p \in Seq(Regular) /\ Len(p) = n + 1
        /\ \A i \in 1 .. n : p[i] = q[i]
        /\ p[n + 1] = r
    BY AppendProperties
  <1>5. Joint(t, s, b, Len(s), Len(b))
    BY <1>2, <1>3, Joined, Zenon
  <1>6. /\ cut \in [0 .. n -> Nat] /\ cut[0] = 0 /\ cut[n] = Len(s)
        /\ \A i, j \in 0 .. n : i <= j => cut[i] <= cut[j]
        /\ \A i \in 1 .. n : /\ cut[i] = cut[i - 1] + Len(Bytes(q[i]))
                             /\ LiesAt(s, cut[i - 1], Bytes(q[i]))
    BY <1>1 DEF Cuts
  <1> DEFINE all == [i \in 0 .. n + 1 |-> IF i <= n THEN cut[i] ELSE Len(s) + Len(b)]
  <1> HIDE DEF n, b, t, p
  <1>7. \A i \in 0 .. n : all[i] = cut[i] /\ cut[i] \in Nat /\ cut[i] <= Len(s)
    <2> TAKE i \in 0 .. n
    <2>1. i \in 0 .. n + 1 /\ i <= n /\ n \in 0 .. n
      BY <1>2
    <2> QED
      BY <1>6, <2>1
  <1>8. all[n + 1] = Len(s) + Len(b)
    BY <1>2
  <1>9. all \in [0 .. n + 1 -> Nat]
    BY <1>2, <1>3, <1>6
  <1> HIDE DEF all
  <1>10. all[0] = 0 /\ all[n + 1] = Len(t)
    <2>1. 0 \in 0 .. n
      BY <1>2
    <2>2. all[0] = 0
      BY <1>6, <1>7, <2>1
    <2> QED
      BY <1>5, <1>8, <2>2 DEF Joint
  <1>11. ASSUME NEW i \in 0 .. n + 1, NEW j \in 0 .. n + 1, i <= j
         PROVE  all[i] <= all[j]
    <2>1. CASE j <= n
      <3>1. i \in 0 .. n /\ j \in 0 .. n
        BY <1>2, <1>11, <2>1
      <3> QED
        BY <1>6, <1>7, <1>11, <3>1
    <2>2. CASE j = n + 1 /\ i <= n
      <3>1. i \in 0 .. n
        BY <1>2, <2>2
      <3>2. all[i] \in Nat /\ all[i] <= Len(s)
        BY <1>7, <3>1
      <3> QED
        BY <1>2, <1>3, <1>8, <2>2, <3>2
    <2>3. CASE j = n + 1 /\ i = n + 1
      BY <1>2, <1>3, <1>8, <2>3
    <2> QED
      BY <1>2, <1>11, <2>1, <2>2, <2>3
  <1>12. ASSUME NEW i \in 1 .. n + 1
         PROVE  /\ all[i] = all[i - 1] + Len(Bytes(p[i]))
                /\ LiesAt(t, all[i - 1], Bytes(p[i]))
    <2>1. CASE i <= n
      <3>1. i \in 1 .. n /\ i \in 0 .. n /\ i - 1 \in 0 .. n
        BY <1>2, <2>1
      <3> DEFINE c == Bytes(q[i])
                 m == cut[i - 1]
      <3>2. p[i] = q[i] /\ all[i] = cut[i] /\ all[i - 1] = m
        BY <1>4, <1>7, <3>1
      <3>3. cut[i] = m + Len(c) /\ LiesAt(s, m, c)
        BY <1>6, <3>1
      <3>4. Len(c) \in Nat
        <4>1. q[i] \in Regular
          BY <3>1, ElementOfSeq DEF n
        <4> QED
          BY <4>1, BytesAre
      <3>5. m \in Nat /\ cut[i] <= Len(s)
        BY <1>7, <3>1
      <3> HIDE DEF c, m
      <3>6. ASSUME NEW j \in 1 .. Len(c) PROVE t[m + j] = c[j]
        <4>1. m + j \in 1 .. Len(s)
          BY <1>2, <3>3, <3>4, <3>5
        <4>2. t[m + j] = s[m + j]
          BY <1>5, <4>1 DEF Joint
        <4> QED
          BY <3>3, <4>2 DEF LiesAt
      <3> QED
        BY <3>2, <3>3, <3>6 DEF LiesAt, c
    <2>2. CASE i = n + 1
      <3>1. n \in 0 .. n /\ i - 1 = n
        BY <1>2, <2>2
      <3>2. p[i] = r /\ all[i - 1] = Len(s)
        BY <1>4, <1>6, <1>7, <2>2, <3>1
      <3>3. LiesAt(t, Len(s), b)
        BY <1>5, Zenon DEF Joint, LiesAt
      <3> QED
        BY <1>8, <2>2, <3>2, <3>3 DEF b
    <2> QED
      BY <1>2, <2>1, <2>2
  <1>13. Cuts(t, p, all)
    BY <1>4, <1>9, <1>10, <1>11, <1>12, Zenon DEF Cuts
  <1> QED
    BY <1>13 DEF Splits, t, p, b

LEMMA SplitsEnd ==
  ASSUME NEW s \in Seq(Byte), Splits(s, <<>>)
  PROVE  s = <<>>
  <1>1. PICK cut : Cuts(s, <<>>, cut)
    BY DEF Splits
  <1>2. Len(<<>>) = 0
    OBVIOUS
  <1>3. Len(s) = 0
    BY <1>1, <1>2, Zenon DEF Cuts
  <1> QED
    BY <1>3, EmptySeq

(***************************************************************************)
(* What has been read of a request, what has arrived and what is on its    *)
(* way                                                                     *)
(***************************************************************************)
LEMMA FirstOf ==
  ASSUME NEW b \in Seq(Byte), NEW n \in 0 .. Len(b), NEW t, t = SubSeq(b, 1, n)
  PROVE  /\ t \in Seq(Byte) /\ Len(t) = n
         /\ \A j \in 1 .. n : t[j] = b[j]
  <1>1. Len(b) \in Nat
    BY LenProperties
  <1>2. \A i \in 1 .. n : b[i] \in Byte
    BY <1>1, ElementOfSeq
  <1>3. n \in Int /\ 1 \in Int
    BY <1>1
  <1>4. /\ t \in Seq(Byte)
        /\ Len(t) = IF 1 <= n THEN n - 1 + 1 ELSE 0
        /\ \A i \in 1 .. n - 1 + 1 : t[i] = b[1 + i - 1]
    BY <1>2, <1>3, SubSeqProperties
  <1> QED
    BY <1>1, <1>3, <1>4

LEMMA Regroup ==
  ASSUME NEW a \in Seq(Byte), NEW b \in Seq(Byte), NEW c \in Seq(Byte)
  PROVE  (a \o b) \o c = a \o (b \o c)
  BY ConcatAssociative

\* Of b, the first n bytes move over.
LEMMA Regrouped ==
  ASSUME NEW a \in Seq(Byte), NEW b \in Seq(Byte), NEW c \in Seq(Byte), NEW n \in 0 .. Len(b)
  PROVE  /\ SubSeq(b, n + 1, Len(b)) \in Seq(Byte)
         /\ a \o SubSeq(b, 1, n) \in Seq(Byte)
         /\ Len(a \o SubSeq(b, 1, n)) = Len(a) + n
         /\ (a \o SubSeq(b, 1, n)) \o (SubSeq(b, n + 1, Len(b)) \o c) = a \o (b \o c)
  <1> DEFINE f == SubSeq(b, 1, n)
             t == SubSeq(b, n + 1, Len(b))
  <1>1. Len(b) \in Nat
    BY LenProperties
  <1>2. f \in Seq(Byte) /\ Len(f) = n
    BY FirstOf
  <1>3. t \in Seq(Byte)
    <2>1. n \in Nat /\ n <= Len(b)
      BY <1>1
    <2> QED
      BY <2>1, Beyond
  <1>4. f \o t = b
    <2>1. 1 \in 1 .. Len(b) + 1 /\ n \in 1 - 1 .. Len(b) /\ Len(b) \in n .. Len(b)
      BY <1>1
    <2>2. f \o t = SubSeq(b, 1, Len(b))
      BY <2>1, ConcatAdjacentSubSeq
    <2> QED
      BY <2>2, SubSeqFull
  <1> HIDE DEF f, t
  <1>5. a \o f \in Seq(Byte) /\ Len(a \o f) = Len(a) + n
    BY <1>2, ConcatProperties
  <1>6. (a \o f) \o (t \o c) = a \o (f \o (t \o c))
    <2>1. t \o c \in Seq(Byte)
      BY <1>3, ConcatProperties
    <2> QED
      <3> HIDE DEF f, t
      <3> DEFINE u == t \o c
      <3>1. f \in Seq(Byte) /\ u \in Seq(Byte)
        BY <1>2, <2>1
      <3> HIDE DEF u
      <3>2. (a \o f) \o u = a \o (f \o u)
        BY <3>1, Regroup, ZenonT(60)
      <3> QED
        BY <3>2 DEF u
  <1>7. f \o (t \o c) = b \o c
    <2>1. (f \o t) \o c = f \o (t \o c)
      <3>1. f \in Seq(Byte) /\ t \in Seq(Byte)
        BY <1>2, <1>3
      <3> QED
        BY <3>1, Regroup, ZenonT(60)
    <2> QED
      BY <1>4, <2>1
  <1> QED
    BY <1>3, <1>5, <1>6, <1>7 DEF f, t

\* a is what has been read of the first of the requests q, b has arrived and c is
\* on its way.
InTheMidst(a, b, c, q) ==
  /\ a \in Seq(Byte) /\ b \in Seq(Byte) /\ c \in Seq(Byte)
  /\ q \in Seq(Regular)
  /\ Splits(a \o (b \o c), q)

LEMMA Arrived ==
  ASSUME NEW a, NEW b, NEW c, NEW q, InTheMidst(a, b, c, q), NEW n \in 0 .. Len(c)
  PROVE  InTheMidst(a, b \o SubSeq(c, 1, n), SubSeq(c, n + 1, Len(c)), q)
  <1> DEFINE f == SubSeq(c, 1, n)
             t == SubSeq(c, n + 1, Len(c))
  <1>1. /\ a \in Seq(Byte) /\ b \in Seq(Byte) /\ c \in Seq(Byte)
        /\ q \in Seq(Regular) /\ Splits(a \o (b \o c), q)
    BY DEF InTheMidst
  <1>2. <<>> \in Seq(Byte)
    OBVIOUS
  <1>3. /\ t \in Seq(Byte) /\ b \o f \in Seq(Byte)
        /\ (b \o f) \o (t \o <<>>) = b \o (c \o <<>>)
    BY <1>1, <1>2, Regrouped, ZenonT(60)
  <1> HIDE DEF f, t
  <1>4. (b \o f) \o t = b \o c
    <2>1. t \o <<>> = t /\ c \o <<>> = c
      BY <1>1, <1>3, ConcatEmptySeq
    <2> QED
      BY <1>3, <2>1
  <1> QED
    BY <1>1, <1>3, <1>4, Zenon DEF InTheMidst, f, t

LEMMA RequestWaits ==
  ASSUME NEW a, NEW b, NEW c, NEW q, InTheMidst(a, b, c, q), q # <<>>
  PROVE  Head(q) \in Regular /\ Len(Bytes(Head(q))) <= Len(a) + (Len(b) + Len(c))
  <1>1. /\ a \in Seq(Byte) /\ b \in Seq(Byte) /\ c \in Seq(Byte)
        /\ q \in Seq(Regular) /\ Splits(a \o (b \o c), q)
    BY DEF InTheMidst
  <1>2. b \o c \in Seq(Byte) /\ Len(b \o c) = Len(b) + Len(c)
    BY <1>1, ConcatProperties
  <1>3. a \o (b \o c) \in Seq(Byte) /\ Len(a \o (b \o c)) = Len(a) + Len(b \o c)
    BY <1>1, <1>2, ConcatProperties
  <1>4. Len(Bytes(Head(q))) <= Len(a \o (b \o c))
    BY <1>1, <1>3, SplitsHead
  <1> QED
    BY <1>1, <1>2, <1>3, <1>4, HeadTailProperties

LEMMA NothingOwed ==
  ASSUME NEW a, NEW b, NEW c, InTheMidst(a, b, c, <<>>)
  PROVE  a = <<>> /\ b = <<>> /\ c = <<>>
  <1>1. /\ a \in Seq(Byte) /\ b \in Seq(Byte) /\ c \in Seq(Byte) /\ Splits(a \o (b \o c), <<>>)
    BY DEF InTheMidst
  <1>2. b \o c \in Seq(Byte)
    BY <1>1, ConcatProperties
  <1>3. a \o (b \o c) \in Seq(Byte)
    BY <1>1, <1>2, ConcatProperties
  <1>4. a \o (b \o c) = <<>>
    BY <1>1, <1>3, SplitsEnd
  <1>5. a = <<>> /\ b \o c = <<>>
    BY <1>1, <1>2, <1>4, ConcatEqualIffEmpty
  <1> QED
    BY <1>1, <1>5, ConcatEqualIffEmpty

\* n more bytes of the request are read: they are the next of its bytes, and after
\* the last of them the next request begins.
LEMMA Reading ==
  ASSUME NEW a, NEW b, NEW c, NEW q, InTheMidst(a, b, c, q), q # <<>>,
         NEW n \in 0 .. Len(b), Len(a) + n <= Len(Bytes(Head(q)))
  PROVE  /\ \A j \in 1 .. n : b[j] = Bytes(Head(q))[Len(a) + j]
         /\ InTheMidst(a \o SubSeq(b, 1, n), SubSeq(b, n + 1, Len(b)), c, q)
         /\ Len(a \o SubSeq(b, 1, n)) = Len(a) + n
         /\ Len(a) + n = Len(Bytes(Head(q))) =>
                InTheMidst(<<>>, SubSeq(b, n + 1, Len(b)), c, Tail(q))
  <1> DEFINE s == a \o (b \o c)
             h == Bytes(Head(q))
             d == a \o SubSeq(b, 1, n)
             t == SubSeq(b, n + 1, Len(b))
             u == t \o c
  <1>1. /\ a \in Seq(Byte) /\ b \in Seq(Byte) /\ c \in Seq(Byte)
        /\ q \in Seq(Regular) /\ Splits(s, q)
    BY DEF InTheMidst
  <1>2. Len(a) \in Nat /\ Len(b) \in Nat /\ Len(c) \in Nat
    BY <1>1, LenProperties
  <1>3. t \in Seq(Byte) /\ d \in Seq(Byte) /\ Len(d) = Len(a) + n /\ d \o u = s
    <2>1. a \in Seq(Byte) /\ b \in Seq(Byte) /\ c \in Seq(Byte)
      BY <1>1
    <2> QED
      BY <2>1, Regrouped, ZenonT(60)
  <1>4. InTheMidst(d, t, c, q)
    BY <1>1, <1>3 DEF InTheMidst
  <1>5. Joint(b \o c, b, c, Len(b), Len(c))
    BY <1>1, <1>2, Joined, Zenon
  <1> DEFINE m == Len(b) + Len(c)
  <1>6. b \o c \in Seq(Byte) /\ Len(b \o c) = m /\ m \in Nat
    BY <1>2, <1>5 DEF Joint
  <1>7. Joint(s, a, b \o c, Len(a), m)
    BY <1>1, <1>2, <1>6, Joined, Zenon
  <1>8. s \in Seq(Byte)
    BY <1>7 DEF Joint
  <1>9. Len(h) <= Len(s) /\ LiesAt(s, 0, h) /\ Splits(SubSeq(s, Len(h) + 1, Len(s)), Tail(q))
    BY <1>1, <1>8, SplitsHead
  <1>10. ASSUME NEW j \in 1 .. n PROVE b[j] = h[Len(a) + j]
    <2>1. j \in 1 .. Len(b) /\ j \in 1 .. m
      BY <1>2
    <2>2. s[Len(a) + j] = b[j]
      <3>1. s[Len(a) + j] = (b \o c)[j]
        BY <1>7, <2>1, Zenon DEF Joint
      <3>2. (b \o c)[j] = b[j]
        BY <1>5, <2>1, Zenon DEF Joint
      <3> QED
        BY <3>1, <3>2
    <2>3. Len(a) + j \in 1 .. Len(h) /\ 0 + (Len(a) + j) = Len(a) + j
      <3>1. Len(h) \in Nat
        <4>1. Head(q) \in Regular
          BY <1>1, HeadTailProperties
        <4> QED
          BY <4>1, BytesAre
      <3> HIDE DEF h
      <3>2. Len(a) + n <= Len(h)
        BY DEF h
      <3> QED
        BY <1>2, <2>1, <3>1, <3>2
    <2>4. s[0 + (Len(a) + j)] = h[Len(a) + j]
      BY <1>9, <2>3, Zenon DEF LiesAt
    <2> QED
      BY <2>2, <2>3, <2>4
  <1>11. ASSUME Len(a) + n = Len(h)
         PROVE  InTheMidst(<<>>, t, c, Tail(q))
    <2>1. SubSeq(s, Len(h) + 1, Len(s)) = u
      <3> HIDE DEF s, h, d, t
      <3>1. u \in Seq(Byte) /\ Len(d) \in Nat /\ Len(u) \in Nat
        BY <1>1, <1>2, <1>3, ConcatProperties, LenProperties
      <3> HIDE DEF u
      <3>2. Joint(s, d, u, Len(d), Len(u))
        BY <1>3, <3>1, Joined, Zenon
      <3> DEFINE v == SubSeq(s, Len(d) + 1, Len(s))
      <3>3. s \in Seq(Byte) /\ Len(s) = Len(d) + Len(u) /\ \A i \in 1 .. Len(u) : s[Len(d) + i] = u[i]
        BY <3>2, Zenon DEF Joint
      <3>4. Len(d) <= Len(s)
        BY <3>1, <3>3
      <3>5. /\ v \in Seq(Byte) /\ Len(v) = Len(s) - Len(d)
            /\ \A j \in 1 .. Len(s) - Len(d) : v[j] = s[Len(d) + j]
        BY <3>1, <3>3, <3>4, Beyond
      <3>6. Len(v) = Len(u) /\ Len(s) - Len(d) = Len(u)
        BY <3>1, <3>3, <3>5
      <3> HIDE DEF v
      <3>7. v = u
        BY <3>1, <3>3, <3>5, <3>6, SeqEqual
      <3> QED
        BY <1>3, <1>11, <3>7 DEF v
    <2>2. <<>> \o u = u /\ <<>> \in Seq(Byte)
      <3>1. u \in Seq(Byte)
        BY <1>1, <1>3, ConcatProperties
      <3> QED
        BY <3>1, ConcatEmptySeq
    <2>3. Tail(q) \in Seq(Regular)
      BY <1>1, HeadTailProperties
    <2> QED
      BY <1>1, <1>3, <1>9, <2>1, <2>2, <2>3, Zenon DEF InTheMidst
  <1> QED
    BY <1>3, <1>4, <1>10, <1>11

LEMMA AnotherSent ==
  ASSUME NEW a, NEW b, NEW c, NEW q, InTheMidst(a, b, c, q), NEW r \in Regular
  PROVE  InTheMidst(a, b, c \o Bytes(r), Append(q, r))
  <1> DEFINE d == Bytes(r)
             t == b \o c
             u == c \o d
  <1>1. a \in Seq(Byte) /\ b \in Seq(Byte) /\ c \in Seq(Byte)
    BY DEF InTheMidst
  <1>2. q \in Seq(Regular) /\ Splits(a \o t, q)
    BY DEF InTheMidst
  <1>3. d \in Seq(Byte)
    BY BytesAre
  <1>4. t \in Seq(Byte) /\ u \in Seq(Byte)
    BY <1>1, <1>3, ConcatProperties
  <1> HIDE DEF d
  <1>5. t \o d = b \o u
    BY <1>1, <1>3, Regroup
  <1> HIDE DEF t, u
  <1>6. (a \o t) \o d = a \o (t \o d)
    BY <1>1, <1>3, <1>4, Regroup, SMTT(60)
  <1>7. a \o t \in Seq(Byte)
    BY <1>1, <1>4, ConcatProperties
  <1>8. Splits((a \o t) \o d, Append(q, r))
    BY <1>2, <1>7, SplitsAppend DEF d
  <1>9. Append(q, r) \in Seq(Regular)
    BY <1>2, AppendProperties
  <1> QED
    BY <1>1, <1>4, <1>5, <1>6, <1>8, <1>9, Zenon DEF InTheMidst, u, d

LEMMA Midst ==
  ASSUME NEW a, NEW b, NEW c, NEW q, InTheMidst(a, b, c, q)
  PROVE  /\ a \in Seq(Byte) /\ b \in Seq(Byte) /\ c \in Seq(Byte) /\ q \in Seq(Regular)
         /\ Len(a) \in Nat /\ Len(b) \in Nat /\ Len(c) \in Nat
  BY LenProperties DEF InTheMidst

\* k bytes of the first request have been read.
Onward(k, b, c, q) == \E a : Len(a) = k /\ InTheMidst(a, b, c, q)

LEMMA ReadOn ==
  ASSUME NEW k, NEW b, NEW c, NEW q, Onward(k, b, c, q), q # <<>>,
         NEW n \in 0 .. Len(b), k + n <= Len(Bytes(Head(q)))
  PROVE  /\ Onward(k + n, SubSeq(b, n + 1, Len(b)), c, q)
         /\ \A j \in 1 .. n : b[j] = Bytes(Head(q))[k + j]
         /\ k + n = Len(Bytes(Head(q))) => Onward(0, SubSeq(b, n + 1, Len(b)), c, Tail(q))
  <1>1. PICK a : Len(a) = k /\ InTheMidst(a, b, c, q)
    BY DEF Onward
  <1>2. /\ \A j \in 1 .. n : b[j] = Bytes(Head(q))[Len(a) + j]
        /\ InTheMidst(a \o SubSeq(b, 1, n), SubSeq(b, n + 1, Len(b)), c, q)
        /\ Len(a \o SubSeq(b, 1, n)) = Len(a) + n
        /\ Len(a) + n = Len(Bytes(Head(q))) =>
                InTheMidst(<<>>, SubSeq(b, n + 1, Len(b)), c, Tail(q))
    BY <1>1, Reading
  <1>3. Len(<<>>) = 0
    OBVIOUS
  <1> QED
    BY <1>1, <1>2, <1>3, Zenon DEF Onward

LEMMA OnwardTypes ==
  ASSUME NEW k, NEW b, NEW c, NEW q, Onward(k, b, c, q)
  PROVE  /\ b \in Seq(Byte) /\ c \in Seq(Byte) /\ q \in Seq(Regular)
         /\ k \in Nat /\ Len(b) \in Nat /\ Len(c) \in Nat
         /\ q # <<>> => Head(q) \in Regular
  <1>1. PICK a : Len(a) = k /\ InTheMidst(a, b, c, q)
    BY DEF Onward
  <1>2. q # <<>> => Head(q) \in Regular
    BY <1>1, Midst, HeadTailProperties
  <1> QED
    BY <1>1, <1>2, Midst

LEMMA OnwardSend ==
  ASSUME NEW k, NEW b, NEW c, NEW q, Onward(k, b, c, q), NEW r \in Regular
  PROVE  Onward(k, b, c \o Bytes(r), Append(q, r))
  <1>1. PICK a : Len(a) = k /\ InTheMidst(a, b, c, q)
    BY DEF Onward
  <1>2. InTheMidst(a, b, c \o Bytes(r), Append(q, r))
    BY <1>1, AnotherSent
  <1> QED
    BY <1>1, <1>2, Zenon DEF Onward

LEMMA OnwardArrive ==
  ASSUME NEW k, NEW b, NEW c, NEW q, Onward(k, b, c, q), NEW n \in 0 .. Len(c)
  PROVE  Onward(k, b \o SubSeq(c, 1, n), SubSeq(c, n + 1, Len(c)), q)
  <1>1. PICK a : Len(a) = k /\ InTheMidst(a, b, c, q)
    BY DEF Onward
  <1>2. InTheMidst(a, b \o SubSeq(c, 1, n), SubSeq(c, n + 1, Len(c)), q)
    BY <1>1, Arrived
  <1> QED
    BY <1>1, <1>2, Zenon DEF Onward

LEMMA OnwardEnds ==
  ASSUME NEW k, NEW b, NEW c, NEW q, Onward(k, b, c, q)
  PROVE  /\ q = <<>> => b = <<>> /\ c = <<>>
         /\ q # <<>> => Len(Bytes(Head(q))) <= k + (Len(b) + Len(c))
  <1>1. PICK a : Len(a) = k /\ InTheMidst(a, b, c, q)
    BY DEF Onward
  <1>2. q = <<>> => b = <<>> /\ c = <<>>
    BY <1>1, NothingOwed
  <1>3. q # <<>> => Len(Bytes(Head(q))) <= Len(a) + (Len(b) + Len(c))
    BY <1>1, RequestWaits
  <1> QED
    BY <1>1, <1>2, <1>3

(***************************************************************************)
(* Commands and their parameters                                           *)
(***************************************************************************)
LEMMA NeedsAre ==
  ASSUME NEW e
  PROVE  /\ \A l \in {"A", "H", "h", "J", "j", "V", "t"} : Needs(e, Ord[l]) = 0
         /\ \A l \in {"b", "d"} : Needs(e, Ord[l]) = 2
         /\ Needs(e, Ord["P"]) = 1 /\ Needs(e, Ord["p"]) = 6 /\ Needs(e, Ord["T"]) = 6
         /\ Needs(e, Ord["w"]) = 7
         /\ Needs(e, Ord["W"]) = IF e.isMap THEN 3 ELSE 2
  BY Codes, CodesIndexed DEF Needs

LEMMA SameCode ==
  ASSUME NEW k \in DOMAIN Ord, NEW l \in DOMAIN Ord, Ord[k] = Ord[l]
  PROVE  k = l
  BY Letters

LEMMA RequestsAre ==
  ASSUME NEW args
  PROVE  /\ \A l \in {"A", "H", "h", "J", "j", "V", "T"} : RequestOf(Ord[l], args) = Plain(l)
         /\ \A l \in {"b", "d"} : RequestOf(Ord[l], args) = Request(l, args[2], 0, 0, <<>>)
         /\ RequestOf(Ord["P"], args) = Request("P", Binary(args[1]), 0, 0, <<>>)
         /\ RequestOf(Ord["p"], args) =
                Request("p", args[2], word(args[3], args[4]), word(args[5], args[6]), <<>>)
         /\ RequestOf(Ord["W"], args) =
                Request("W", ecu.currentPage,
                        IF ecu.isMap THEN word(args[1], args[2]) ELSE args[1],
                        0, <<args[Len(args)]>>)
  <1>1. \A l \in DOMAIN Ord : Letter(Ord[l]) = l
    BY Letters
  <1>2. /\ "A" \in DOMAIN Ord /\ "H" \in DOMAIN Ord /\ "h" \in DOMAIN Ord /\ "J" \in DOMAIN Ord
        /\ "j" \in DOMAIN Ord /\ "V" \in DOMAIN Ord /\ "T" \in DOMAIN Ord
        /\ "b" \in DOMAIN Ord /\ "d" \in DOMAIN Ord
    BY Codes
  <1>3. ASSUME NEW l \in {"A", "H", "h", "J", "j", "V", "T"}
        PROVE  RequestOf(Ord[l], args) = Plain(l)
    <2>1. Letter(Ord[l]) = l
      BY <1>1, <1>2
    <2>2. RequestOf(Ord[l], args) = Plain(Letter(Ord[l]))
      BY Codes, CodesIndexed DEF RequestOf
    <2> QED
      BY <2>1, <2>2
  <1>4. ASSUME NEW l \in {"b", "d"}
        PROVE  RequestOf(Ord[l], args) = Request(l, args[2], 0, 0, <<>>)
    <2>1. Letter(Ord[l]) = l
      BY <1>1, <1>2
    <2>2. RequestOf(Ord[l], args) = Request(Letter(Ord[l]), args[2], 0, 0, <<>>)
      BY Codes, CodesIndexed DEF RequestOf
    <2> QED
      BY <2>1, <2>2
  <1>5. RequestOf(Ord["P"], args) = Request("P", Binary(args[1]), 0, 0, <<>>)
    BY Codes, CodesIndexed DEF RequestOf
  <1>6. RequestOf(Ord["p"], args) =
            Request("p", args[2], word(args[3], args[4]), word(args[5], args[6]), <<>>)
    BY Codes, CodesIndexed DEF RequestOf
  <1>7. RequestOf(Ord["W"], args) =
            Request("W", ecu.currentPage,
                    IF ecu.isMap THEN word(args[1], args[2]) ELSE args[1],
                    0, <<args[Len(args)]>>)
    BY Codes, CodesIndexed DEF RequestOf
  <1> QED
    BY <1>3, <1>4, <1>5, <1>6, <1>7

\* The page that the command W writes to is the one that is selected.
Selected(r) ==
  r.c = "W" => ecu.currentPage = r.page /\ (ecu.isMap <=> IsMapPage(r.page))

LEMMA LengthIs ==
  ASSUME NEW r \in Regular, Selected(r), r.c # "t"
  PROVE  /\ r.c # "w" => Len(Bytes(r)) = 1 + Needs(ecu, Ord[r.c])
         /\ r.c = "w" => Needs(ecu, Ord[r.c]) = 7 /\ Len(Bytes(r)) = 7 + r.length /\ r.length >= 1
         /\ Needs(ecu, Ord[r.c]) \in Nat
  <1> DEFINE s == Bytes(r)
             m == Needs(ecu, Ord[r.c])
  <1>1. Laid(r, s)
    BY Layout DEF Regular
  <1>2. r.c \in {"A", "b", "d", "H", "h", "J", "j", "P", "p", "T", "V", "W", "w"}
    BY RequestFields, Codes DEF Regular
  <1>3. CASE r.c \in {"A", "H", "h", "J", "j", "V"}
    <2>1. m = 0
      BY <1>3, NeedsAre
    <2>2. Len(s) = 1
      BY <1>1, <1>3, Zenon DEF Laid
    <2> QED
      BY <1>3, <2>1, <2>2
  <1>4. CASE r.c \in {"b", "d"}
    <2>1. m = 2
      BY <1>4, NeedsAre
    <2>2. Len(s) = 3
      BY <1>1, <1>4, Zenon DEF Laid
    <2> QED
      BY <1>4, <2>1, <2>2
  <1>5. CASE r.c = "P"
    <2>1. m = 1 /\ Len(s) = 2
      BY <1>1, <1>5, NeedsAre, Zenon DEF Laid
    <2> QED
      BY <1>5, <2>1
  <1>6. CASE r.c = "p"
    <2>1. m = 6 /\ Len(s) = 7
      BY <1>1, <1>6, NeedsAre, Zenon DEF Laid
    <2> QED
      BY <1>6, <2>1
  <1>7. CASE r.c = "T"
    <2>1. m = 6 /\ Len(s) = 7
      BY <1>1, <1>7, NeedsAre, Zenon DEF Laid
    <2> QED
      BY <1>7, <2>1
  <1>8. CASE r.c = "W"
    <2>1. m = IF ecu.isMap THEN 3 ELSE 2
      BY <1>8, NeedsAre, Zenon
    <2>2. Len(s) = IF IsMapPage(r.page) THEN 4 ELSE 3
      BY <1>1, <1>8, Zenon DEF Laid
    <2>3. ecu.isMap <=> IsMapPage(r.page)
      BY <1>8 DEF Selected
    <2> HIDE DEF s, m
    <2>4. CASE IsMapPage(r.page)
      <3>1. m = 3 /\ Len(s) = 4
        BY <2>1, <2>2, <2>3, <2>4, Zenon
      <3> QED
        BY <1>8, <3>1 DEF s, m
    <2>5. CASE ~ IsMapPage(r.page)
      <3>1. m = 2 /\ Len(s) = 3
        BY <2>1, <2>2, <2>3, <2>5, Zenon
      <3> QED
        BY <1>8, <3>1 DEF s, m
    <2> QED
      BY <2>4, <2>5
  <1>9. CASE r.c = "w"
    <2>1. m = 7 /\ Len(s) = 7 + r.length
      BY <1>1, <1>9, NeedsAre, Zenon DEF Laid
    <2>2. r.length > 0
      BY <1>9, Zenon DEF Regular, WellFormed
    <2>3. r.length \in Nat
      <3>1. r.length \in Word
        BY RequestFields DEF Regular
      <3> QED
        BY <3>1, Numbers
    <2>4. r.length >= 1
      BY <2>2, <2>3
    <2> QED
      BY <1>9, <2>1, <2>4
  <1> QED
    BY <1>2, <1>3, <1>4, <1>5, <1>6, <1>7, <1>8, <1>9

LEMMA DigitRead ==
  ASSUME NEW n \in Byte, n < 16
  PROVE  Binary(Digit(n)) = n
  <1>1. n \in Nat
    BY Numbers
  <1>2. CASE n < 10
    <2>1. Digit(n) = 48 + n
      BY <1>2 DEF Digit
    <2> DEFINE d == 48 + n
    <2>2. d \in Nat /\ d >= 48 /\ d <= 57 /\ d - 48 = n
      BY <1>1, <1>2
    <2> HIDE DEF d
    <2>3. Binary(d) = d - 48
      BY <2>2, SMT DEF Binary
    <2> QED
      BY <2>1, <2>2, <2>3 DEF d
  <1>3. CASE n >= 10
    <2>1. Digit(n) = 87 + n
      BY <1>1, <1>3 DEF Digit
    <2> DEFINE d == 87 + n
    <2>2. d \in Nat /\ d >= 97 /\ d <= 102 /\ d - 87 = n
      BY <1>1, <1>3
    <2> HIDE DEF d
    <2>3. Binary(d) = d - 87
      BY <2>2, SMT DEF Binary
    <2> QED
      BY <2>1, <2>2, <2>3 DEF d
  <1> QED
    BY <1>1, <1>2, <1>3

\* What command() makes of the parameters is the request they were sent for.
LEMMA Understands ==
  ASSUME NEW r \in Regular, Selected(r), r.c \notin {"t", "w"},
         NEW args, NEW m \in Nat, m + 1 = Len(Bytes(r)), Len(args) = m,
         \A j \in 1 .. m : args[j] = Bytes(r)[1 + j]
  PROVE  RequestOf(Ord[r.c], args) = Understood(r)
  <1> DEFINE s == Bytes(r)
             c == r.c
             page == r.page
             offset == r.offset
             length == r.length
             values == r.values
  <1>1. /\ c \in DOMAIN Ord /\ page \in Byte /\ offset \in Word /\ length \in Word
        /\ values \in Seq(Byte) /\ r = Request(c, page, offset, length, values)
    BY RequestFields DEF Regular
  <1>2. c \in {"A", "b", "d", "H", "h", "J", "j", "P", "p", "T", "V", "W"}
    BY <1>1, Codes
  <1>3. Laid(r, s) /\ WellFormed(r)
    BY Layout DEF Regular
  <1>4. /\ c \in {"A", "H", "h", "J", "j", "T"} => page = 0
        /\ c \notin {"p", "W", "w"} => offset = 0
        /\ c \notin {"p", "w"} => length = 0
        /\ c \notin {"t", "W", "w"} => values = <<>>
    BY <1>3, Zenon DEF WellFormed
  <1>5. c # "V" => Understood(r) = r
    BY Zenon DEF Understood
  <1>6. c = "V" => Understood(r) = Plain("V")
    BY Zenon DEF Understood
  <1> HIDE DEF s, c, page, offset, length, values
  <1>7. CASE c \in {"A", "H", "h", "J", "j", "T"}
    <2>1. RequestOf(Ord[c], args) = Plain(c)
      BY <1>7, RequestsAre
    <2>2. r = Request(c, 0, 0, 0, <<>>)
      BY <1>1, <1>4, <1>7, Zenon
    <2> QED
      BY <1>5, <1>7, <2>1, <2>2 DEF Plain, c
  <1>8. CASE c = "V"
    <2>1. RequestOf(Ord[c], args) = Plain(c)
      BY <1>8, RequestsAre
    <2> QED
      BY <1>6, <1>8, <2>1 DEF c
  <1>9. CASE c \in {"b", "d"}
    <2>1. RequestOf(Ord[c], args) = Request(c, args[2], 0, 0, <<>>)
      BY <1>9, RequestsAre
    <2>2. Len(s) = 3 /\ s[3] = page
      BY <1>3, <1>9, Zenon DEF Laid, c, page
    <2>3. args[2] = page
      BY <2>2 DEF s
    <2>4. r = Request(c, page, 0, 0, <<>>)
      BY <1>1, <1>4, <1>9, Zenon
    <2> QED
      BY <1>5, <1>9, <2>1, <2>3, <2>4 DEF c
  <1>10. CASE c = "P"
    <2>1. RequestOf(Ord[c], args) = Request("P", Binary(args[1]), 0, 0, <<>>)
      BY <1>10, RequestsAre
    <2>2. Len(s) = 2 /\ s[2] = Digit(page)
      BY <1>3, <1>10, Zenon DEF Laid, c, page
    <2>3. args[1] = Digit(page)
      BY <2>2 DEF s
    <2>4. page < 16
      BY <1>3, <1>10, Zenon DEF WellFormed, c, page
    <2>5. Binary(args[1]) = page
      BY <1>1, <2>3, <2>4, DigitRead
    <2>6. r = Request("P", page, 0, 0, <<>>)
      BY <1>1, <1>4, <1>10, Zenon
    <2> QED
      BY <1>5, <1>10, <2>1, <2>5, <2>6 DEF c
  <1>11. CASE c = "p"
    <2>1. RequestOf(Ord[c], args) =
              Request("p", args[2], word(args[3], args[4]), word(args[5], args[6]), <<>>)
      BY <1>11, RequestsAre
    <2>2. Len(s) = 7 /\ s[3] = page /\ BytesOfWord(s, 4, offset) /\ BytesOfWord(s, 6, length)
      BY <1>3, <1>11, Zenon DEF Laid, c, page, offset, length
    <2>3. /\ args[2] = s[3] /\ args[3] = s[4] /\ args[4] = s[5] /\ args[5] = s[6] /\ args[6] = s[7]
          /\ 4 + 1 = 5 /\ 6 + 1 = 7
      BY <2>2 DEF s
    <2>4. word(args[3], args[4]) = offset /\ word(args[5], args[6]) = length
      BY <2>2, <2>3, Zenon DEF BytesOfWord
    <2>5. r = Request("p", page, offset, length, <<>>)
      BY <1>1, <1>4, <1>11, Zenon
    <2> QED
      BY <1>5, <1>11, <2>1, <2>2, <2>3, <2>4, <2>5 DEF c
  <1>12. CASE c = "W"
    <2>1. RequestOf(Ord[c], args) =
              Request("W", ecu.currentPage,
                      IF ecu.isMap THEN word(args[1], args[2]) ELSE args[1],
                      0, <<args[Len(args)]>>)
      BY <1>12, RequestsAre
    <2>2. ecu.currentPage = page /\ (ecu.isMap <=> IsMapPage(page))
      BY <1>12, Zenon DEF Selected, c, page
    <2>3. IF IsMapPage(page)
          THEN Len(s) = 4 /\ BytesOfWord(s, 2, offset) /\ s[4] = values[1]
          ELSE Len(s) = 3 /\ s[2] = offset /\ s[3] = values[1]
      BY <1>3, <1>12, Zenon DEF Laid, c, page, offset, values
    <2>4. Len(values) = 1
      BY <1>3, <1>12, Zenon DEF WellFormed, c, values
    <2>5. values = <<values[1]>>
      <3>1. values[1] \in Byte
        <4>1. 1 \in 1 .. Len(values)
          BY <2>4
        <4>2. values \in Seq(Byte)
          BY <1>1
        <4> QED
          BY <4>1, <4>2, ElementOfSeq
      <3>2. <<values[1]>> \in Seq(Byte) /\ Len(<<values[1]>>) = 1 /\ <<values[1]>>[1] = values[1]
        BY <3>1, Single
      <3> DEFINE v == <<values[1]>>
      <3> HIDE DEF v
      <3>3. v \in Seq(Byte) /\ Len(values) = Len(v) /\ \A i \in 1 .. Len(values) : values[i] = v[i]
        BY <2>4, <3>2 DEF v
      <3> QED
        BY <1>1, <3>3, SeqEqual DEF v
    <2>6. r = Request("W", page, offset, 0, values)
      BY <1>1, <1>4, <1>12, Zenon
    <2>7. CASE IsMapPage(page)
      <3>4. Len(s) = 4
        BY <2>3, <2>7, Zenon
      <3>1. args[1] = s[2] /\ args[2] = s[3] /\ args[3] = s[4] /\ Len(args) = 3 /\ 2 + 1 = 3
        BY <3>4 DEF s
      <3>2. word(args[1], args[2]) = offset
        BY <2>3, <2>7, <3>1, Zenon DEF BytesOfWord
      <3>3. args[Len(args)] = values[1]
        BY <2>3, <2>7, <3>1
      <3> QED
        BY <1>5, <1>12, <2>1, <2>2, <2>5, <2>6, <2>7, <3>2, <3>3, Zenon DEF c
    <2>8. CASE ~ IsMapPage(page)
      <3>3. Len(s) = 3
        BY <2>3, <2>8, Zenon
      <3>1. args[1] = s[2] /\ args[2] = s[3] /\ Len(args) = 2
        BY <3>3 DEF s
      <3>2. args[Len(args)] = values[1]
        BY <2>3, <2>8, <3>1
      <3> QED
        BY <1>5, <1>12, <2>1, <2>2, <2>3, <2>5, <2>6, <2>8, <3>1, <3>2, Zenon DEF c
    <2> QED
      BY <2>7, <2>8
  <1> QED
    BY <1>2, <1>7, <1>8, <1>9, <1>10, <1>11, <1>12 DEF c

(***************************************************************************)
(* command() is in step with the requests                                  *)
(***************************************************************************)
EcuType ==
    [cmdPending : BOOLEAN, currentCommand : Byte,
     chunkPending : BOOLEAN, chunkComplete : Nat, chunkSize : Nat,
     valueOffset : Nat, currentPage : Byte, isMap : BOOLEAN,
     calibrating : Nat, tableID : Byte]

EcuOK ==
  /\ ecu \in EcuType
  /\ ecu.calibrating > 0 => ~ ecu.cmdPending
  /\ ecu.chunkPending => ecu.cmdPending

\* How many bytes of the first request owed have been read.
Consumed ==
  IF ecu.calibrating > CalibrationValues THEN 1
  ELSE IF ecu.calibrating > 0
       THEN 2 + (CalibrationValues - ecu.calibrating) * BytesPerValue(ecu.tableID)
       ELSE IF ecu.chunkPending THEN 7 + ecu.chunkComplete
            ELSE IF ecu.cmdPending THEN 1 ELSE 0

\* What has been kept of them.
TakenUp(r) ==
  /\ ecu.calibrating > 0 => r.c = "t"
  /\ ecu.calibrating > 0 /\ ecu.calibrating <= CalibrationValues => ecu.tableID = r.page
  /\ ecu.calibrating = 0 => r.c # "t" /\ ecu.currentCommand = Ord[r.c]
  /\ ecu.chunkPending => /\ r.c = "w" /\ ecu.currentPage = r.page
                         /\ ecu.valueOffset = r.offset /\ ecu.chunkSize = r.length

OnStage ==
  /\ Onward(Consumed, rx, line, owed)
  /\ Consumed > 0 => /\ owed # <<>> /\ Consumed < Len(Bytes(Head(owed)))
                     /\ TakenUp(Head(owed))

\* The command that is taken up is that of the first request owed, and one byte of
\* it has been read.
LEMMA Taking ==
  ASSUME EcuOK, OnStage, ecu.calibrating = 0, ~ ecu.chunkPending, rx # <<>>
  PROVE  /\ owed # <<>> /\ owed \in Seq(Regular) /\ Head(owed) \in Regular
         /\ Current = Ord[Head(owed).c]
         /\ ecu.cmdPending => Head(owed).c # "t"
         /\ Onward(1, Behind, line, owed)
  <1> DEFINE r == Head(owed)
  <1>1. Onward(Consumed, rx, line, owed)
    BY DEF OnStage
  <1>2. owed # <<>>
    BY <1>1, OnwardEnds
  <1>3. rx \in Seq(Byte) /\ Len(rx) \in Nat /\ owed \in Seq(Regular) /\ r \in Regular
    BY <1>1, <1>2, OnwardTypes
  <1>4. Consumed = IF ecu.cmdPending THEN 1 ELSE 0
    BY LineAssumption DEF Consumed
  <1>5. CASE ecu.cmdPending
    <2>1. Current = ecu.currentCommand /\ Behind = rx
      BY <1>5 DEF Current, Behind
    <2>2. Consumed = 1 /\ TakenUp(r)
      BY <1>4, <1>5 DEF OnStage
    <2>3. ecu.currentCommand = Ord[r.c] /\ r.c # "t"
      BY <2>2, Zenon DEF TakenUp
    <2> QED
      BY <1>1, <1>2, <1>3, <2>1, <2>2, <2>3
  <1>6. CASE ~ ecu.cmdPending
    <2>1. Current = Head(rx) /\ Behind = Tail(rx)
      BY <1>6 DEF Current, Behind
    <2>2. Onward(0, rx, line, owed)
      BY <1>1, <1>4, <1>6
    <2>3. 1 \in 0 .. Len(rx) /\ Head(rx) = rx[1] /\ Tail(rx) = SubSeq(rx, 1 + 1, Len(rx))
      BY <1>3, EmptySeq, TailIsSubSeq
    <2>4. Bytes(r)[1] = Ord[r.c] /\ Len(Bytes(r)) \in Nat /\ Len(Bytes(r)) >= 1
      BY <1>3, BytesAre
    <2>5. 0 + 1 <= Len(Bytes(r))
      BY <2>4
    <2>6. /\ Onward(0 + 1, SubSeq(rx, 1 + 1, Len(rx)), line, owed)
          /\ \A j \in 1 .. 1 : rx[j] = Bytes(r)[0 + j]
      BY <1>2, <2>2, <2>3, <2>5, ReadOn
    <2>8. 0 + 1 = 1 /\ 1 \in 1 .. 1
      OBVIOUS
    <2>9. Onward(1, SubSeq(rx, 1 + 1, Len(rx)), line, owed) /\ rx[1] = Bytes(r)[0 + 1]
      BY <2>6, <2>8, Zenon
    <2>7. Onward(1, Behind, line, owed) /\ rx[1] = Bytes(r)[1]
      BY <2>1, <2>3, <2>8, <2>9, Zenon
    <2> QED
      BY <1>2, <1>3, <1>6, <2>1, <2>3, <2>4, <2>7
  <1> QED
    BY <1>5, <1>6

\* What the execution of a request does to the page that is selected.
PageAfter(r) ==
  CASE r.c = "P" -> ecu'.currentPage = r.page /\ ecu'.isMap = IsMapPage(r.page)
    [] r.c = "w" -> ecu'.currentPage = r.page /\ ecu'.isMap = ecu.isMap
    [] OTHER -> ecu'.currentPage = ecu.currentPage /\ ecu'.isMap = ecu.isMap

SamePage == ecu'.currentPage = ecu.currentPage /\ ecu'.isMap = ecu.isMap

\* A poll executes the first request owed, or leaves all as they are; a chunk
\* selects its page before it is complete.
Moves ==
  \/ owed # <<>> /\ owed' = Tail(owed) /\ PageAfter(Head(owed))
  \/ owed' = owed /\ SamePage
  \/ owed # <<>> /\ owed' = owed /\ Head(owed).c = "w" /\ PageAfter(Head(owed))

LEMMA ChunkOfW ==
  ASSUME EcuOK, OnStage, ecu.calibrating = 0, ecu.chunkPending
  PROVE  Current = Ord["w"]
  <1>1. Consumed = 7 + ecu.chunkComplete /\ ecu.chunkComplete \in Nat
    BY LineAssumption DEF Consumed, EcuOK, EcuType
  <1>2. TakenUp(Head(owed))
    BY <1>1 DEF OnStage
  <1>3. ecu.currentCommand = Ord["w"]
    <2>1. Head(owed).c = "w" /\ ecu.currentCommand = Ord[Head(owed).c]
      BY <1>2, Zenon DEF TakenUp
    <2> QED
      BY <2>1, Zenon
  <1> QED
    BY <1>3 DEF Current, EcuOK

LEMMA ObeyedEcu ==
  ASSUME EcuOK, ecu.calibrating = 0, ~ ecu.chunkPending,
         NEW r \in Regular, r.c \notin {"t", "w"}, NEW args,
         RequestOf(Ord[r.c], args) = Understood(r),
         ecu' = Done(CASE Ord[r.c] = Ord.P ->
                         [ecu EXCEPT !.currentPage = Binary(args[1]),
                                     !.isMap = IsMapPage(Binary(args[1]))]
                       [] Ord[r.c] \in {Ord.p, Ord.W} ->
                         [ecu EXCEPT !.valueOffset = RequestOf(Ord[r.c], args).offset]
                       [] OTHER -> ecu)
  PROVE  /\ EcuOK' /\ ecu'.calibrating = 0 /\ ~ ecu'.chunkPending /\ ~ ecu'.cmdPending
         /\ PageAfter(r)
  <1>1. /\ r.page \in Byte /\ r.offset \in Word /\ r.c \in DOMAIN Ord
    BY RequestFields DEF Regular
  <1>2. r.c \in {"A", "b", "d", "H", "h", "J", "j", "P", "p", "T", "V", "W"}
    BY <1>1, Codes
  <1>3. ecu \in EcuType
    BY DEF EcuOK
  <1>4. CASE r.c = "P"
    <2>1. ecu' = Done([ecu EXCEPT !.currentPage = Binary(args[1]),
                                  !.isMap = IsMapPage(Binary(args[1]))])
      BY <1>4, Codes, CodesIndexed
    <2>2. RequestOf(Ord["P"], args).page = Binary(args[1])
      <3>1. RequestOf(Ord["P"], args) = Request("P", Binary(args[1]), 0, 0, <<>>)
        BY RequestsAre
      <3> QED
        BY <3>1 DEF Request
    <2>3. Understood(r) = r
      BY <1>4, Zenon DEF Understood
    <2>4. Binary(args[1]) = r.page
      BY <1>4, <2>2, <2>3
    <2>5. ecu' = Done([ecu EXCEPT !.currentPage = r.page, !.isMap = IsMapPage(r.page)])
      BY <2>1, <2>4
    <2>6. IsMapPage(r.page) \in BOOLEAN
      BY DEF IsMapPage
    <2> DEFINE p == r.page
               m == IsMapPage(p)
    <2>7. ecu' = Done([ecu EXCEPT !.currentPage = p, !.isMap = m]) /\ p \in Byte /\ m \in BOOLEAN
      BY <1>1, <2>5, <2>6
    <2> HIDE DEF p, m
    <2>8. /\ ecu' \in EcuType /\ ecu'.calibrating = 0 /\ ~ ecu'.chunkPending /\ ~ ecu'.cmdPending
          /\ ecu'.currentPage = p /\ ecu'.isMap = m
      BY <1>3, <2>7 DEF EcuType, Done
    <2>9. EcuOK'
      BY <2>8 DEF EcuOK
    <2>10. PageAfter(r)
      BY <1>4, <2>8, Zenon DEF PageAfter, p, m
    <2> QED
      BY <2>8, <2>9, <2>10
  <1>5. CASE r.c \in {"p", "W"}
    <2>1. ecu' = Done([ecu EXCEPT !.valueOffset = RequestOf(Ord[r.c], args).offset])
      BY <1>5, Codes, CodesIndexed
    <2>2. Understood(r) = r
      BY <1>5 DEF Understood
    <2> DEFINE o == r.offset
    <2>3. ecu' = Done([ecu EXCEPT !.valueOffset = o]) /\ o \in Nat
      BY <1>1, <2>1, <2>2, Numbers
    <2> HIDE DEF o
    <2>4. /\ ecu' \in EcuType /\ ecu'.calibrating = 0 /\ ~ ecu'.chunkPending /\ ~ ecu'.cmdPending
          /\ ecu'.currentPage = ecu.currentPage /\ ecu'.isMap = ecu.isMap
      BY <1>3, <2>3 DEF EcuType, Done
    <2>5. PageAfter(r)
      BY <1>5, <2>4 DEF PageAfter
    <2> QED
      BY <2>4, <2>5 DEF EcuOK
  <1>6. CASE r.c \in {"A", "b", "d", "H", "h", "J", "j", "T", "V"}
    <2>1. ecu' = Done(ecu)
      BY <1>6, Codes, CodesIndexed
    <2>2. /\ ecu' \in EcuType /\ ecu'.calibrating = 0 /\ ~ ecu'.chunkPending /\ ~ ecu'.cmdPending
          /\ ecu'.currentPage = ecu.currentPage /\ ecu'.isMap = ecu.isMap
      BY <1>3, <2>1 DEF EcuType, Done
    <2>3. PageAfter(r)
      BY <1>6, <2>2 DEF PageAfter
    <2> QED
      BY <2>2, <2>3 DEF EcuOK
  <1> QED
    BY <1>2, <1>4, <1>5, <1>6

LEMMA ExecutedIs ==
  ASSUME lost = 0, owed # <<>>, Executed(Understood(Head(owed)))
  PROVE  owed' = Tail(owed)
  <1>1. ~ (lost > 0)
    OBVIOUS
  <1> QED
    BY <1>1, Zenon DEF Executed

\* What a poll does to the requests owed is in step with them.
PollKeeps == EcuOK' /\ OnStage' /\ Moves /\ line' = line

LEMMA CommandStep ==
  ASSUME lost = 0, EcuOK, OnStage, owed # <<>> => Selected(Head(owed)), Command
  PROVE  PollKeeps /\ owed # <<>> /\ owed' = Tail(owed) /\ Current = Ord[Head(owed).c]
  <1> DEFINE r == Head(owed)
             c == Current
             m == Needs(ecu, c)
             args == SubSeq(Behind, 1, m)
  <1>1. /\ rx # <<>> /\ ecu.calibrating = 0 /\ Len(Behind) >= m /\ c \notin {Ord.w, Ord.t}
        /\ Obey(c, args) /\ rx' = SubSeq(Behind, m + 1, Len(Behind))
    BY DEF Command, Polled
  <1>2. ~ ecu.chunkPending
    BY <1>1, ChunkOfW, Codes, CodesIndexed
  <1>3. /\ owed # <<>> /\ owed \in Seq(Regular) /\ r \in Regular /\ c = Ord[r.c]
    BY <1>1, <1>2, Taking
  <1>4. Onward(1, Behind, line, owed)
    BY <1>1, <1>2, Taking
  <1>5. r.c \notin {"t", "w"}
    BY <1>1, <1>3, Codes, CodesIndexed
  <1>6. Selected(r)
    BY <1>3
  <1>7. Len(Bytes(r)) = 1 + m /\ m \in Nat
    BY <1>3, <1>5, <1>6, LengthIs
  <1>8. Behind \in Seq(Byte) /\ Len(Behind) \in Nat
    BY <1>4, OnwardTypes
  <1>9. m \in 0 .. Len(Behind) /\ 1 + m <= Len(Bytes(r)) /\ 1 + m = Len(Bytes(r))
    BY <1>1, <1>7, <1>8
  <1>10. /\ \A j \in 1 .. m : Behind[j] = Bytes(r)[1 + j]
         /\ Onward(0, SubSeq(Behind, m + 1, Len(Behind)), line, Tail(owed))
    BY <1>3, <1>4, <1>9, ReadOn
  <1>11. Len(args) = m /\ \A j \in 1 .. m : args[j] = Behind[j]
    BY <1>8, <1>9, FirstOf
  <1>12. \A j \in 1 .. m : args[j] = Bytes(r)[1 + j]
    BY <1>10, <1>11
  <1>13. m + 1 = Len(Bytes(r))
    BY <1>7
  <1> HIDE DEF r, c, m, args
  <1>14. RequestOf(c, args) = Understood(r)
    <2>1. RequestOf(Ord[r.c], args) = Understood(r)
      BY <1>3, <1>5, <1>6, <1>7, <1>11, <1>12, <1>13, Understands
    <2> QED
      BY <1>3, <2>1
  <1>15. Executed(Understood(r)) /\ line' = line
    BY <1>1, <1>14, Zenon DEF Obey
  <1>16. owed' = Tail(owed)
    BY <1>3, <1>15, ExecutedIs DEF r
  <1>17. /\ EcuOK' /\ ecu'.calibrating = 0 /\ ~ ecu'.chunkPending /\ ~ ecu'.cmdPending
         /\ PageAfter(r)
    <2>1. RequestOf(Ord[r.c], args) = Understood(r)
      BY <1>3, <1>14
    <2>2. ecu' = Done(CASE Ord[r.c] = Ord.P ->
                         [ecu EXCEPT !.currentPage = Binary(args[1]),
                                     !.isMap = IsMapPage(Binary(args[1]))]
                       [] Ord[r.c] \in {Ord.p, Ord.W} ->
                         [ecu EXCEPT !.valueOffset = RequestOf(Ord[r.c], args).offset]
                       [] OTHER -> ecu)
      BY <1>1, <1>3, Zenon DEF Obey
    <2> QED
      BY <1>1, <1>2, <1>3, <1>5, <2>1, <2>2, ObeyedEcu
  <1>18. Consumed' = 0
    BY <1>17, LineAssumption DEF Consumed
  <1>19. Onward(0, rx', line', owed')
    BY <1>1, <1>10, <1>15, <1>16 DEF r
  <1>20. OnStage'
    BY <1>18, <1>19 DEF OnStage
  <1>21. PollKeeps
    BY <1>3, <1>15, <1>16, <1>17, <1>20, Zenon DEF PollKeeps, Moves, r
  <1> QED
    BY <1>3, <1>16, <1>21, Zenon DEF r, c

LEMMA AwaitStep ==
  ASSUME EcuOK, OnStage, owed # <<>> => Selected(Head(owed)), AwaitParameters
  PROVE  PollKeeps
  <1> DEFINE r == Head(owed)
             m == Needs(ecu, Current)
  <1>1. /\ rx # <<>> /\ ecu.calibrating = 0 /\ Len(Behind) < m
        /\ ~ (Current = Ord.w /\ ecu.chunkPending)
        /\ ecu' = [ecu EXCEPT !.cmdPending = TRUE, !.currentCommand = Current]
        /\ rx' = Behind /\ line' = line /\ owed' = owed
    BY DEF AwaitParameters, Polled
  <1>2. ~ ecu.chunkPending
    BY <1>1, ChunkOfW, Codes, CodesIndexed
  <1>3. /\ owed # <<>> /\ owed \in Seq(Regular) /\ r \in Regular /\ Current = Ord[r.c]
    BY <1>1, <1>2, Taking
  <1>4. Onward(1, Behind, line, owed)
    BY <1>1, <1>2, Taking
  <1>5. Len(Behind) \in Nat
    BY <1>4, OnwardTypes
  <1>6. r.c # "t"
    <2>1. Needs(ecu, Ord["t"]) = 0
      BY NeedsAre
    <2>2. m # 0
      <3>1. m = Needs(ecu, Ord[r.c])
        BY <1>3
      <3>2. r.c = "t" => m = 0
        BY <2>1, <3>1
      <3>3. ~ (Len(Behind) < 0)
        BY <1>5
      <3> QED
        BY <1>1, <3>3
    <2> QED
      BY <1>3, <2>1, <2>2
  <1>7. m \in Nat /\ Len(Bytes(r)) >= 1 + m
    <2>1. Selected(r)
      BY <1>3
    <2>2. /\ r.c # "w" => Len(Bytes(r)) = 1 + m
          /\ r.c = "w" => m = 7 /\ Len(Bytes(r)) = 7 + r.length /\ r.length >= 1
          /\ m \in Nat
      BY <1>3, <1>6, <2>1, LengthIs
    <2>3. r.length \in Word
      BY <1>3, RequestFields DEF Regular
    <2>4. r.length \in Nat
      BY <2>3, Numbers
    <2>5. CASE r.c = "w"
      BY <2>2, <2>4, <2>5
    <2>6. CASE r.c # "w"
      BY <2>2, <2>6
    <2> QED
      BY <2>5, <2>6
  <1>8. r.c \in DOMAIN Ord
    BY <1>3, RequestFields DEF Regular
  <1> DEFINE c == Current
  <1>9. c \in Byte /\ c = Ord[r.c]
    BY <1>3, <1>8, CodeByte
  <1> HIDE DEF r, m, c
  <1>10. ecu' = [ecu EXCEPT !.cmdPending = TRUE, !.currentCommand = c]
    BY <1>1 DEF c
  <1>11. /\ ecu' \in EcuType /\ ecu'.calibrating = 0 /\ ~ ecu'.chunkPending /\ ecu'.cmdPending
         /\ ecu'.currentCommand = c
         /\ ecu'.currentPage = ecu.currentPage /\ ecu'.isMap = ecu.isMap
    BY <1>1, <1>2, <1>9, <1>10 DEF EcuOK, EcuType
  <1>12. EcuOK'
    BY <1>11 DEF EcuOK
  <1>13. Consumed' = 1
    BY <1>11, LineAssumption DEF Consumed
  <1>14. 1 < Len(Bytes(r))
    <2>1. m >= 1
      BY <1>1, <1>5, <1>7 DEF m
    <2>2. Len(Bytes(r)) \in Nat
      BY <1>3, BytesAre DEF r
    <2> QED
      BY <1>7, <2>1, <2>2
  <1>15. TakenUp(Head(owed))'
    BY <1>1, <1>6, <1>9, <1>11 DEF TakenUp, r
  <1>16. Onward(1, rx', line', owed')
    BY <1>1, <1>4
  <1>17. OnStage'
    BY <1>1, <1>3, <1>13, <1>14, <1>15, <1>16 DEF OnStage, r
  <1> QED
    BY <1>1, <1>11, <1>12, <1>17, Zenon DEF PollKeeps, Moves, SamePage

LEMMA SmallBytes == \A id : BytesPerValue(id) = 1 \/ BytesPerValue(id) = 2
  BY DEF BytesPerValue

\* The bytes of the values still to come, one or two for each.
LEMMA ValueBytes ==
  ASSUME NEW k \in Nat, NEW n \in Nat, n >= 1, NEW w, w = 1 \/ w = 2
  PROVE  /\ k * w \in Nat /\ n * w \in Nat /\ n * w >= 1 /\ w \in Nat
         /\ (2 + k * w) + w = 2 + (k + 1) * w
         /\ k + 1 < n => 2 + (k + 1) * w < 2 + n * w
         /\ k + 1 = n => (2 + k * w) + w = 2 + n * w
         /\ k < n => (2 + k * w) + w <= 2 + n * w
         /\ 0 * w = 0
  <1>1. CASE w = 1
    BY <1>1
  <1>2. CASE w = 2
    BY <1>2
  <1> QED
    BY <1>1, <1>2

LEMMA CalibrationLength ==
  ASSUME NEW r \in Regular, r.c = "t"
  PROVE  /\ Len(Bytes(r)) = 2 + CalibrationValues * BytesPerValue(r.page)
         /\ Bytes(r)[2] = r.page /\ r.page \in Byte
         /\ Len(Bytes(r)) \in Nat /\ Len(Bytes(r)) > 2
  <1>1. Laid(r, Bytes(r))
    BY Layout DEF Regular
  <1>2. Len(Bytes(r)) = 2 + CalibrationValues * BytesPerValue(r.page) /\ Bytes(r)[2] = r.page
    BY <1>1, Zenon DEF Laid
  <1>3. r.page \in Byte
    BY RequestFields DEF Regular
  <1> DEFINE w == BytesPerValue(r.page)
  <1>4. w = 1 \/ w = 2
    BY SmallBytes
  <1> HIDE DEF w
  <1>5. CalibrationValues * w \in Nat /\ CalibrationValues * w >= 1
    BY <1>4, LineAssumption, ValueBytes
  <1>6. 2 + CalibrationValues * w \in Nat /\ 2 + CalibrationValues * w > 2
    BY <1>5
  <1> QED
    BY <1>2, <1>3, <1>6 DEF w

LEMMA StartCalibrationStep ==
  ASSUME EcuOK, OnStage, StartCalibration
  PROVE  PollKeeps
  <1> DEFINE r == Head(owed)
             n == CalibrationValues + 1
  <1>1. /\ rx # <<>> /\ ecu.calibrating = 0 /\ Current = Ord.t
        /\ ecu' = [ecu EXCEPT !.currentCommand = Ord.t, !.calibrating = n]
        /\ rx' = Tail(rx) /\ line' = line /\ owed' = owed
    BY DEF StartCalibration, Polled
  <1>2. ~ ecu.chunkPending
    BY <1>1, ChunkOfW, Codes, CodesIndexed
  <1>3. /\ owed # <<>> /\ owed \in Seq(Regular) /\ r \in Regular /\ Current = Ord[r.c]
        /\ ecu.cmdPending => r.c # "t"
    BY <1>1, <1>2, Taking
  <1>4. Onward(1, Behind, line, owed)
    BY <1>1, <1>2, Taking
  <1>5. r.c = "t"
    <2>1. r.c \in DOMAIN Ord /\ "t" \in DOMAIN Ord
      BY <1>3, RequestFields, Codes DEF Regular
    <2>2. Ord[r.c] = Ord["t"]
      BY <1>1, <1>3, Codes, CodesIndexed, ZenonT(60)
    <2> QED
      BY <2>1, <2>2, SameCode
  <1>6. ~ ecu.cmdPending
    BY <1>3, <1>5
  <1>7. rx' = Behind
    BY <1>1, <1>6 DEF Behind
  <1>8. n \in Nat /\ n > CalibrationValues /\ n > 0
    BY LineAssumption
  <1>9. Ord.t \in Byte
    BY Codes DEF Byte
  <1> DEFINE c == Ord.t
  <1> HIDE DEF n, c
  <1>10. ecu' = [ecu EXCEPT !.currentCommand = c, !.calibrating = n] /\ c \in Byte
    BY <1>1, <1>9 DEF c
  <1>11. /\ ecu' \in EcuType /\ ecu'.calibrating = n /\ ~ ecu'.chunkPending /\ ~ ecu'.cmdPending
         /\ ecu'.currentPage = ecu.currentPage /\ ecu'.isMap = ecu.isMap
    BY <1>2, <1>6, <1>8, <1>10 DEF EcuOK, EcuType
  <1>12. EcuOK'
    BY <1>11 DEF EcuOK
  <1>13. Consumed' = 1
    BY <1>8, <1>11 DEF Consumed
  <1>14. 1 < Len(Bytes(r))
    BY <1>3, <1>5, CalibrationLength
  <1>15. TakenUp(Head(owed))'
    <2>1. /\ ecu'.calibrating > 0 /\ ~ (ecu'.calibrating <= CalibrationValues)
          /\ ecu'.calibrating # 0 /\ ~ ecu'.chunkPending
      BY <1>8, <1>11, LineAssumption
    <2> QED
      BY <1>1, <1>5, <2>1, Zenon DEF TakenUp
  <1>16. Onward(1, rx', line', owed')
    BY <1>1, <1>4, <1>7
  <1>17. OnStage'
    BY <1>1, <1>3, <1>13, <1>14, <1>15, <1>16 DEF OnStage
  <1> QED
    BY <1>1, <1>11, <1>12, <1>17, Zenon DEF PollKeeps, Moves, SamePage

LEMMA TakeTableStep ==
  ASSUME EcuOK, OnStage, TakeTable
  PROVE  PollKeeps
  <1> DEFINE r == Head(owed)
             n == CalibrationValues
             id == Head(rx)
  <1>1. /\ rx # <<>> /\ ecu.calibrating = n + 1
        /\ ecu' = [ecu EXCEPT !.tableID = id, !.calibrating = @ - 1]
        /\ rx' = Tail(rx) /\ line' = line /\ owed' = owed
    BY DEF TakeTable
  <1>2. n \in Nat /\ n >= 1 /\ ecu.calibrating > n /\ ecu.calibrating > 0
    BY <1>1, LineAssumption
  <1>4. Consumed = 1
    BY <1>2 DEF Consumed
  <1>5. Onward(1, rx, line, owed) /\ owed # <<>> /\ TakenUp(r)
    BY <1>4 DEF OnStage
  <1>6. r.c = "t"
    BY <1>2, <1>5, Zenon DEF TakenUp
  <1>7. r \in Regular /\ rx \in Seq(Byte) /\ Len(rx) \in Nat
    BY <1>5, OnwardTypes
  <1>8. 1 \in 0 .. Len(rx) /\ id = rx[1] /\ rx' = SubSeq(rx, 1 + 1, Len(rx))
    BY <1>1, <1>7, EmptySeq, TailIsSubSeq
  <1>9. Len(Bytes(r)) \in Nat /\ Len(Bytes(r)) > 2 /\ Bytes(r)[2] = r.page /\ r.page \in Byte
    BY <1>6, <1>7, CalibrationLength
  <1>10. 1 + 1 <= Len(Bytes(r))
    BY <1>9
  <1>11. /\ Onward(1 + 1, SubSeq(rx, 1 + 1, Len(rx)), line, owed)
         /\ \A j \in 1 .. 1 : rx[j] = Bytes(r)[1 + j]
    BY <1>5, <1>8, <1>10, ReadOn
  <1>12. id = r.page
    <2>1. rx[1] = Bytes(r)[2]
      BY <1>11
    <2> QED
      BY <1>8, <1>9, <2>1
  <1>13. ~ ecu.cmdPending /\ ~ ecu.chunkPending
    BY <1>2 DEF EcuOK
  <1> HIDE DEF n, id, r
  <1>14. id \in Byte
    BY <1>9, <1>12
  <1>15. /\ ecu' \in EcuType /\ ecu'.calibrating = n /\ ~ ecu'.chunkPending /\ ~ ecu'.cmdPending
         /\ ecu'.tableID = id
         /\ ecu'.currentPage = ecu.currentPage /\ ecu'.isMap = ecu.isMap
    <2>1. ecu' = [ecu EXCEPT !.tableID = id, !.calibrating = n]
      <3>1. ecu.calibrating - 1 = n
        BY <1>1, <1>2
      <3> QED
        BY <1>1, <3>1 DEF EcuOK, EcuType
    <2> QED
      BY <1>2, <1>13, <1>14, <2>1 DEF EcuOK, EcuType
  <1>16. EcuOK'
    BY <1>15 DEF EcuOK
  <1>17. Consumed' = 2
    <2> DEFINE w == BytesPerValue(id)
    <2>1. Consumed' = 2 + (n - n) * w
      BY <1>2, <1>15 DEF Consumed, n
    <2>2. w = 1 \/ w = 2
      BY SmallBytes
    <2>3. n - n = 0
      BY <1>2
    <2> HIDE DEF w
    <2>4. (n - n) * w = 0
      BY <2>2, <2>3
    <2> QED
      BY <2>1, <2>4
  <1>18. TakenUp(Head(owed))'
    <2>1. ecu'.calibrating # 0
      BY <1>2, <1>15
    <2>2. Head(owed') = r
      BY <1>1 DEF r
    <2> QED
      BY <1>6, <1>12, <1>15, <2>1, <2>2, Zenon DEF TakenUp
  <1>19. Onward(2, rx', line', owed')
    <2>1. 1 + 1 = 2
      OBVIOUS
    <2>2. Onward(2, SubSeq(rx, 1 + 1, Len(rx)), line, owed)
      BY <1>11, <2>1
    <2> QED
      BY <1>1, <1>8, <2>2
  <1>20. OnStage'
    BY <1>1, <1>5, <1>9, <1>17, <1>18, <1>19 DEF OnStage, r
  <1> QED
    BY <1>1, <1>15, <1>16, <1>20, Zenon DEF PollKeeps, Moves, SamePage

LEMMA TakeCalibrationStep ==
  ASSUME lost = 0, EcuOK, OnStage, TakeCalibration
  PROVE  PollKeeps
  <1> DEFINE r == Head(owed)
             n == CalibrationValues
             w == BytesPerValue(ecu.tableID)
             k == n - ecu.calibrating
             read == 2 + k * w
             left == SubSeq(rx, w + 1, Len(rx))
  <1>1. /\ ecu.calibrating \in 1 .. n /\ Len(rx) >= w /\ rx' = left
        /\ ecu' = [ecu EXCEPT !.calibrating = @ - 1]
        /\ ecu.calibrating = 1 => Executed(Request("t", ecu.tableID, 0, 0, <<>>))
        /\ ecu.calibrating # 1 => owed' = owed
        /\ line' = line
    BY DEF TakeCalibration
  <1>2. /\ n \in Nat /\ n >= 1 /\ ecu.calibrating > 0 /\ ecu.calibrating <= n
        /\ ~ (ecu.calibrating > n) /\ k \in Nat /\ k < n /\ ecu.calibrating \in Nat
    BY <1>1, LineAssumption
  <1>3. Consumed = read
    BY <1>2 DEF Consumed
  <1>4. w = 1 \/ w = 2
    BY SmallBytes
  <1> HIDE DEF n, k, w
  <1>5. /\ k * w \in Nat /\ n * w \in Nat /\ w \in Nat
        /\ read + w = 2 + (k + 1) * w
        /\ k + 1 < n => 2 + (k + 1) * w < 2 + n * w
        /\ k + 1 = n => read + w = 2 + n * w
        /\ read + w <= 2 + n * w
    <2>1. /\ k * w \in Nat /\ n * w \in Nat /\ n * w >= 1 /\ w \in Nat
          /\ (2 + k * w) + w = 2 + (k + 1) * w
          /\ k + 1 < n => 2 + (k + 1) * w < 2 + n * w
          /\ k + 1 = n => (2 + k * w) + w = 2 + n * w
          /\ k < n => (2 + k * w) + w <= 2 + n * w
          /\ 0 * w = 0
      <3>1. k \in Nat /\ n \in Nat /\ n >= 1
        BY <1>2
      <3> QED
        BY <1>4, <3>1, ValueBytes
    <2> QED
      BY <1>2, <2>1, Zenon
  <1>6. Onward(read, rx, line, owed) /\ owed # <<>> /\ TakenUp(r)
    <2>1. Consumed > 0
      BY <1>3, <1>5
    <2> QED
      BY <1>3, <2>1 DEF OnStage
  <1>7. r.c = "t" /\ ecu.tableID = r.page
    BY <1>2, <1>6, Zenon DEF TakenUp, n
  <1>8. r \in Regular /\ owed \in Seq(Regular) /\ Len(rx) \in Nat
    BY <1>6, OnwardTypes
  <1>9. Len(Bytes(r)) = 2 + n * w
    BY <1>7, <1>8, CalibrationLength, Zenon DEF n, w
  <1>10. w \in 0 .. Len(rx) /\ read + w <= Len(Bytes(r))
    BY <1>1, <1>5, <1>8, <1>9
  <1>11. /\ Onward(read + w, left, line, owed)
         /\ read + w = Len(Bytes(r)) => Onward(0, left, line, Tail(owed))
    <2> HIDE DEF read
    <2> QED
      BY <1>6, <1>10, ReadOn
  <1>12. /\ ~ ecu.cmdPending /\ ~ ecu.chunkPending
    BY <1>2 DEF EcuOK
  <1>13. /\ ecu' \in EcuType /\ ecu'.calibrating = ecu.calibrating - 1
         /\ ~ ecu'.chunkPending /\ ~ ecu'.cmdPending /\ ecu'.tableID = ecu.tableID
         /\ ecu'.currentPage = ecu.currentPage /\ ecu'.isMap = ecu.isMap
    BY <1>1, <1>2, <1>12, SMTT(60) DEF EcuOK, EcuType
  <1>14. EcuOK'
    BY <1>13 DEF EcuOK
  <1>15. CASE ecu.calibrating = 1
    <2>1. Understood(r) = Request("t", ecu.tableID, 0, 0, <<>>)
      BY <1>7, Zenon DEF Understood
    <2>2. owed' = Tail(owed)
      <3>1. Executed(Understood(r))
        BY <1>1, <1>15, <2>1
      <3> QED
        BY <1>6, <3>1, ExecutedIs
    <2>3. k + 1 = n
      BY <1>2, <1>15 DEF k
    <2>4. Onward(0, rx', line', owed')
      BY <1>1, <1>5, <1>9, <1>11, <2>2, <2>3
    <2>5. Consumed' = 0
      BY <1>13, <1>15, LineAssumption DEF Consumed
    <2>6. OnStage'
      BY <2>4, <2>5 DEF OnStage
    <2>7. PageAfter(r)
      BY <1>7, <1>13, Zenon DEF PageAfter
    <2>8. Moves
      BY <1>6, <2>2, <2>7, Zenon DEF Moves
    <2> QED
      BY <1>1, <1>14, <2>6, <2>8, Zenon DEF PollKeeps
  <1>16. CASE ecu.calibrating # 1
    <2>1. owed' = owed /\ k + 1 < n /\ ecu'.calibrating > 0 /\ ecu'.calibrating <= n
          /\ ~ (ecu'.calibrating > n) /\ n - ecu'.calibrating = k + 1
      BY <1>1, <1>2, <1>13, <1>16 DEF k
    <2>2. Consumed' = 2 + (k + 1) * w
      <3>1. Consumed' = 2 + (n - ecu'.calibrating) * BytesPerValue(ecu'.tableID)
        BY <2>1 DEF Consumed, n
      <3> QED
        BY <1>13, <2>1, <3>1 DEF w
    <2>3. Onward(Consumed', rx', line', owed')
      BY <1>1, <1>5, <1>11, <2>1, <2>2
    <2>4. Consumed' < Len(Bytes(r))
      BY <1>5, <1>9, <2>1, <2>2
    <2>5. TakenUp(r)'
      <3>1. Head(owed') = r
        BY <2>1
      <3>2. ecu'.calibrating # 0
        BY <2>1, <1>13, <1>2
      <3> QED
        BY <1>7, <1>13, <2>1, <3>1, <3>2, Zenon DEF TakenUp
    <2>6. OnStage'
      BY <1>6, <2>1, <2>3, <2>4, <2>5 DEF OnStage
    <2>7. Moves
      BY <1>13, <2>1, Zenon DEF Moves, SamePage
    <2> QED
      BY <1>1, <1>14, <2>6, <2>7, Zenon DEF PollKeeps
  <1> QED
    BY <1>15, <1>16

\* The values of a chunk are taken as far as they are there, and no more of them
\* than the request has.
LEMMA ChunkStep ==
  ASSUME lost = 0, owed # <<>>, Head(owed).c = "w",
         NEW e \in EcuType, e.chunkPending, e.cmdPending, e.calibrating = 0,
         e.currentCommand = Ord["w"], e.isMap = ecu.isMap,
         e.currentPage = Head(owed).page, e.valueOffset = Head(owed).offset,
         e.chunkSize = Head(owed).length, e.chunkComplete < e.chunkSize,
         NEW bytes, Onward(7 + e.chunkComplete, bytes, line, owed),
         TakeChunk(e, bytes)
  PROVE  PollKeeps
  <1> DEFINE r == Head(owed)
             room == e.chunkSize - e.chunkComplete
             n == IF Len(bytes) < room THEN Len(bytes) ELSE room
             k == 7 + e.chunkComplete
             left == SubSeq(bytes, n + 1, Len(bytes))
             ends == e.chunkComplete + n >= e.chunkSize
  <1>1. /\ ecu' = ChunkEnds([e EXCEPT !.chunkComplete = @ + n])
        /\ rx' = left /\ line' = line
        /\ ends => Executed(Request("w", e.currentPage, e.valueOffset, e.chunkSize, <<>>))
        /\ ~ ends => owed' = owed
    BY Zenon DEF TakeChunk
  <1>2. r \in Regular /\ owed \in Seq(Regular) /\ Len(bytes) \in Nat
    BY OnwardTypes
  <1>3. /\ e.chunkComplete \in Nat /\ e.chunkSize \in Nat
    BY DEF EcuType
  <1>4. Len(Bytes(r)) = 7 + e.chunkSize
    <2>1. Laid(r, Bytes(r))
      BY <1>2, Layout DEF Regular
    <2>2. Len(Bytes(r)) = 7 + r.length
      BY <2>1, Zenon DEF Laid
    <2> QED
      BY <2>2
  <1>5. /\ n \in 0 .. Len(bytes) /\ n \in Nat /\ e.chunkComplete + n <= e.chunkSize
        /\ k + n = 7 + (e.chunkComplete + n)
    BY <1>2, <1>3
  <1>6. k + n <= Len(Bytes(r)) /\ (ends => k + n = Len(Bytes(r))) /\ (~ ends => k + n < Len(Bytes(r)))
    <2> HIDE DEF n
    <2> QED
      BY <1>3, <1>4, <1>5, SMTT(60)
  <1> HIDE DEF n
  <1>7. /\ Onward(k + n, left, line, owed)
        /\ k + n = Len(Bytes(r)) => Onward(0, left, line, Tail(owed))
    <2> HIDE DEF k
    <2>1. Onward(k, bytes, line, owed)
      BY DEF k
    <2> QED
      BY <1>5, <1>6, <2>1, ReadOn
  <1> DEFINE f == [e EXCEPT !.chunkComplete = @ + n]
  <1>8. /\ f \in EcuType /\ f.chunkPending /\ f.cmdPending /\ f.calibrating = 0
        /\ f.chunkComplete = e.chunkComplete + n /\ f.chunkSize = e.chunkSize
        /\ f.currentPage = e.currentPage /\ f.valueOffset = e.valueOffset
        /\ f.isMap = e.isMap /\ f.currentCommand = e.currentCommand
    BY <1>3, <1>5 DEF EcuType
  <1> HIDE DEF f
  <1>9. CASE ends
    <2>1. ecu' = [f EXCEPT !.cmdPending = FALSE, !.chunkPending = FALSE]
      BY <1>1, <1>8, <1>9 DEF ChunkEnds, f
    <2>2. /\ ecu' \in EcuType /\ ~ ecu'.cmdPending /\ ~ ecu'.chunkPending
          /\ ecu'.calibrating = 0
          /\ ecu'.currentPage = e.currentPage /\ ecu'.isMap = e.isMap
      BY <1>8, <2>1 DEF EcuType
    <2>3. EcuOK'
      BY <2>2 DEF EcuOK
    <2>4. Understood(r) = Request("w", e.currentPage, e.valueOffset, e.chunkSize, <<>>)
      <3>1. /\ r = Request(r.c, r.page, r.offset, r.length, r.values)
        BY <1>2, RequestFields DEF Regular
      <3>2. Understood(r) = [r EXCEPT !.values = <<>>]
        BY Zenon DEF Understood
      <3>3. [r EXCEPT !.values = <<>>] = Request(r.c, r.page, r.offset, r.length, <<>>)
        <4> DEFINE c == r.c
                   page == r.page
                   offset == r.offset
                   length == r.length
                   values == r.values
        <4>1. r = [c |-> c, page |-> page, offset |-> offset, length |-> length, values |-> values]
          BY <3>1 DEF Request
        <4> HIDE DEF c, page, offset, length, values
        <4>2. [r EXCEPT !.values = <<>>] = Request(c, page, offset, length, <<>>)
          BY <4>1 DEF Request
        <4> QED
          BY <4>2 DEF c, page, offset, length
      <3> QED
        BY <3>2, <3>3
    <2>5. owed' = Tail(owed)
      <3>1. Executed(Understood(r))
        BY <1>1, <1>9, <2>4
      <3> QED
        BY <3>1, ExecutedIs
    <2>6. Onward(0, rx', line', owed')
      BY <1>1, <1>6, <1>7, <1>9, <2>5
    <2>7. Consumed' = 0
      BY <2>2, LineAssumption DEF Consumed
    <2>8. OnStage'
      BY <2>6, <2>7 DEF OnStage
    <2>9. PageAfter(r)
      BY <2>2, Zenon DEF PageAfter
    <2>10. Moves
      BY <2>5, <2>9, Zenon DEF Moves
    <2> QED
      BY <1>1, <2>3, <2>8, <2>10, Zenon DEF PollKeeps
  <1>10. CASE ~ ends
    <2>1. ecu' = f /\ owed' = owed
      BY <1>1, <1>8, <1>10 DEF ChunkEnds, f
    <2>2. EcuOK'
      BY <1>8, <2>1 DEF EcuOK
    <2>3. Consumed' = k + n
      BY <1>5, <1>8, <2>1, LineAssumption DEF Consumed
    <2>4. Onward(Consumed', rx', line', owed')
      BY <1>1, <1>7, <2>1, <2>3
    <2>5. Consumed' < Len(Bytes(r))
      BY <1>6, <1>10, <2>3
    <2>6. TakenUp(r)'
      <3>1. Head(owed') = r
        BY <2>1
      <3>2. ~ (ecu'.calibrating > 0) /\ ecu'.calibrating = 0 /\ r.c # "t"
        BY <1>8, <2>1
      <3>3. ecu'.currentCommand = Ord[r.c]
        BY <1>8, <2>1, Zenon
      <3> QED
        BY <1>8, <2>1, <3>1, <3>2, <3>3, Zenon DEF TakenUp
    <2>7. OnStage'
      BY <2>1, <2>4, <2>5, <2>6 DEF OnStage
    <2>8. PageAfter(r)
      BY <1>8, <2>1, Zenon DEF PageAfter
    <2>9. Moves
      BY <2>1, <2>8, Zenon DEF Moves
    <2> QED
      BY <1>1, <2>2, <2>7, <2>9, Zenon DEF PollKeeps
  <1> QED
    BY <1>9, <1>10

LEMMA StartChunkStep ==
  ASSUME lost = 0, EcuOK, OnStage, StartChunk
  PROVE  PollKeeps
  <1> DEFINE r == Head(owed)
             s == Bytes(r)
             b == Behind
             e == ChunkHeader(b)
             rest == SubSeq(b, 7, Len(b))
  <1>1. /\ rx # <<>> /\ ecu.calibrating = 0 /\ Current = Ord.w /\ ~ ecu.chunkPending
        /\ Len(b) >= Needs(ecu, Ord.w) /\ TakeChunk(e, rest)
    BY DEF StartChunk, Polled
  <1>2. /\ owed # <<>> /\ owed \in Seq(Regular) /\ r \in Regular /\ Current = Ord[r.c]
    BY <1>1, Taking
  <1>3. Onward(1, b, line, owed)
    BY <1>1, Taking
  <1>4. r.c = "w"
    <2>1. r.c \in DOMAIN Ord /\ "w" \in DOMAIN Ord
      BY <1>2, RequestFields, Codes DEF Regular
    <2>2. Ord[r.c] = Ord["w"]
      BY <1>1, <1>2, Codes, CodesIndexed, ZenonT(60)
    <2> QED
      BY <2>1, <2>2, SameCode
  <1>5. /\ r.page \in Byte /\ r.offset \in Word /\ r.length \in Word /\ r.length \in Nat
    <2>1. /\ r.page \in Byte /\ r.offset \in Word /\ r.length \in Word
      BY <1>2, RequestFields DEF Regular
    <2> QED
      BY <2>1, Numbers
  <1>6. r.length > 0
    BY <1>2, <1>4, Zenon DEF Regular, WellFormed
  <1>7. /\ Len(s) = 7 + r.length /\ s[3] = r.page
        /\ BytesOfWord(s, 4, r.offset) /\ BytesOfWord(s, 6, r.length)
    <2>1. Laid(r, s)
      BY <1>2, Layout DEF Regular
    <2> QED
      BY <1>4, <2>1, Zenon DEF Laid
  <1>8. b \in Seq(Byte) /\ Len(b) \in Nat
    BY <1>3, OnwardTypes
  <1>9. Len(b) >= 7
    <2>1. Needs(ecu, Ord.w) = 7
      BY NeedsAre, Codes, CodesIndexed
    <2> QED
      BY <1>1, <2>1
  <1>10. 6 \in 0 .. Len(b) /\ 1 + 6 <= Len(s) /\ 1 + 6 = 7 /\ 6 + 1 = 7
    BY <1>5, <1>7, <1>8, <1>9
  <1>11. /\ Onward(1 + 6, SubSeq(b, 6 + 1, Len(b)), line, owed)
         /\ \A j \in 1 .. 6 : b[j] = s[1 + j]
    <2> DEFINE n == 6
    <2>1. n \in 0 .. Len(b) /\ 1 + n <= Len(Bytes(Head(owed)))
      BY <1>10
    <2> HIDE DEF b, n
    <2>2. /\ Onward(1 + n, SubSeq(b, n + 1, Len(b)), line, owed)
          /\ \A j \in 1 .. n : b[j] = Bytes(Head(owed))[1 + j]
      BY <1>2, <1>3, <2>1, ReadOn
    <2> QED
      BY <2>2, Zenon DEF n
  <1>12. Onward(7, rest, line, owed)
    BY <1>10, <1>11
  <1>13. b[2] = s[3] /\ b[3] = s[4] /\ b[4] = s[5] /\ b[5] = s[6] /\ b[6] = s[7]
    BY <1>11
  <1>14. b[2] = r.page /\ word(b[3], b[4]) = r.offset /\ word(b[5], b[6]) = r.length
    <2>1. 4 + 1 = 5 /\ 6 + 1 = 7
      OBVIOUS
    <2> QED
      BY <1>7, <1>13, <2>1, Zenon DEF BytesOfWord
  <1>15. Ord["w"] \in Byte /\ Ord.w = Ord["w"]
    BY Codes, CodesIndexed, CodeByte
  <1> DEFINE page == r.page
             offset == r.offset
             length == r.length
             code == Ord["w"]
  <1>16. e = [ecu EXCEPT !.cmdPending = TRUE, !.currentCommand = code,
                         !.chunkPending = TRUE, !.chunkComplete = 0,
                         !.currentPage = page, !.valueOffset = offset, !.chunkSize = length]
    BY <1>14, <1>15, Zenon DEF ChunkHeader
  <1>17. page \in Byte /\ offset \in Nat /\ length \in Nat /\ length > 0 /\ code \in Byte
    BY <1>5, <1>6, <1>15, Numbers
  <1> HIDE DEF e, page, offset, length, code
  <1>18. /\ e \in EcuType /\ e.chunkPending /\ e.cmdPending /\ e.calibrating = 0
         /\ e.currentCommand = code /\ e.isMap = ecu.isMap
         /\ e.currentPage = page /\ e.valueOffset = offset /\ e.chunkSize = length
         /\ e.chunkComplete = 0
    BY <1>1, <1>16, <1>17 DEF EcuOK, EcuType
  <1>19. 7 + e.chunkComplete = 7 /\ e.chunkComplete < e.chunkSize
    BY <1>17, <1>18
  <1>20. Onward(7 + e.chunkComplete, rest, line, owed)
    BY <1>12, <1>19
  <1>21. /\ e.currentPage = r.page /\ e.valueOffset = r.offset /\ e.chunkSize = r.length
         /\ e.currentCommand = Ord["w"]
    BY <1>18 DEF page, offset, length, code
  <1> HIDE DEF rest
  <1> QED
    BY <1>1, <1>2, <1>4, <1>18, <1>19, <1>20, <1>21, ChunkStep

LEMMA ContinueChunkStep ==
  ASSUME lost = 0, EcuOK, OnStage, ContinueChunk
  PROVE  PollKeeps
  <1> DEFINE r == Head(owed)
             e == [ecu EXCEPT !.cmdPending = TRUE, !.currentCommand = Ord.w]
  <1>1. /\ ecu.calibrating = 0 /\ ecu.chunkPending /\ TakeChunk(e, Behind)
    BY DEF ContinueChunk, Polled
  <1>2. ecu \in EcuType /\ ecu.cmdPending /\ ecu.chunkComplete \in Nat
    BY <1>1 DEF EcuOK, EcuType
  <1>3. Behind = rx
    BY <1>2 DEF Behind
  <1>4. Consumed = 7 + ecu.chunkComplete
    BY <1>1, LineAssumption DEF Consumed
  <1>5. /\ Onward(7 + ecu.chunkComplete, rx, line, owed)
        /\ owed # <<>> /\ 7 + ecu.chunkComplete < Len(Bytes(r)) /\ TakenUp(r)
    BY <1>2, <1>4 DEF OnStage
  <1>6. /\ r.c = "w" /\ ecu.currentCommand = Ord[r.c] /\ ecu.currentPage = r.page
        /\ ecu.valueOffset = r.offset /\ ecu.chunkSize = r.length
    BY <1>1, <1>5, Zenon DEF TakenUp
  <1>7. ecu.currentCommand = Ord.w /\ Ord.w = Ord["w"]
    BY <1>6, Codes, CodesIndexed
  <1>8. e = ecu
    BY <1>2, <1>7 DEF EcuType
  <1>9. Len(Bytes(r)) = 7 + r.length
    <2>1. r \in Regular
      BY <1>5, OnwardTypes
    <2>2. Laid(r, Bytes(r))
      BY <2>1, Layout DEF Regular
    <2> QED
      BY <1>6, <2>2, Zenon DEF Laid
  <1>10. ecu.chunkComplete < ecu.chunkSize
    <2>1. ecu.chunkSize \in Nat
      BY <1>2 DEF EcuType
    <2> QED
      BY <1>2, <1>5, <1>6, <1>9, <2>1
  <1>11. TakeChunk(ecu, rx)
    BY <1>1, <1>3, <1>8
  <1>12. ecu.currentCommand = Ord["w"]
    BY <1>7
  <1> QED
    BY <1>1, <1>2, <1>5, <1>6, <1>10, <1>11, <1>12, ChunkStep

LEMMA PollStep ==
  ASSUME lost = 0, EcuOK, OnStage, owed # <<>> => Selected(Head(owed)), Poll
  PROVE  PollKeeps
  BY CommandStep, AwaitStep, StartChunkStep, ContinueChunkStep, StartCalibrationStep,
     TakeTableStep, TakeCalibrationStep, Zenon DEF Poll

(***************************************************************************)
(* The page that is selected                                               *)
(***************************************************************************)
\* A request W of q finds its page selected, by a request before it or already.
PageReady(q, i) ==
  \/ PageSelected(q, i)
  \/ PageStays(q, 0, i) /\ ecu.currentPage = q[i].page /\ (ecu.isMap <=> IsMapPage(q[i].page))

PagesReady(q) == \A i \in 1 .. Len(q) : q[i].c = "W" => PageReady(q, i)

LEMMA FirstReady ==
  ASSUME NEW q \in Seq(Regular), q # <<>>, PagesReady(q)
  PROVE  Selected(Head(q))
  <1>1. Len(q) \in Nat \ {0}
    BY EmptySeq
  <1>2. Head(q) = q[1] /\ 1 \in 1 .. Len(q) /\ ~ (\E j \in 1 .. 1 - 1 : TRUE)
    BY <1>1
  <1>3. ASSUME q[1].c = "W" PROVE ecu.currentPage = q[1].page /\ (ecu.isMap <=> IsMapPage(q[1].page))
    <2>1. ~ PageSelected(q, 1)
      BY <1>2, Zenon DEF PageSelected
    <2> QED
      BY <1>2, <1>3, <2>1, Zenon DEF PagesReady, PageReady
  <1> QED
    BY <1>2, <1>3, Zenon DEF Selected

\* Whether the page is ready depends on the requests before.
LEMMA ReadyBefore ==
  ASSUME NEW q \in Seq(Regular), PagesReady(q), NEW p \in Seq(Regular),
         \A i \in 1 .. Len(p) : p[i].c = "W" => i <= Len(q) /\ \A j \in 1 .. i : p[j] = q[j]
  PROVE  PagesReady(p)
  <1> SUFFICES ASSUME NEW i \in 1 .. Len(p), p[i].c = "W" PROVE PageReady(p, i)
    BY DEF PagesReady
  <1>1. Len(p) \in Nat /\ Len(q) \in Nat
    BY LenProperties
  <1>2. i \in 1 .. Len(q) /\ p[i] = q[i] /\ \A j \in 1 .. i : p[j] = q[j]
    BY <1>1
  <1>3. PageReady(q, i)
    BY <1>2 DEF PagesReady
  <1>4. ASSUME NEW j \in 0 .. i - 1, PageStays(q, j, i) PROVE PageStays(p, j, i)
    <2> SUFFICES ASSUME NEW k \in j + 1 .. i - 1
                 PROVE  p[k].c # "P" /\ (p[k].c = "w" => p[k].page = p[i].page)
      BY DEF PageStays
    <2>1. k \in 1 .. i
      BY <1>1
    <2> QED
      BY <1>2, <1>4, <2>1 DEF PageStays
  <1>5. CASE PageSelected(q, i)
    <2>1. PICK j \in 1 .. i - 1 : q[j].c = "P" /\ q[j].page = q[i].page /\ PageStays(q, j, i)
      BY <1>5 DEF PageSelected
    <2>2. j \in 1 .. i /\ j \in 0 .. i - 1
      BY <1>1
    <2>3. PageStays(p, j, i)
      BY <1>4, <2>1, <2>2
    <2> QED
      BY <1>2, <2>1, <2>2, <2>3, Zenon DEF PageReady, PageSelected
  <1>6. CASE PageStays(q, 0, i) /\ ecu.currentPage = q[i].page /\ (ecu.isMap <=> IsMapPage(q[i].page))
    <2>1. 0 \in 0 .. i - 1
      BY <1>1
    <2> QED
      BY <1>2, <1>4, <1>6, <2>1 DEF PageReady
  <1> QED
    BY <1>3, <1>5, <1>6 DEF PageReady

\* The first request is executed.
LEMMA ReadyAfterFirst ==
  ASSUME NEW q \in Seq(Regular), q # <<>>, PagesReady(q), PageAfter(Head(q)),
         NEW p, p = Tail(q)
  PROVE  PagesReady(p)'
  <1>1. Len(q) \in Nat \ {0} /\ p \in Seq(Regular) /\ Len(p) = Len(q) - 1
        /\ \A i \in 1 .. Len(p) : p[i] = q[i + 1]
    BY EmptySeq, HeadTailProperties
  <1>2. Head(q) = q[1]
    BY <1>1
  <1> SUFFICES ASSUME NEW i \in 1 .. Len(p), p[i].c = "W" PROVE PageReady(p, i)'
    BY DEF PagesReady
  <1>3. i + 1 \in 1 .. Len(q) /\ p[i] = q[i + 1] /\ i \in Nat
    BY <1>1
  <1>4. PageReady(q, i + 1)
    BY <1>3 DEF PagesReady
  <1>5. ASSUME NEW j \in 1 .. i, PageStays(q, j, i + 1) PROVE PageStays(p, j - 1, i)
    <2> SUFFICES ASSUME NEW k \in (j - 1) + 1 .. i - 1
                 PROVE  p[k].c # "P" /\ (p[k].c = "w" => p[k].page = p[i].page)
      BY DEF PageStays
    <2>1. k \in 1 .. Len(p) /\ k + 1 \in j + 1 .. (i + 1) - 1
      BY <1>1, <1>3
    <2>2. p[k] = q[k + 1]
      BY <1>1, <2>1
    <2> QED
      BY <1>3, <1>5, <2>1, <2>2 DEF PageStays
  <1>6. CASE \E j \in 2 .. i : q[j].c = "P" /\ q[j].page = q[i + 1].page /\ PageStays(q, j, i + 1)
    <2>1. PICK j \in 2 .. i : q[j].c = "P" /\ q[j].page = q[i + 1].page /\ PageStays(q, j, i + 1)
      BY <1>6
    <2>2. j \in 1 .. i /\ j - 1 \in 1 .. i - 1 /\ j - 1 \in 1 .. Len(p) /\ (j - 1) + 1 = j
      BY <1>1, <1>3
    <2>3. p[j - 1] = q[j]
      BY <1>1, <2>2
    <2>4. PageStays(p, j - 1, i)
      BY <1>5, <2>1, <2>2
    <2>5. PageSelected(p, i)
      BY <1>3, <2>1, <2>2, <2>3, <2>4 DEF PageSelected
    <2> QED
      BY <2>5 DEF PageReady
  <1>7. CASE q[1].c = "P" /\ q[1].page = q[i + 1].page /\ PageStays(q, 1, i + 1)
    <2>1. ecu'.currentPage = q[1].page /\ ecu'.isMap = IsMapPage(q[1].page)
      BY <1>2, <1>7, Zenon DEF PageAfter
    <2>2. 1 \in 1 .. i /\ 1 - 1 = 0
      BY <1>3
    <2>3. PageStays(p, 0, i)
      BY <1>5, <1>7, <2>2
    <2> QED
      BY <1>3, <1>7, <2>1, <2>3 DEF PageReady
  <1>8. CASE PageStays(q, 0, i + 1) /\ ecu.currentPage = q[i + 1].page
             /\ (ecu.isMap <=> IsMapPage(q[i + 1].page))
    <2>1. 1 \in 0 + 1 .. (i + 1) - 1
      BY <1>3
    <2>2. q[1].c # "P" /\ (q[1].c = "w" => q[1].page = q[i + 1].page)
      BY <1>8, <2>1 DEF PageStays
    <2>3. ecu'.currentPage = q[i + 1].page /\ ecu'.isMap = ecu.isMap
      <3>1. CASE q[1].c = "w"
        BY <1>2, <2>2, <3>1, Zenon DEF PageAfter
      <3>2. CASE q[1].c # "w"
        BY <1>2, <1>8, <2>2, <3>2, Zenon DEF PageAfter
      <3> QED
        BY <3>1, <3>2
    <2>4. PageStays(p, 0, i)
      <3>1. PageStays(q, 1, i + 1)
        <4> SUFFICES ASSUME NEW k \in 1 + 1 .. (i + 1) - 1
                     PROVE  q[k].c # "P" /\ (q[k].c = "w" => q[k].page = q[i + 1].page)
          BY DEF PageStays
        <4>1. k \in 0 + 1 .. (i + 1) - 1
          BY <1>3
        <4> QED
          BY <1>8, <4>1 DEF PageStays
      <3>2. 1 \in 1 .. i /\ 1 - 1 = 0
        BY <1>3
      <3> QED
        BY <1>5, <3>1, <3>2
    <2> QED
      BY <1>3, <1>8, <2>3, <2>4 DEF PageReady
  <1>9. (i + 1) - 1 = i /\ \A j \in 1 .. i : j = 1 \/ j \in 2 .. i
    BY <1>3
  <1> QED
    BY <1>4, <1>6, <1>7, <1>8, <1>9 DEF PageReady, PageSelected

\* A chunk is begun, which selects its page.
LEMMA ReadyInChunk ==
  ASSUME NEW q \in Seq(Regular), q # <<>>, PagesReady(q), Head(q).c = "w", PageAfter(Head(q))
  PROVE  PagesReady(q)'
  <1>1. Len(q) \in Nat \ {0} /\ Head(q) = q[1]
    BY EmptySeq
  <1>2. ecu'.currentPage = q[1].page /\ ecu'.isMap = ecu.isMap
    BY <1>1, Zenon DEF PageAfter
  <1> SUFFICES ASSUME NEW i \in 1 .. Len(q), q[i].c = "W" PROVE PageReady(q, i)'
    BY DEF PagesReady
  <1>3. PageReady(q, i)
    BY DEF PagesReady
  <1>4. CASE PageSelected(q, i)
    BY <1>4 DEF PageReady
  <1>5. CASE PageStays(q, 0, i) /\ ecu.currentPage = q[i].page /\ (ecu.isMap <=> IsMapPage(q[i].page))
    <2>1. i # 1
      BY <1>1
    <2>2. 1 \in 0 + 1 .. i - 1
      BY <1>1, <2>1
    <2>3. q[1].page = q[i].page
      BY <1>1, <1>5, <2>2 DEF PageStays
    <2> QED
      BY <1>2, <1>5, <2>3 DEF PageReady
  <1> QED
    BY <1>3, <1>4, <1>5 DEF PageReady

LEMMA ReadyStill ==
  ASSUME NEW q, PagesReady(q), SamePage
  PROVE  PagesReady(q)'
  BY DEF PagesReady, PageReady, SamePage

LEMMA TailOfBoth ==
  ASSUME NEW q \in Seq(Regular), q # <<>>, NEW p \in Seq(Regular)
  PROVE  q \o p # <<>> /\ Head(q \o p) = Head(q) /\ Tail(q \o p) = Tail(q) \o p
  <1> DEFINE u == q \o p
             v == Tail(q) \o p
  <1>1. /\ u \in Seq(Regular) /\ Len(u) = Len(q) + Len(p)
        /\ \A i \in 1 .. Len(q) + Len(p) : u[i] = IF i <= Len(q) THEN q[i] ELSE p[i - Len(q)]
    BY ConcatProperties
  <1>2. /\ Tail(q) \in Seq(Regular) /\ Len(Tail(q)) = Len(q) - 1
        /\ \A i \in 1 .. Len(Tail(q)) : Tail(q)[i] = q[i + 1]
    BY HeadTailProperties
  <1>3. Len(q) \in Nat \ {0} /\ Len(p) \in Nat
    BY EmptySeq, LenProperties
  <1>4. /\ v \in Seq(Regular) /\ Len(v) = Len(Tail(q)) + Len(p)
        /\ \A i \in 1 .. Len(Tail(q)) + Len(p) :
              v[i] = IF i <= Len(Tail(q)) THEN Tail(q)[i] ELSE p[i - Len(Tail(q))]
    BY <1>2, ConcatProperties
  <1> HIDE DEF u, v
  <1>5. u # <<>> /\ Head(u) = Head(q)
    BY <1>1, <1>3
  <1>6. /\ Tail(u) \in Seq(Regular) /\ Len(Tail(u)) = Len(u) - 1
        /\ \A i \in 1 .. Len(Tail(u)) : Tail(u)[i] = u[i + 1]
    BY <1>1, <1>5, HeadTailProperties
  <1>7. Len(Tail(u)) = Len(v)
    BY <1>1, <1>2, <1>3, <1>4, <1>6
  <1>8. \A i \in 1 .. Len(Tail(u)) : Tail(u)[i] = v[i]
    <2> TAKE i \in 1 .. Len(Tail(u))
    <2>1. i + 1 \in 1 .. Len(q) + Len(p) /\ i \in 1 .. Len(Tail(q)) + Len(p)
      BY <1>1, <1>2, <1>3, <1>6
    <2>2. Tail(u)[i] = IF i + 1 <= Len(q) THEN q[i + 1] ELSE p[(i + 1) - Len(q)]
      BY <1>1, <1>6, <2>1
    <2>3. v[i] = IF i <= Len(Tail(q)) THEN Tail(q)[i] ELSE p[i - Len(Tail(q))]
      BY <1>4, <2>1
    <2>4. CASE i <= Len(Tail(q))
      <3>1. i \in 1 .. Len(Tail(q)) /\ i + 1 <= Len(q)
        BY <1>2, <1>3, <2>4
      <3> QED
        BY <1>2, <2>2, <2>3, <3>1
    <2>5. CASE ~ (i <= Len(Tail(q)))
      <3>1. ~ (i + 1 <= Len(q)) /\ (i + 1) - Len(q) = i - Len(Tail(q))
        BY <1>2, <1>3, <2>5
      <3> QED
        BY <2>2, <2>3, <2>5, <3>1
    <2> QED
      BY <2>4, <2>5
  <1>9. Tail(u) = v
    BY <1>4, <1>6, <1>7, <1>8, SeqEqual
  <1> QED
    BY <1>5, <1>9 DEF u, v

LEMMA MovedOver ==
  ASSUME NEW q \in Seq(Regular), NEW p \in Seq(Regular), p # <<>>
  PROVE  Append(q, Head(p)) \o Tail(p) = q \o p
  <1> DEFINE a == Append(q, Head(p))
             u == a \o Tail(p)
             v == q \o p
  <1>1. /\ Head(p) \in Regular /\ Tail(p) \in Seq(Regular) /\ Len(Tail(p)) = Len(p) - 1
        /\ \A i \in 1 .. Len(Tail(p)) : Tail(p)[i] = p[i + 1]
    BY HeadTailProperties
  <1>2. Len(p) \in Nat \ {0} /\ Len(q) \in Nat /\ Head(p) = p[1]
    BY EmptySeq, LenProperties
  <1>3. /\ a \in Seq(Regular) /\ Len(a) = Len(q) + 1
        /\ \A i \in 1 .. Len(q) : a[i] = q[i]
        /\ a[Len(q) + 1] = p[1]
    BY <1>1, <1>2, AppendProperties
  <1> HIDE DEF a
  <1>4. /\ u \in Seq(Regular) /\ Len(u) = Len(a) + Len(Tail(p))
        /\ \A i \in 1 .. Len(a) + Len(Tail(p)) :
              u[i] = IF i <= Len(a) THEN a[i] ELSE Tail(p)[i - Len(a)]
    BY <1>1, <1>3, ConcatProperties
  <1>5. /\ v \in Seq(Regular) /\ Len(v) = Len(q) + Len(p)
        /\ \A i \in 1 .. Len(q) + Len(p) : v[i] = IF i <= Len(q) THEN q[i] ELSE p[i - Len(q)]
    BY ConcatProperties
  <1> HIDE DEF u, v
  <1>6. Len(u) = Len(v)
    BY <1>1, <1>2, <1>3, <1>4, <1>5
  <1>7. \A i \in 1 .. Len(u) : u[i] = v[i]
    <2> TAKE i \in 1 .. Len(u)
    <2>1. i \in 1 .. Len(a) + Len(Tail(p)) /\ i \in 1 .. Len(q) + Len(p)
      BY <1>4, <1>5, <1>6
    <2>2. u[i] = IF i <= Len(a) THEN a[i] ELSE Tail(p)[i - Len(a)]
      BY <1>4, <2>1
    <2>3. v[i] = IF i <= Len(q) THEN q[i] ELSE p[i - Len(q)]
      BY <1>5, <2>1
    <2>4. CASE i <= Len(q)
      <3>1. i \in 1 .. Len(q) /\ i <= Len(a)
        BY <1>2, <1>3, <2>1, <2>4
      <3> QED
        BY <1>3, <2>2, <2>3, <3>1
    <2>5. CASE i = Len(q) + 1
      <3>1. i <= Len(a) /\ ~ (i <= Len(q)) /\ i - Len(q) = 1
        BY <1>2, <1>3, <2>5
      <3> QED
        BY <1>3, <2>2, <2>3, <2>5, <3>1
    <2>6. CASE i > Len(q) + 1
      <3>1. /\ ~ (i <= Len(a)) /\ ~ (i <= Len(q)) /\ i - Len(a) \in 1 .. Len(Tail(p))
            /\ (i - Len(a)) + 1 = i - Len(q)
        BY <1>1, <1>2, <1>3, <2>1, <2>6
      <3> QED
        BY <1>1, <2>2, <2>3, <3>1
    <2> QED
      BY <1>2, <2>1, <2>4, <2>5, <2>6
  <1>8. u = v
    BY <1>4, <1>5, <1>6, <1>7, SeqEqual
  <1> QED
    BY <1>8 DEF u, v, a

(***************************************************************************)
(* The software                                                            *)
(***************************************************************************)
IsClient(c) ==
  c = [kind |-> c.kind, plan |-> c.plan, want |-> c.want, waiting |-> c.waiting,
       asked |-> c.asked, wrote |-> c.wrote, running |-> c.running]

ClientOK ==
  /\ IsClient(client)
  /\ client.plan \in Seq(Regular)
  /\ \A i \in 1 .. Len(client.plan) : client.plan[i].c \notin {"H", "J"}
  /\ client.want # <<>> => ProperWant(client.want)
  /\ client.kind = "datalogger" => client.plan = <<>> /\ client.want = <<>>
  /\ client.running \in {"none", "tooth", "composite"}

PlainIsRegular(c) == Plain(c) \in Regular /\ Plain(c).c = c

LEMMA PlainRegular == \A c \in {"A", "H", "h", "J", "j", "T", "V"} : PlainIsRegular(c)
  <1> TAKE c \in {"A", "H", "h", "J", "j", "T", "V"}
  <1>1. c \in DOMAIN Ord
    BY Codes
  <1>2. 0 \in Byte /\ 0 \in Word /\ <<>> \in Seq(Byte)
    BY DEF Byte, Word
  <1> DEFINE r == Plain(c)
  <1>3. r = [c |-> c, page |-> 0, offset |-> 0, length |-> 0, values |-> <<>>]
    BY DEF Plain, Request
  <1> HIDE DEF r
  <1>4. r \in Requests
    BY <1>1, <1>2, <1>3 DEF Requests
  <1>5. r.c = c /\ r.page = 0 /\ r.offset = 0 /\ r.length = 0 /\ r.values = <<>>
    BY <1>3
  <1>6. /\ r.c \notin {"p", "W", "w"} /\ r.c # "P" /\ r.c # "W" /\ r.c # "w" /\ r.c # "t"
    BY <1>5
  <1>7. WellFormed(r)
    BY <1>4, <1>5, <1>6, Zenon DEF WellFormed
  <1> QED
    BY <1>4, <1>5, <1>7 DEF Regular, PlainIsRegular, r

\* The requests that a client that verifies starts again with.
LEMMA RewriteRegular ==
  ASSUME NEW want, ProperWant(want)
  PROVE  /\ Rewrite(want) \in Seq(Regular) /\ Len(Rewrite(want)) = 2
         /\ Rewrite(want)[1].c = "w" /\ Rewrite(want)[2].c = "p"
  <1> DEFINE page == want[1]
             offset == want[2]
             values == want[3]
             length == Len(values)
             u == Write(page, offset, values)
             v == Request("p", page, offset, length, <<>>)
  <1>1. page \in Byte /\ offset \in Word /\ values \in Seq(Byte) /\ length \in Word /\ length # 0
    BY DEF ProperWant
  <1>2. length \in Nat /\ length > 0
    BY <1>1, Numbers
  <1>3. "w" \in DOMAIN Ord /\ "p" \in DOMAIN Ord
    BY Codes
  <1>4. /\ u = [c |-> "w", page |-> page, offset |-> offset, length |-> length, values |-> values]
        /\ v = [c |-> "p", page |-> page, offset |-> offset, length |-> length, values |-> <<>>]
    BY DEF Write, Request
  <1>5. Rewrite(want) = <<u, v>>
    BY DEF Rewrite
  <1>6. Len(values) = length
    OBVIOUS
  <1> HIDE DEF u, v, page, offset, values, length
  <1>7. u \in Requests /\ v \in Requests
    BY <1>1, <1>3, <1>4 DEF Requests
  <1>8. /\ u.c = "w" /\ u.length = length /\ u.values = values
        /\ v.c = "p" /\ v.values = <<>>
    BY <1>4
  <1>9. WellFormed(u)
    BY <1>2, <1>6, <1>7, <1>8 DEF WellFormed
  <1>10. WellFormed(v)
    BY <1>7, <1>8 DEF WellFormed
  <1>11. u \in Regular /\ v \in Regular
    BY <1>7, <1>9, <1>10 DEF Regular
  <1> QED
    BY <1>5, <1>8, <1>11

\* d is c but for these fields, and the two that do not matter here.
Changed(c, d, plan, waits, running) ==
  /\ d.kind = c.kind /\ d.plan = plan /\ d.want = c.want
  /\ d.waiting = waits /\ d.running = running /\ IsClient(d)

LEMMA AllChanged ==
  ASSUME NEW c, IsClient(c), NEW plan, NEW r, NEW wrote, NEW running, NEW waits, NEW d,
         d = [c EXCEPT !.plan = plan, !.waiting = waits, !.asked = r, !.wrote = wrote,
                       !.running = running]
  PROVE  Changed(c, d, plan, waits, running)
  <1> DEFINE kind == c.kind
             was == c.plan
             want == c.want
             waiting == c.waiting
             asked == c.asked
             wrote0 == c.wrote
             ran == c.running
  <1>1. c = [kind |-> kind, plan |-> was, want |-> want, waiting |-> waiting,
             asked |-> asked, wrote |-> wrote0, running |-> ran]
    BY DEF IsClient
  <1>2. kind = c.kind /\ want = c.want /\ ran = c.running /\ was = c.plan
    OBVIOUS
  <1> HIDE DEF kind, was, want, waiting, asked, wrote0, ran
  <1>3. d = [kind |-> kind, plan |-> plan, want |-> want, waiting |-> waits,
             asked |-> r, wrote |-> wrote, running |-> running]
    BY <1>1
  <1> QED
    BY <1>2, <1>3 DEF IsClient, Changed

LEMMA PlanChanged ==
  ASSUME NEW c, IsClient(c), NEW plan, NEW waits, NEW d,
         d = [c EXCEPT !.plan = plan, !.waiting = waits]
  PROVE  Changed(c, d, plan, waits, c.running)
  <1> DEFINE kind == c.kind
             was == c.plan
             want == c.want
             waiting == c.waiting
             asked == c.asked
             wrote0 == c.wrote
             ran == c.running
  <1>1. c = [kind |-> kind, plan |-> was, want |-> want, waiting |-> waiting,
             asked |-> asked, wrote |-> wrote0, running |-> ran]
    BY DEF IsClient
  <1>2. kind = c.kind /\ want = c.want /\ ran = c.running /\ was = c.plan
    OBVIOUS
  <1> HIDE DEF kind, was, want, waiting, asked, wrote0, ran
  <1>3. d = [kind |-> kind, plan |-> plan, want |-> want, waiting |-> waits,
             asked |-> asked, wrote |-> wrote0, running |-> ran]
    BY <1>1
  <1> QED
    BY <1>2, <1>3 DEF IsClient, Changed

LEMMA WaitChanged ==
  ASSUME NEW c, IsClient(c), NEW waits, NEW d,
         d = [c EXCEPT !.waiting = waits]
  PROVE  Changed(c, d, c.plan, waits, c.running)
  <1> DEFINE kind == c.kind
             was == c.plan
             want == c.want
             waiting == c.waiting
             asked == c.asked
             wrote0 == c.wrote
             ran == c.running
  <1>1. c = [kind |-> kind, plan |-> was, want |-> want, waiting |-> waiting,
             asked |-> asked, wrote |-> wrote0, running |-> ran]
    BY DEF IsClient
  <1>2. kind = c.kind /\ want = c.want /\ ran = c.running /\ was = c.plan
    OBVIOUS
  <1> HIDE DEF kind, was, want, waiting, asked, wrote0, ran
  <1>3. d = [kind |-> kind, plan |-> was, want |-> want, waiting |-> waits,
             asked |-> asked, wrote |-> wrote0, running |-> ran]
    BY <1>1
  <1> QED
    BY <1>2, <1>3 DEF IsClient, Changed

LEMMA AfterAgain ==
  ASSUME ClientOK, client.want # <<>>, client' = Again(client)
  PROVE  /\ ClientOK' /\ client'.plan = Rewrite(client.want)
         /\ client'.kind = client.kind /\ client'.want = client.want
         /\ client'.running = client.running
  <1> DEFINE plan == Rewrite(client.want)
  <1>1. client' = [client EXCEPT !.plan = plan, !.waiting = FALSE]
    BY DEF Again, Rewrite
  <1>2. /\ plan \in Seq(Regular) /\ Len(plan) = 2 /\ plan[1].c = "w" /\ plan[2].c = "p"
    BY RewriteRegular DEF ClientOK
  <1>3. \A i \in 1 .. Len(plan) : plan[i].c \notin {"H", "J"}
    <2>1. \A i \in 1 .. 2 : i = 1 \/ i = 2
      OBVIOUS
    <2>2. plan[1].c \notin {"H", "J"} /\ plan[2].c \notin {"H", "J"}
      BY <1>2
    <2> QED
      BY <1>2, <2>1, <2>2
  <1> HIDE DEF plan
  <1>4. /\ client'.kind = client.kind /\ client'.plan = plan /\ client'.want = client.want
        /\ client'.running = client.running /\ IsClient(client')
    <2>1. IsClient(client)
      BY DEF ClientOK
    <2>2. Changed(client, client', plan, FALSE, client.running)
      BY <1>1, <2>1, PlanChanged
    <2> QED
      BY <2>2, Zenon DEF Changed
  <1>5. client.kind # "datalogger"
    BY DEF ClientOK
  <1> QED
    BY <1>2, <1>3, <1>4, <1>5 DEF ClientOK, plan

LEMMA AfterReply ==
  ASSUME ClientOK, client' = [client EXCEPT !.waiting = FALSE]
  PROVE  /\ ClientOK' /\ client'.plan = client.plan
         /\ client'.kind = client.kind /\ client'.want = client.want
         /\ client'.running = client.running
  <1>1. /\ client'.kind = client.kind /\ client'.plan = client.plan /\ client'.want = client.want
        /\ client'.running = client.running /\ IsClient(client')
    <2>1. IsClient(client)
      BY DEF ClientOK
    <2>2. Changed(client, client', client.plan, FALSE, client.running)
      BY <2>1, WaitChanged
    <2> QED
      BY <2>2, Zenon DEF Changed
  <1> QED
    BY <1>1 DEF ClientOK

LEMMA AfterSent ==
  ASSUME ClientOK, NEW r, Sent(r)
  PROVE  /\ ClientOK' /\ client'.plan = (IF client.plan = <<>> THEN <<>> ELSE Tail(client.plan))
         /\ client'.kind = client.kind /\ client'.want = client.want
         /\ client'.running = Running(client, r) /\ client'.waiting = HasReply(r)
  <1> DEFINE plan == IF client.plan = <<>> THEN client.plan ELSE Tail(client.plan)
             waits == HasReply(r)
             wrote == Wrote(client, r)
             running == Running(client, r)
  <1>1. client' = [client EXCEPT !.plan = plan, !.waiting = waits, !.asked = r,
                                 !.wrote = wrote, !.running = running]
    <2>1. client.plan = client.plan
      OBVIOUS
    <2> QED
      BY DEF Sent
  <1>2. plan \in Seq(Regular) /\ \A i \in 1 .. Len(plan) : plan[i].c \notin {"H", "J"}
    <2>1. CASE client.plan = <<>>
      BY <2>1 DEF ClientOK
    <2>2. CASE client.plan # <<>>
      <3>1. /\ plan \in Seq(Regular) /\ Len(plan) = Len(client.plan) - 1
            /\ \A i \in 1 .. Len(plan) : plan[i] = client.plan[i + 1]
        BY <2>2, HeadTailProperties DEF ClientOK
      <3>2. Len(client.plan) \in Nat
        BY LenProperties DEF ClientOK
      <3> HIDE DEF plan
      <3>3. \A i \in 1 .. Len(plan) : i + 1 \in 1 .. Len(client.plan)
        BY <3>1, <3>2
      <3> QED
        BY <3>1, <3>3 DEF ClientOK
    <2> QED
      BY <2>1, <2>2
  <1>3. client.kind = "datalogger" => plan = <<>>
    BY DEF ClientOK
  <1>4. plan = IF client.plan = <<>> THEN <<>> ELSE Tail(client.plan)
    OBVIOUS
  <1>5. running \in {"none", "tooth", "composite"}
    BY Zenon DEF Running, ClientOK
  <1> HIDE DEF plan, waits, wrote, running
  <1>6. /\ client'.kind = client.kind /\ client'.plan = plan /\ client'.want = client.want
        /\ client'.running = running /\ client'.waiting = waits /\ IsClient(client')
    <2>1. IsClient(client)
      BY DEF ClientOK
    <2>2. Changed(client, client', plan, waits, running)
      BY <1>1, <2>1, AllChanged
    <2> QED
      BY <2>2, Zenon DEF Changed
  <1>7. ClientOK'
    BY <1>2, <1>3, <1>5, <1>6 DEF ClientOK
  <1> QED
    BY <1>4, <1>6, <1>7 DEF waits, running

(***************************************************************************)
(* The invariant                                                           *)
(***************************************************************************)
\* As long as no byte is lost, the bytes that have been read, that have arrived and
\* that are on their way are those of the requests owed, and each W of these and of
\* the plan finds its page.
InStepInv ==
  /\ lost \in Nat
  /\ ClientOK
  /\ lost = 0 => EcuOK /\ OnStage /\ PagesReady(owed \o client.plan)

LEMMA OwedRegular == ASSUME OnStage PROVE owed \in Seq(Regular)
  BY OnwardTypes DEF OnStage

LEMMA StartsInStep == Init => InStepInv
  <1> SUFFICES ASSUME Init PROVE InStepInv
    OBVIOUS
  <1> DEFINE c == client
  <1>1. /\ line = <<>> /\ rx = <<>> /\ c \in Clients /\ owed = <<>> /\ lost = 0
        /\ ecu = [cmdPending |-> FALSE, currentCommand |-> 0,
                  chunkPending |-> FALSE, chunkComplete |-> 0, chunkSize |-> 0,
                  valueOffset |-> 0, currentPage |-> 1, isMap |-> TRUE,
                  calibrating |-> 0, tableID |-> 0]
    BY DEF Init
  <1>2. /\ c = Client(c.kind, c.plan, c.want)
        /\ c.plan \in Seq(Requests) /\ ProperPlan(c.plan)
        /\ c.want # <<>> => ProperWant(c.want)
        /\ c.kind = "datalogger" => c.plan = <<>> /\ c.want = <<>>
    BY <1>1, ClientsAssumption
  <1>3. IsClient(c) /\ c.running = "none"
    <2> DEFINE kind == c.kind
               plan == c.plan
               want == c.want
    <2>1. c = Client(kind, plan, want) /\ kind = c.kind /\ plan = c.plan /\ want = c.want
      BY <1>2
    <2> HIDE DEF c, kind, plan, want
    <2> QED
      BY <2>1 DEF Client, IsClient
  <1>4. /\ Len(c.plan) \in Nat /\ DOMAIN c.plan = 1 .. Len(c.plan)
        /\ \A i \in 1 .. Len(c.plan) : c.plan[i] \in Regular /\ c.plan[i].c \notin {"H", "J"}
    <2>1. Len(c.plan) \in Nat /\ DOMAIN c.plan = 1 .. Len(c.plan)
      BY <1>2, LenProperties
    <2>2. \A i \in DOMAIN c.plan : WellFormed(c.plan[i]) /\ c.plan[i].c \notin {"H", "J"}
      BY <1>2 DEF ProperPlan
    <2>3. ASSUME NEW i \in 1 .. Len(c.plan) PROVE c.plan[i] \in Requests
      BY <1>2, <2>3, ElementOfSeq
    <2> QED
      BY <2>1, <2>2, <2>3 DEF Regular
  <1>5. c.plan \in Seq(Regular)
    <2>1. c.plan \in [1 .. Len(c.plan) -> Requests]
      BY <1>2, LenProperties
    <2> DEFINE p == c.plan
               n == Len(p)
    <2>2. n \in Nat /\ p \in [1 .. n -> Requests] /\ \A i \in 1 .. n : p[i] \in Regular
      BY <1>4, <2>1
    <2> HIDE DEF p, n
    <2>3. p \in [1 .. n -> Regular]
      BY <2>2
    <2> QED
      BY <2>2, <2>3 DEF p, n
  <1>6. ClientOK
    BY <1>2, <1>3, <1>4, <1>5 DEF ClientOK
  <1>7. EcuOK
    <2>1. 0 \in Byte /\ 1 \in Byte /\ 0 \in Word
      BY DEF Byte, Word
    <2> QED
      BY <1>1, <2>1 DEF EcuOK, EcuType
  <1>8. OnStage
    <2>1. Consumed = 0
      BY <1>1, LineAssumption DEF Consumed
    <2>2. InTheMidst(<<>>, <<>>, <<>>, <<>>)
      <3>1. <<>> \in Seq(Byte) /\ <<>> \in Seq(Regular) /\ <<>> \o (<<>> \o <<>>) = <<>>
        OBVIOUS
      <3> QED
        BY <3>1, SplitsNone DEF InTheMidst
    <2>3. Onward(0, <<>>, <<>>, <<>>)
      <3>1. Len(<<>>) = 0
        OBVIOUS
      <3> QED
        BY <2>2, <3>1, Zenon DEF Onward
    <2> QED
      BY <1>1, <2>1, <2>3 DEF OnStage
  <1>9. PagesReady(owed \o client.plan)
    <2>1. owed \o c.plan = c.plan
      BY <1>1, <1>5, ConcatEmptySeq
    <2>2. ASSUME NEW i \in 1 .. Len(c.plan), c.plan[i].c = "W" PROVE PageSelected(c.plan, i)
      BY <1>2, <1>4, <2>2 DEF ProperPlan
    <2> QED
      BY <2>1, <2>2, Zenon DEF PagesReady, PageReady
  <1> QED
    BY <1>1, <1>6, <1>7, <1>8, <1>9 DEF InStepInv

LEMMA SentOnStage ==
  ASSUME OnStage, EcuOK, lost = 0, NEW r \in Regular, Sent(r)
  PROVE  EcuOK' /\ OnStage'
  <1>1. line' = line \o Bytes(r) /\ owed' = Append(owed, r) /\ ecu' = ecu /\ rx' = rx
    BY DEF Sent
  <1>2. Onward(Consumed, rx, line, owed)
    BY DEF OnStage
  <1> DEFINE k == Consumed
  <1>3. Consumed' = k
    BY <1>1 DEF Consumed
  <1> HIDE DEF k
  <1>4. Onward(k, rx, line \o Bytes(r), Append(owed, r))
    BY <1>2, OnwardSend DEF k
  <1>5. Consumed > 0 => Head(owed') = Head(owed) /\ owed' # <<>>
    <2>1. owed \in Seq(Regular)
      BY OwedRegular
    <2> QED
      BY <1>1, <2>1, HeadTailAppend, AppendProperties DEF OnStage
  <1>6. EcuOK'
    BY <1>1 DEF EcuOK
  <1>7. Consumed > 0 => TakenUp(Head(owed))'
    BY <1>1, <1>5 DEF OnStage, TakenUp
  <1> QED
    BY <1>1, <1>3, <1>4, <1>5, <1>6, <1>7 DEF OnStage, k

LEMMA ArriveOnStage ==
  ASSUME OnStage, EcuOK, Arrive
  PROVE  EcuOK' /\ OnStage'
  <1> DEFINE n == IF client.kind = "packets" THEN Len(line) ELSE 1
             k == Consumed
  <1>1. /\ line # <<>> /\ rx' = rx \o SubSeq(line, 1, n) /\ line' = SubSeq(line, n + 1, Len(line))
        /\ ecu' = ecu /\ owed' = owed
    BY DEF Arrive
  <1>2. Onward(k, rx, line, owed)
    BY DEF OnStage
  <1>3. line \in Seq(Byte)
    BY <1>2, OnwardTypes
  <1>4. n \in 0 .. Len(line)
    <2>1. Len(line) \in Nat \ {0}
      BY <1>1, <1>3, EmptySeq
    <2> QED
      BY <2>1
  <1>5. Consumed' = k
    BY <1>1 DEF Consumed
  <1> HIDE DEF n, k
  <1>6. Onward(k, rx \o SubSeq(line, 1, n), SubSeq(line, n + 1, Len(line)), owed)
    BY <1>2, <1>4, OnwardArrive
  <1>7. EcuOK'
    BY <1>1 DEF EcuOK
  <1>8. Consumed > 0 => TakenUp(Head(owed))'
    BY <1>1 DEF OnStage, TakenUp
  <1> QED
    BY <1>1, <1>5, <1>6, <1>7, <1>8 DEF OnStage, k

LEMMA StillOnStage ==
  ASSUME OnStage, EcuOK, UNCHANGED <<line, rx, ecu, owed>>
  PROVE  EcuOK' /\ OnStage'
  <1>1. EcuOK'
    BY DEF EcuOK
  <1>2. Consumed' = Consumed
    BY DEF Consumed
  <1>3. Consumed > 0 => TakenUp(Head(owed))'
    BY DEF OnStage, TakenUp
  <1> QED
    BY <1>1, <1>2, <1>3 DEF OnStage

LEMMA LoggerRequestIs ==
  ASSUME ClientOK, NEW r \in LoggerRequests(client.running)
  PROVE  /\ r \in Regular
         /\ client.running = "none" => r.c \in {"H", "J"}
         /\ client.running = "tooth" => r.c \in {"T", "h"}
         /\ client.running = "composite" => r.c \in {"T", "j"}
         /\ r.c # "W"
  <1> DEFINE running == client.running
  <1>1. running \in {"none", "tooth", "composite"}
    BY DEF ClientOK
  <1>2. \A c \in {"H", "J", "h", "j", "T"} : Plain(c) \in Regular /\ Plain(c).c = c
    BY PlainRegular DEF PlainIsRegular
  <1>3. CASE running = "none"
    <2>1. r \in {Plain("H"), Plain("J")}
      BY <1>3, Zenon DEF LoggerRequests
    <2> QED
      BY <1>2, <1>3, <2>1
  <1>4. CASE running = "tooth"
    <2>1. r \in {Plain("T"), Plain("h")}
      BY <1>4, Zenon DEF LoggerRequests
    <2> QED
      BY <1>2, <1>4, <2>1
  <1>5. CASE running = "composite"
    <2>1. r \in {Plain("T"), Plain("j")}
      BY <1>5, Zenon DEF LoggerRequests
    <2> QED
      BY <1>2, <1>5, <2>1
  <1> QED
    BY <1>1, <1>3, <1>4, <1>5

LEMMA PollFrame == Poll => client' = client /\ lost' = lost
  BY DEF Poll, AwaitParameters, Command, Obey, StartChunk, ContinueChunk, TakeChunk,
         StartCalibration, TakeTable, TakeCalibration

\* Pages after a step of the software that sends r.
LEMMA ReadyAfterSent ==
  ASSUME InStepInv, lost = 0, NEW r \in Regular, Sent(r),
         (client.plan # <<>> /\ r = Head(client.plan)) \/ (client.plan = <<>> /\ r.c # "W")
  PROVE  PagesReady(owed \o client.plan)'
  <1>1. owed' = Append(owed, r) /\ SamePage
    BY DEF Sent, SamePage
  <1>2. /\ owed \in Seq(Regular) /\ client.plan \in Seq(Regular)
        /\ PagesReady(owed \o client.plan) /\ ClientOK
    BY OwedRegular DEF InStepInv, ClientOK
  <1>3. client'.plan = IF client.plan = <<>> THEN <<>> ELSE Tail(client.plan)
    BY <1>2, AfterSent
  <1>4. PICK q : q = owed \o client.plan
    OBVIOUS
  <1>5. PICK p : p = owed' \o client'.plan
    OBVIOUS
  <1>6. q \in Seq(Regular)
    BY <1>2, <1>4, ConcatProperties
  <1>7. PagesReady(p)
    <2>1. CASE client.plan # <<>>
      <3>1. p = q
        BY <1>1, <1>2, <1>3, <1>4, <1>5, <2>1, MovedOver
      <3> QED
        BY <1>2, <1>4, <3>1
    <2>2. CASE client.plan = <<>>
      <3>1. q = owed
        BY <1>2, <1>4, <2>2, ConcatEmptySeq
      <3>2. Append(owed, r) \in Seq(Regular)
        BY <1>2, AppendProperties
      <3>3. p = Append(owed, r)
        BY <1>1, <1>3, <1>5, <2>2, <3>2, ConcatEmptySeq
      <3>4. /\ Len(p) = Len(owed) + 1 /\ p[Len(owed) + 1] = r /\ Len(owed) \in Nat
            /\ \A i \in 1 .. Len(owed) : p[i] = owed[i]
        BY <1>2, <3>3, AppendProperties, LenProperties
      <3>5. r.c # "W"
        BY <2>2
      <3>6. \A i \in 1 .. Len(p) : p[i].c = "W" => i <= Len(owed) /\ \A j \in 1 .. i : p[j] = owed[j]
        BY <3>4, <3>5
      <3> QED
        BY <1>2, <1>4, <3>1, <3>2, <3>3, <3>6, ReadyBefore
    <2> QED
      BY <2>1, <2>2
  <1>8. PagesReady(p)'
    BY <1>1, <1>7, ReadyStill
  <1> QED
    BY <1>5, <1>8, Zenon DEF PagesReady, PageReady

\* The client starts again, with requests that have no W.
LEMMA ReadyAfterAgain ==
  ASSUME InStepInv, lost = 0, client.want # <<>>, client' = Again(client), UNCHANGED <<owed, ecu>>
  PROVE  PagesReady(owed \o client.plan)'
  <1>1. owed' = owed /\ SamePage
    BY DEF SamePage
  <1>2. /\ owed \in Seq(Regular) /\ client.plan \in Seq(Regular)
        /\ PagesReady(owed \o client.plan) /\ ClientOK
    BY OwedRegular DEF InStepInv, ClientOK
  <1> DEFINE plan == Rewrite(client.want)
  <1>3. client'.plan = plan
    BY <1>2, AfterAgain
  <1>4. plan \in Seq(Regular) /\ Len(plan) = 2 /\ plan[1].c = "w" /\ plan[2].c = "p"
    BY <1>2, RewriteRegular DEF ClientOK
  <1> HIDE DEF plan
  <1>5. PICK q : q = owed \o client.plan
    OBVIOUS
  <1>6. PICK p : p = owed \o plan
    OBVIOUS
  <1>7. /\ q \in Seq(Regular) /\ Len(q) = Len(owed) + Len(client.plan)
        /\ \A i \in 1 .. Len(owed) + Len(client.plan) :
              q[i] = IF i <= Len(owed) THEN owed[i] ELSE client.plan[i - Len(owed)]
    BY <1>2, <1>5, ConcatProperties
  <1>8. /\ p \in Seq(Regular) /\ Len(p) = Len(owed) + Len(plan)
        /\ \A i \in 1 .. Len(owed) + Len(plan) :
              p[i] = IF i <= Len(owed) THEN owed[i] ELSE plan[i - Len(owed)]
    BY <1>2, <1>4, <1>6, ConcatProperties
  <1>9. Len(owed) \in Nat /\ Len(client.plan) \in Nat
    BY <1>2, LenProperties
  <1>10. ASSUME NEW i \in 1 .. Len(p), p[i].c = "W"
         PROVE  i <= Len(q) /\ \A j \in 1 .. i : p[j] = q[j]
    <2>1. i <= Len(owed)
      <3> SUFFICES ASSUME ~ (i <= Len(owed)) PROVE FALSE
        OBVIOUS
      <3>1. i - Len(owed) = 1 \/ i - Len(owed) = 2
        BY <1>4, <1>8, <1>9
      <3>2. p[i] = plan[i - Len(owed)]
        BY <1>8
      <3> QED
        BY <1>4, <1>10, <3>1, <3>2
    <2>2. ASSUME NEW j \in 1 .. i PROVE p[j] = owed[j] /\ q[j] = owed[j]
      <3>1. /\ j <= Len(owed) /\ j \in 1 .. Len(owed) + Len(plan)
            /\ j \in 1 .. Len(owed) + Len(client.plan)
        BY <1>4, <1>8, <1>9, <2>1
      <3> QED
        BY <1>7, <1>8, <3>1
    <2> QED
      BY <1>7, <1>9, <2>1, <2>2
  <1>11. PagesReady(p)
    BY <1>2, <1>5, <1>7, <1>8, <1>10, ReadyBefore
  <1>12. PagesReady(p)'
    BY <1>1, <1>11, ReadyStill
  <1> QED
    BY <1>1, <1>3, <1>6, <1>12, SMTT(60) DEF PagesReady, PageReady

LEMMA ReadyAfterPoll ==
  ASSUME InStepInv, lost = 0, Moves, client' = client
  PROVE  PagesReady(owed \o client.plan)'
  <1>2. /\ owed \in Seq(Regular) /\ client.plan \in Seq(Regular)
        /\ PagesReady(owed \o client.plan)
    BY OwedRegular DEF InStepInv, ClientOK
  <1>3. PICK q : q = owed \o client.plan
    OBVIOUS
  <1>4. PICK p : p = owed' \o client.plan
    OBVIOUS
  <1>5. q \in Seq(Regular) /\ PagesReady(q)
    BY <1>2, <1>3, ConcatProperties
  <1>6. owed # <<>> => q # <<>> /\ Head(q) = Head(owed) /\ Tail(q) = Tail(owed) \o client.plan
    BY <1>2, <1>3, TailOfBoth
  <1>7. PagesReady(p)'
    <2>1. CASE owed # <<>> /\ owed' = Tail(owed) /\ PageAfter(Head(owed))
      <3>1. p = Tail(q) /\ PageAfter(Head(q)) /\ q # <<>>
        BY <1>4, <1>6, <2>1
      <3> QED
        BY <1>5, <3>1, ReadyAfterFirst
    <2>2. CASE owed' = owed /\ SamePage
      BY <1>3, <1>4, <1>5, <2>2, ReadyStill
    <2>3. CASE owed # <<>> /\ owed' = owed /\ Head(owed).c = "w" /\ PageAfter(Head(owed))
      <3>1. p = q /\ q # <<>> /\ Head(q).c = "w" /\ PageAfter(Head(q))
        BY <1>3, <1>4, <1>6, <2>3
      <3>2. PagesReady(q)'
        BY <1>5, <3>1, ReadyInChunk
      <3> QED
        BY <3>1, <3>2
    <2> QED
      BY <2>1, <2>2, <2>3, Zenon DEF Moves
  <1> QED
    BY <1>4, <1>7, Zenon DEF PagesReady, PageReady

LEMMA FirstIsSelected ==
  ASSUME InStepInv, lost = 0, owed # <<>>
  PROVE  Selected(Head(owed))
  <1>1. OnStage /\ ClientOK /\ PagesReady(owed \o client.plan)
    BY DEF InStepInv
  <1>2. owed \in Seq(Regular) /\ client.plan \in Seq(Regular)
    BY <1>1, OwedRegular DEF ClientOK
  <1>3. PICK q : q = owed \o client.plan
    OBVIOUS
  <1>4. q \in Seq(Regular) /\ q # <<>> /\ Head(q) = Head(owed) /\ PagesReady(q)
    BY <1>1, <1>2, <1>3, TailOfBoth, ConcatProperties
  <1> QED
    BY <1>4, FirstReady

LEMMA NextStaysInStep == InStepInv /\ [Next]_vars => InStepInv'
  <1> SUFFICES ASSUME InStepInv, [Next]_vars PROVE InStepInv'
    OBVIOUS
  <1>1. ClientOK /\ lost \in Nat
    BY DEF InStepInv
  <1>2. lost = 0 => EcuOK /\ OnStage /\ PagesReady(owed \o client.plan)
    BY DEF InStepInv
  <1>3. ASSUME NEW r \in Regular, Sent(r),
               (client.plan # <<>> /\ r = Head(client.plan)) \/ (client.plan = <<>> /\ r.c # "W")
        PROVE  InStepInv'
    <2>1. lost' = lost
      BY <1>3 DEF Sent
    <2>2. ClientOK'
      BY <1>1, <1>3, AfterSent
    <2>3. ASSUME lost = 0 PROVE EcuOK' /\ OnStage' /\ PagesReady(owed \o client.plan)'
      BY <1>2, <1>3, <2>3, SentOnStage, ReadyAfterSent
    <2> QED
      BY <1>1, <2>1, <2>2, <2>3 DEF InStepInv
  <1>4. ASSUME client.want # <<>>, client' = Again(client),
               UNCHANGED <<line, rx, ecu, owed, lost>>
        PROVE  InStepInv'
    <2>1. ClientOK'
      BY <1>1, <1>4, AfterAgain
    <2>2. ASSUME lost = 0 PROVE EcuOK' /\ OnStage' /\ PagesReady(owed \o client.plan)'
      BY <1>2, <1>4, <2>2, StillOnStage, ReadyAfterAgain
    <2> QED
      BY <1>1, <1>4, <2>1, <2>2 DEF InStepInv
  <1>5. ASSUME client'.plan = client.plan, ClientOK', UNCHANGED <<line, rx, ecu, owed, lost>>
        PROVE  InStepInv'
    <2>1. ASSUME lost = 0 PROVE EcuOK' /\ OnStage' /\ PagesReady(owed \o client.plan)'
      <3>1. PICK q : q = owed \o client.plan
        OBVIOUS
      <3>2. SamePage /\ PagesReady(q)
        BY <1>2, <1>5, <2>1, <3>1 DEF SamePage
      <3>3. PagesReady(q)'
        BY <3>2, ReadyStill
      <3>4. PagesReady(owed \o client.plan)'
        BY <1>5, <3>1, <3>3, Zenon DEF PagesReady, PageReady
      <3> QED
        BY <1>2, <1>5, <2>1, <3>4, StillOnStage
    <2> QED
      BY <1>1, <1>5, <2>1 DEF InStepInv
  <1>6. CASE SendPlanned
    <2>1. client.plan # <<>> /\ Sent(Head(client.plan))
      BY <1>6 DEF SendPlanned
    <2>2. PICK r \in Regular : r = Head(client.plan)
      BY <1>1, <2>1, HeadTailProperties DEF ClientOK
    <2>3. /\ Sent(r)
          /\ (client.plan # <<>> /\ r = Head(client.plan)) \/ (client.plan = <<>> /\ r.c # "W")
      BY <2>1, <2>2
    <2> QED
      BY <1>3, <2>3, Zenon
  <1>7. CASE SendLogRequest
    <2>1. client.kind = "datalogger"
      BY <1>7 DEF SendLogRequest
    <2>2. PICK r \in LoggerRequests(client.running) : Sent(r)
      BY <1>7 DEF SendLogRequest
    <2>3. client.plan = <<>>
      BY <1>1, <2>1 DEF ClientOK
    <2>4. r \in Regular /\ r.c # "W"
      BY <1>1, LoggerRequestIs
    <2> QED
      BY <1>3, <2>2, <2>3, <2>4
  <1>8. CASE ReadReply
    <2>1. UNCHANGED <<line, rx, ecu, owed, lost>>
      BY <1>8 DEF ReadReply
    <2>2. CASE client.want # <<>> /\ reply.bytes # client.want[3]
      <3>1. client' = Again(client)
        BY <1>8, <2>2 DEF ReadReply
      <3> QED
        BY <1>4, <2>1, <2>2, <3>1
    <2>3. CASE ~ (client.want # <<>> /\ reply.bytes # client.want[3])
      <3>1. client' = [client EXCEPT !.waiting = FALSE]
        BY <1>8, <2>3 DEF ReadReply
      <3>2. ClientOK' /\ client'.plan = client.plan
        BY <1>1, <3>1, AfterReply
      <3> QED
        BY <1>5, <2>1, <3>2
    <2> QED
      BY <2>2, <2>3
  <1>9. CASE Timeout
    <2>1. client.want # <<>> /\ client' = Again(client) /\ UNCHANGED <<line, rx, ecu, owed, lost>>
      BY <1>9 DEF Timeout
    <2> QED
      BY <1>4, <2>1
  <1>10. CASE Arrive
    <2>1. UNCHANGED <<client, lost, owed, ecu>>
      BY <1>10 DEF Arrive
    <2>2. ClientOK'
      BY <1>1, <2>1 DEF ClientOK
    <2>3. ASSUME lost = 0 PROVE EcuOK' /\ OnStage' /\ PagesReady(owed \o client.plan)'
      <3>1. PICK q : q = owed \o client.plan
        OBVIOUS
      <3>2. SamePage /\ PagesReady(q)
        BY <1>2, <2>1, <2>3, <3>1 DEF SamePage
      <3>3. PagesReady(q)'
        BY <3>2, ReadyStill
      <3>4. PagesReady(owed \o client.plan)'
        BY <2>1, <3>1, <3>3, Zenon DEF PagesReady, PageReady
      <3> QED
        BY <1>2, <1>10, <2>3, <3>4, ArriveOnStage
    <2> QED
      BY <1>1, <2>1, <2>2, <2>3 DEF InStepInv
  <1>11. CASE Lose
    <2>1. lost' = lost + 1 /\ client' = client
      BY <1>11 DEF Lose
    <2>2. lost' \in Nat /\ lost' # 0
      BY <1>1, <2>1
    <2>3. ClientOK'
      BY <1>1, <2>1 DEF ClientOK
    <2> QED
      BY <2>2, <2>3 DEF InStepInv
  <1>12. CASE Poll
    <2>1. client' = client /\ lost' = lost
      BY <1>12, PollFrame
    <2>2. ClientOK'
      BY <1>1, <2>1 DEF ClientOK
    <2>3. ASSUME lost = 0 PROVE EcuOK' /\ OnStage' /\ PagesReady(owed \o client.plan)'
      <3>1. owed # <<>> => Selected(Head(owed))
        BY <2>3, FirstIsSelected
      <3>2. PollKeeps
        BY <1>2, <1>12, <2>3, <3>1, PollStep
      <3>3. EcuOK' /\ OnStage' /\ Moves
        BY <3>2, Zenon DEF PollKeeps
      <3> QED
        BY <2>1, <2>3, <3>3, ReadyAfterPoll
    <2> QED
      BY <1>1, <2>1, <2>2, <2>3 DEF InStepInv
  <1>13. CASE Log \/ UNCHANGED vars
    <2>1. UNCHANGED <<line, rx, ecu, owed, lost, client>>
      BY <1>13 DEF Log, vars, protocolVars
    <2>2. ClientOK'
      BY <1>1, <2>1 DEF ClientOK
    <2> QED
      BY <1>5, <2>1, <2>2
  <1> QED
    BY <1>6, <1>7, <1>8, <1>9, <1>10, <1>11, <1>12, <1>13 DEF Next, ClientActs

LEMMA InvIsInStep == InStepInv => InStep
  <1> SUFFICES ASSUME InStepInv, lost = 0
               PROVE  /\ Plain("?") \notin ToSet(owed)
                      /\ line = <<>> /\ rx = <<>> => owed = <<>>
    BY DEF InStep
  <1>1. OnStage
    BY DEF InStepInv
  <1>2. owed \in Seq(Regular)
    BY <1>1, OwedRegular
  <1>3. Plain("?") \notin ToSet(owed)
    <2> SUFFICES ASSUME NEW i \in DOMAIN owed, owed[i] = Plain("?") PROVE FALSE
      BY DEF ToSet
    <2>1. owed[i] \in Regular
      BY <1>2, LenProperties, ElementOfSeq
    <2>2. owed[i].c \in DOMAIN Ord
      BY <2>1, RequestFields DEF Regular
    <2>3. owed[i].c = "?"
      <3>1. Plain("?").c = "?"
        BY DEF Plain, Request
      <3> QED
        BY <3>1
    <2> QED
      BY <2>2, <2>3, Codes
  <1>4. ASSUME line = <<>>, rx = <<>>, owed # <<>> PROVE FALSE
    <2>1. Onward(Consumed, rx, line, owed)
      BY <1>1 DEF OnStage
    <2>2. Len(Bytes(Head(owed))) <= Consumed + (Len(rx) + Len(line)) /\ Consumed \in Nat
      BY <1>4, <2>1, OnwardEnds, OnwardTypes
    <2>3. Head(owed) \in Regular
      BY <1>4, <2>1, OnwardTypes
    <2>4. Len(Bytes(Head(owed))) \in Nat /\ Len(Bytes(Head(owed))) >= 1
      BY <2>3, BytesAre
    <2>5. Len(rx) = 0 /\ Len(line) = 0
      BY <1>4
    <2>6. Consumed > 0 => Consumed < Len(Bytes(Head(owed)))
      BY <1>1 DEF OnStage
    <2> QED
      BY <2>2, <2>4, <2>5, <2>6
  <1> QED
    BY <1>3, <1>4

\* As long as no byte is lost, command() executes the requests that were sent, each
\* once, in order and with its own parameters, and none is left when all bytes have
\* been read: for every software that keeps to ClientsAssumption, every size of a
\* calibration, and wherever the polls cut the bytes.
THEOREM CommandsAreInStep == Spec => []InStep
  <1>1. Spec => []InStepInv
    BY StartsInStep, NextStaysInStep, PTL DEF Spec
  <1> QED
    BY <1>1, InvIsInStep, PTL

(***************************************************************************)
(* The handlers that the main loop's program will leave attached           *)
(***************************************************************************)
Attaching == {"attach", "attach normal"}

\* Handlers are attached by a program's last access.
AttachesLast(p) == \A i \in 1 .. Len(p) - 1 : p[i] \notin Attaching

LeftBy(access, attached) ==
  IF access = "attach" THEN "logger" ELSE IF access = "attach normal" THEN "normal" ELSE attached

Left(p, attached) == IF p = <<>> THEN attached ELSE LeftBy(p[Len(p)], attached)

LEMMA AccessLeaves ==
  ASSUME LoggerTypeOK, AttachesLast(todo), Access
  PROVE  AttachesLast(todo') /\ Left(todo', logger'.attached) = Left(todo, logger.attached)
  <1> DEFINE h == Head(todo)
             p == todo
             q == Tail(p)
             a == logger.attached
             b == logger'.attached
  <1>1. /\ p \in Seq(Accesses) /\ p # <<>> /\ todo' = q /\ logger \in LoggerType
        /\ logger' = [Accessed(logger, h) EXCEPT !.struck = FALSE]
    BY DEF Access, LoggerTypeOK, LoggerType, N
  <1>2. b = LeftBy(h, a)
    <2>1. CASE h = "attach"
      BY <1>1, <2>1 DEF Accessed, LoggerType, LeftBy
    <2>2. CASE h = "attach normal"
      BY <1>1, <2>2 DEF Accessed, LoggerType, LeftBy
    <2>3. CASE h \notin Attaching
      <3>1. b = a
        BY <2>3, AccessIs DEF Attaching
      <3> QED
        BY <2>3, <3>1, Zenon DEF LeftBy, Attaching
    <2> QED
      BY <2>1, <2>2, <2>3 DEF Attaching
  <1>3. /\ q \in Seq(Accesses) /\ Len(q) = Len(p) - 1 /\ \A i \in 1 .. Len(q) : q[i] = p[i + 1]
        /\ Len(p) \in Nat \ {0} /\ h = p[1]
    BY <1>1, HeadTailProperties, EmptySeq
  <1> HIDE DEF h, p, q, a, b
  <1>4. AttachesLast(q)
    <2> SUFFICES ASSUME NEW i \in 1 .. Len(q) - 1 PROVE q[i] \notin Attaching
      BY DEF AttachesLast
    <2>1. q[i] = p[i + 1] /\ i + 1 \in 1 .. Len(p) - 1
      BY <1>3
    <2> QED
      BY <2>1 DEF AttachesLast, p
  <1>5. CASE Len(p) = 1
    <2>1. q = <<>>
      <3>1. Len(q) = 0
        BY <1>3, <1>5
      <3> QED
        BY <1>3, <3>1, EmptySeq
    <2>2. p[Len(p)] = h
      BY <1>3, <1>5
    <2>3. Left(q, b) = b
      BY <2>1 DEF Left
    <2>4. Left(p, a) = LeftBy(h, a)
      BY <1>1, <2>2 DEF Left, p
    <2> QED
      BY <1>1, <1>2, <1>4, <2>3, <2>4 DEF p, q, a, b
  <1>6. CASE Len(p) # 1
    <2>1. 1 \in 1 .. Len(p) - 1 /\ Len(q) \in 1 .. Len(q) /\ Len(q) + 1 = Len(p)
      BY <1>3, <1>6
    <2>2. q[Len(q)] = p[Len(p)] /\ q # <<>>
      BY <1>3, <2>1
    <2>3. h \notin Attaching
      BY <1>3, <2>1 DEF AttachesLast, p
    <2>4. b = a
      BY <1>2, <2>3, Zenon DEF LeftBy, Attaching
    <2>5. Left(q, b) = Left(p, a)
      BY <1>1, <2>2, <2>4, Zenon DEF Left, p
    <2> QED
      BY <1>1, <1>4, <2>5 DEF p, q, a, b
  <1> QED
    BY <1>5, <1>6

\* Sending a log, or a write of the boost cut's bit, leaves the handlers.
Leaves(p, attached) == AttachesLast(p) /\ Left(p, attached) = attached

LEMMA NoneAttached ==
  ASSUME NEW p \in Seq(Accesses), \A i \in 1 .. Len(p) : p[i] \notin Attaching, NEW attached
  PROVE  Leaves(p, attached)
  <1>1. AttachesLast(p)
    <2>1. \A i \in 1 .. Len(p) - 1 : i \in 1 .. Len(p)
      BY LenProperties
    <2> QED
      BY <2>1 DEF AttachesLast
  <1>2. CASE p = <<>>
    BY <1>1, <1>2, Zenon DEF Leaves, Left
  <1>3. CASE p # <<>>
    <2>1. Len(p) \in 1 .. Len(p)
      BY <1>3, EmptySeq
    <2> QED
      BY <1>1, <1>3, <2>1, Zenon DEF Leaves, Left, LeftBy, Attaching
  <1> QED
    BY <1>2, <1>3

\* What is said of each of one, two or three accesses is said of all.
LEMMA OfProgram ==
  ASSUME NEW a, NEW b, NEW c
  PROVE  /\ a \notin Attaching => \A i \in 1 .. Len(<<a>>) : <<a>>[i] \notin Attaching
         /\ a \notin Attaching /\ b \notin Attaching =>
                \A i \in 1 .. Len(<<a, b>>) : <<a, b>>[i] \notin Attaching
         /\ a \notin Attaching /\ b \notin Attaching /\ c \notin Attaching =>
                \A i \in 1 .. Len(<<a, b, c>>) : <<a, b, c>>[i] \notin Attaching
  <1>1. Len(<<a>>) = 1 /\ <<a>>[1] = a
    OBVIOUS
  <1>2. Len(<<a, b>>) = 2 /\ <<a, b>>[1] = a /\ <<a, b>>[2] = b
    OBVIOUS
  <1>3. Len(<<a, b, c>>) = 3 /\ <<a, b, c>>[1] = a /\ <<a, b, c>>[2] = b /\ <<a, b, c>>[3] = c
    OBVIOUS
  <1>4. /\ \A i \in 1 .. 1 : i = 1
        /\ \A i \in 1 .. 2 : i = 1 \/ i = 2
        /\ \A i \in 1 .. 3 : i = 1 \/ i = 2 \/ i = 3
    OBVIOUS
  <1>5. ASSUME a \notin Attaching PROVE \A i \in 1 .. Len(<<a>>) : <<a>>[i] \notin Attaching
    BY <1>1, <1>4, <1>5, Zenon
  <1>6. ASSUME a \notin Attaching, b \notin Attaching
        PROVE  \A i \in 1 .. Len(<<a, b>>) : <<a, b>>[i] \notin Attaching
    BY <1>2, <1>4, <1>6, Zenon
  <1>7. ASSUME a \notin Attaching, b \notin Attaching, c \notin Attaching
        PROVE  \A i \in 1 .. Len(<<a, b, c>>) : <<a, b, c>>[i] \notin Attaching
    BY <1>3, <1>4, <1>7, Zenon
  <1> QED
    BY <1>5, <1>6, <1>7

LEMMA SendLogLeaves ==
  ASSUME LoggerTypeOK, NEW attached
  PROVE  Leaves(SendLog, attached)
  <1>1. ASSUME NEW tail \in {SendingOnly, SendingAndEmptying}
        PROVE  Leaves(Sends(N, tail), attached)
    <2> DEFINE p == Sends(N, tail)
    <2>1. tail \in Seq(Accesses)
      BY Programs
    <2>2. \A i \in 1 .. Len(tail) : tail[i] \notin Attaching
      <3>1. "not ready" \notin Attaching /\ "index" \notin Attaching /\ "serial index" \notin Attaching
        BY DEF Attaching
      <3>2. \A i \in 1 .. Len(SendingOnly) : SendingOnly[i] \notin Attaching
        BY <3>1, OfProgram, Zenon DEF SendingOnly
      <3>3. \A i \in 1 .. Len(SendingAndEmptying) : SendingAndEmptying[i] \notin Attaching
        BY <3>1, OfProgram, Zenon DEF SendingAndEmptying
      <3> QED
        BY <3>2, <3>3
    <2>3. /\ p \in Seq(Accesses) /\ Len(p) = N + Len(tail) /\ Len(tail) \in Nat /\ N \in Nat
          /\ \A i \in 1 .. N + Len(tail) : p[i] = IF i <= N THEN "send" ELSE tail[i - N]
      BY <2>1, Sizes, SendsSeq, LenProperties
    <2> HIDE DEF p
    <2>4. ASSUME NEW i \in 1 .. Len(p) PROVE p[i] \notin Attaching
      <3>1. CASE i <= N
        BY <2>3, <3>1 DEF Attaching
      <3>2. CASE ~ (i <= N)
        <4>1. p[i] = tail[i - N] /\ i - N \in 1 .. Len(tail)
          BY <2>3, <3>2
        <4> QED
          BY <2>2, <4>1
      <3> QED
        BY <3>1, <3>2
    <2>5. Leaves(p, attached)
      BY <2>3, <2>4, NoneAttached
    <2> QED
      BY <2>5 DEF p
  <1>2. ASSUME NEW p \in {<<>>, <<"zeros">>} PROVE Leaves(p, attached)
    <2>1. \A i \in 1 .. Len(p) : p[i] \notin Attaching
      <3>1. "zeros" \notin Attaching
        BY DEF Attaching
      <3>2. \A i \in 1 .. Len(<<"zeros">>) : <<"zeros">>[i] \notin Attaching
        BY <3>1, OfProgram, Zenon
      <3>3. \A i \in 1 .. Len(<<>>) : <<>>[i] \notin Attaching
        OBVIOUS
      <3> QED
        BY <3>2, <3>3
    <2>2. p \in Seq(Accesses)
      BY Programs
    <2> QED
      BY <2>1, <2>2, NoneAttached
  <1> QED
    BY <1>1, <1>2, SendLogIs, Zenon

LEMMA BoostCutLeaves == ASSUME NEW attached PROVE Leaves(BoostCutBit, attached)
  <1>1. BoostCutBit \in Seq(Accesses)
    BY Programs
  <1>2. \A i \in 1 .. Len(BoostCutBit) : BoostCutBit[i] \notin Attaching
    <2>1. "load status1" \notin Attaching /\ "store status1" \notin Attaching
      BY DEF Attaching
    <2> QED
      BY <2>1, OfProgram, Zenon DEF BoostCutBit
  <1> QED
    BY <1>1, <1>2, NoneAttached

LEMMA StartLeaves ==
  ASSUME NEW p \in {StartToothLog, StartCompositeLog}, NEW attached
  PROVE  AttachesLast(p) /\ Left(p, attached) = "logger"
  <1>1. /\ p \in Seq(Accesses) /\ Len(p) = 6
        /\ p[1] \in {"tooth on", "composite on"}
        /\ p[2] \in {"tooth off", "composite off"}
        /\ p[3] = "not ready" /\ p[4] = "index" /\ p[5] = "serial index" /\ p[6] = "attach"
    BY StartPrograms
  <1>2. \A i \in 1 .. 6 - 1 : i = 1 \/ i = 2 \/ i = 3 \/ i = 4 \/ i = 5
    OBVIOUS
  <1>3. AttachesLast(p)
    BY <1>1, <1>2 DEF AttachesLast, Attaching
  <1>4. p # <<>>
    <2>1. Len(<<>>) = 0
      OBVIOUS
    <2>2. Len(p) # 0
      <3>1. Len(p) = 6
        BY <1>1
      <3> QED
        BY <3>1
    <2> QED
      BY <2>1, <2>2, Zenon
  <1>5. Left(p, attached) = "logger"
    BY <1>1, <1>4 DEF Left, LeftBy
  <1> QED
    BY <1>3, <1>5

LEMMA StopLeaves ==
  ASSUME NEW p \in {StopToothLog, StopCompositeLog}, NEW attached
  PROVE  AttachesLast(p) /\ Left(p, attached) = "normal"
  <1>1. /\ Len(p) = 2 /\ p[1] \in {"tooth off", "composite off"} /\ p[2] = "attach normal"
        /\ p # <<>>
    <2>1. ASSUME NEW a, NEW b PROVE Len(<<a, b>>) = 2 /\ <<a, b>>[1] = a /\ <<a, b>>[2] = b /\ <<a, b>> # <<>>
      OBVIOUS
    <2>2. CASE p = StopToothLog
      <3>1. p = <<"tooth off", "attach normal">>
        BY <2>2 DEF StopToothLog
      <3> QED
        BY <2>1, <3>1
    <2>3. CASE p = StopCompositeLog
      <3>1. p = <<"composite off", "attach normal">>
        BY <2>3 DEF StopCompositeLog
      <3> QED
        BY <2>1, <3>1
    <2> QED
      BY <2>2, <2>3
  <1>2. \A i \in 1 .. 2 - 1 : i = 1
    OBVIOUS
  <1>3. AttachesLast(p)
    BY <1>1, <1>2 DEF AttachesLast, Attaching
  <1>4. Left(p, attached) = "normal"
    BY <1>1 DEF Left, LeftBy
  <1> QED
    BY <1>3, <1>4

(***************************************************************************)
(* The bytes that are on their way, have arrived or are kept are of a set, *)
(* whether or not a byte is lost                                           *)
(***************************************************************************)
Keeps(S) ==
  /\ ecu \in EcuType
  /\ ecu.cmdPending => ecu.currentCommand \in S
  /\ ecu.chunkPending => /\ ecu.cmdPending /\ ecu.currentCommand = Ord["w"]
                         /\ ecu.chunkComplete < ecu.chunkSize
  /\ ecu.calibrating <= CalibrationValues + 1

Holds(S) == line \in Seq(S) /\ rx \in Seq(S) /\ Keeps(S)

\* What a poll leaves.
Leaving(S) == line' = line /\ rx' \in Seq(S) /\ Keeps(S)'

LEMMA PartsOf ==
  ASSUME NEW S, NEW s \in Seq(S), NEW n \in 0 .. Len(s)
  PROVE  /\ SubSeq(s, 1, n) \in Seq(S) /\ Len(SubSeq(s, 1, n)) = n
         /\ SubSeq(s, n + 1, Len(s)) \in Seq(S)
         /\ \A i \in 1 .. n : SubSeq(s, 1, n)[i] \in S
  <1>1. Len(s) \in Nat
    BY LenProperties
  <1>2. \A i \in 1 .. Len(s) : s[i] \in S
    BY ElementOfSeq
  <1>3. SubSeq(s, 1, n) \in Seq(S)
    <2>1. \A i \in 1 .. n : s[i] \in S
      BY <1>1, <1>2
    <2> QED
      BY <2>1, SubSeqProperties
  <1>4. SubSeq(s, n + 1, Len(s)) \in Seq(S)
    <2>1. \A i \in n + 1 .. Len(s) : s[i] \in S
      BY <1>1, <1>2
    <2> QED
      BY <2>1, SubSeqProperties
  <1>5. Len(SubSeq(s, 1, n)) = n
    BY <1>1
  <1>6. \A i \in 1 .. n : SubSeq(s, 1, n)[i] \in S
    BY <1>3, <1>5, ElementOfSeq
  <1> QED
    BY <1>3, <1>4, <1>5, <1>6

LEMMA NeedsFew == ASSUME NEW e, NEW c PROVE Needs(e, c) \in Nat
  BY DEF Needs

\* The command that is taken up and the bytes behind it.
LEMMA TakenUpIn ==
  ASSUME NEW S, Keeps(S), rx \in Seq(S), rx # <<>>
  PROVE  Current \in S /\ Behind \in Seq(S) /\ Len(Behind) \in Nat
  <1>1. CASE ecu.cmdPending
    BY <1>1, LenProperties DEF Current, Behind, Keeps
  <1>2. CASE ~ ecu.cmdPending
    <2>1. Head(rx) \in S /\ Tail(rx) \in Seq(S)
      BY HeadTailProperties
    <2> QED
      BY <1>2, <2>1, LenProperties DEF Current, Behind
  <1> QED
    BY <1>1, <1>2

LEMMA WordOfBytes == ASSUME NEW a \in Byte, NEW b \in Byte PROVE word(a, b) \in Nat
  BY SMT DEF word, Byte

LEMMA BinaryIsByte == ASSUME NEW d \in Byte PROVE Binary(d) \in Byte
  BY SMT DEF Binary, Byte

LEMMA ObeyKeeps ==
  ASSUME NEW S, Keeps(S), ~ ecu.chunkPending, NEW c, NEW args, Obey(c, args),
         \A i \in 1 .. Needs(ecu, c) : args[i] \in Byte
  PROVE  Keeps(S)' /\ line' = line
  <1>0. ecu' = Done(CASE c = Ord.P ->
                       [ecu EXCEPT !.currentPage = Binary(args[1]),
                                   !.isMap = IsMapPage(Binary(args[1]))]
                     [] c \in {Ord.p, Ord.W} ->
                       [ecu EXCEPT !.valueOffset = RequestOf(c, args).offset]
                     [] OTHER -> ecu)
    BY Zenon DEF Obey
  <1>1. ecu \in EcuType /\ line' = line
    BY DEF Keeps, Obey
  <1>2. /\ ecu' \in EcuType /\ ~ ecu'.cmdPending /\ ~ ecu'.chunkPending
        /\ ecu'.calibrating = ecu.calibrating
    <2>1. CASE c = Ord.P
      <3> DEFINE p == Binary(args[1])
                 m == IsMapPage(p)
      <3>1. Needs(ecu, c) = 1
        BY <2>1, Codes, CodesIndexed DEF Needs
      <3>2. args[1] \in Byte
        BY <3>1
      <3>3. p \in Byte /\ m \in BOOLEAN
        BY <3>2, BinaryIsByte DEF IsMapPage
      <3>4. ecu' = Done([ecu EXCEPT !.currentPage = p, !.isMap = m])
        <4>1. c \notin {Ord.p, Ord.W}
          BY <2>1, Codes, CodesIndexed
        <4> HIDE DEF p, m
        <4> QED
          BY <1>0, <2>1, <4>1 DEF p, m
      <3> HIDE DEF p, m
      <3> QED
        BY <1>1, <3>3, <3>4 DEF EcuType, Done
    <2>2. CASE c \in {Ord.p, Ord.W}
      <3> DEFINE o == RequestOf(c, args).offset
      <3>1. ecu' = Done([ecu EXCEPT !.valueOffset = o])
        BY <2>2, Codes, CodesIndexed DEF Obey
      <3>2. o \in Nat
        <4>1. CASE c = Ord.p
          <5>1. Needs(ecu, c) = 6
            BY <4>1, Codes, CodesIndexed DEF Needs
          <5>2. args[3] \in Byte /\ args[4] \in Byte
            BY <5>1
          <5>3. word(args[3], args[4]) \in Nat
            BY <5>2, WordOfBytes
          <5>4. o = word(args[3], args[4])
            BY <4>1, Codes, CodesIndexed DEF RequestOf, Request
          <5> QED
            BY <5>3, <5>4
        <4>2. CASE c = Ord.W
          <5>1. Needs(ecu, c) = IF ecu.isMap THEN 3 ELSE 2
            BY <4>2, Codes, CodesIndexed DEF Needs
          <5>2. args[1] \in Byte /\ args[2] \in Byte
            BY <5>1
          <5>3. word(args[1], args[2]) \in Nat /\ args[1] \in Nat
            BY <5>2, WordOfBytes, Numbers
          <5>4. o = IF ecu.isMap THEN word(args[1], args[2]) ELSE args[1]
            BY <4>2, Codes, CodesIndexed DEF RequestOf, Request
          <5> QED
            BY <5>3, <5>4
        <4> QED
          BY <2>2, <4>1, <4>2
      <3> HIDE DEF o
      <3> QED
        BY <1>1, <3>1, <3>2 DEF EcuType, Done
    <2>3. CASE c \notin {Ord.P, Ord.p, Ord.W}
      <3>1. ecu' = Done(ecu)
        BY <2>3, Zenon DEF Obey
      <3> QED
        BY <1>1, <3>1 DEF EcuType, Done
    <2> QED
      BY <2>1, <2>2, <2>3
  <1>3. ecu'.calibrating <= CalibrationValues + 1
    BY <1>2 DEF Keeps
  <1> QED
    BY <1>1, <1>2, <1>3 DEF Keeps

\* A command has no part of a chunk before it.
LEMMA NoChunk ==
  ASSUME NEW S, Keeps(S), Current # Ord["w"]
  PROVE  ~ ecu.chunkPending
  BY Zenon DEF Keeps, Current

LEMMA CommandLeaves ==
  ASSUME NEW S \in SUBSET Byte, Keeps(S), rx \in Seq(S), Command
  PROVE  Leaving(S)
  <1> DEFINE c == Current
             n == Needs(ecu, c)
             b == Behind
             args == SubSeq(b, 1, n)
  <1>1. /\ rx # <<>> /\ Len(b) >= n /\ c \notin {Ord.w, Ord.t} /\ Obey(c, args)
        /\ rx' = SubSeq(b, n + 1, Len(b))
    BY DEF Command, Polled
  <1>2. b \in Seq(S) /\ Len(b) \in Nat /\ n \in Nat
    BY <1>1, TakenUpIn, NeedsFew
  <1>3. n \in 0 .. Len(b)
    BY <1>1, <1>2
  <1>4. c # Ord["w"]
    BY <1>1, Codes, CodesIndexed
  <1>5. ~ ecu.chunkPending
    BY <1>4, NoChunk
  <1> HIDE DEF c, n, b
  <1>6. rx' \in Seq(S) /\ \A i \in 1 .. n : args[i] \in Byte
    BY <1>1, <1>2, <1>3, PartsOf
  <1> HIDE DEF args
  <1>7. Keeps(S)' /\ line' = line
    BY <1>1, <1>5, <1>6, ObeyKeeps DEF n
  <1> QED
    BY <1>6, <1>7 DEF Leaving

LEMMA AwaitLeaves ==
  ASSUME NEW S \in SUBSET Byte, Keeps(S), rx \in Seq(S), AwaitParameters
  PROVE  Leaving(S)
  <1> DEFINE c == Current
  <1>1. /\ rx # <<>> /\ ~ (c = Ord.w /\ ecu.chunkPending)
        /\ ecu' = [ecu EXCEPT !.cmdPending = TRUE, !.currentCommand = c]
        /\ rx' = Behind /\ line' = line
    BY DEF AwaitParameters, Polled
  <1>2. c \in S /\ Behind \in Seq(S)
    BY <1>1, TakenUpIn
  <1>3. ~ ecu.chunkPending
    <2>1. c = Ord["w"] => c = Ord.w
      BY Codes, CodesIndexed
    <2> QED
      BY <1>1, <2>1, NoChunk
  <1>4. ecu \in EcuType /\ c \in Byte
    BY <1>2 DEF Keeps
  <1> HIDE DEF c
  <1>5. /\ ecu' \in EcuType /\ ecu'.currentCommand = c /\ ~ ecu'.chunkPending
        /\ ecu'.calibrating = ecu.calibrating
    BY <1>1, <1>3, <1>4 DEF EcuType
  <1>6. ecu'.calibrating <= CalibrationValues + 1
    BY <1>5 DEF Keeps
  <1> QED
    BY <1>1, <1>2, <1>5, <1>6 DEF Keeps, Leaving

LEMMA CalibrationLeaves ==
  ASSUME NEW S \in SUBSET Byte, Keeps(S), rx \in Seq(S),
         StartCalibration \/ TakeTable \/ TakeCalibration
  PROVE  Leaving(S)
  <1>1. ecu \in EcuType /\ CalibrationValues \in Nat /\ Len(rx) \in Nat
    BY LineAssumption, LenProperties DEF Keeps
  <1> DEFINE t == Ord.t
             n == CalibrationValues
             m == n + 1
  <1>2. CASE StartCalibration
    <2>1. /\ rx # <<>> /\ Current = t /\ rx' = Tail(rx) /\ line' = line
          /\ ecu' = [ecu EXCEPT !.currentCommand = t, !.calibrating = m]
      BY <1>2 DEF StartCalibration, Polled
    <2>2. t # Ord["w"] /\ t \in S
      BY <2>1, Codes, CodesIndexed, TakenUpIn
    <2>3. ~ ecu.chunkPending /\ t \in Byte
      BY <2>1, <2>2, NoChunk
    <2>4. m \in Nat /\ m <= CalibrationValues + 1
      BY <1>1
    <2> HIDE DEF t, m
    <2>5. /\ ecu' \in EcuType /\ ~ ecu'.chunkPending /\ ecu'.calibrating = m
          /\ ecu'.currentCommand = t
      BY <1>1, <2>1, <2>3, <2>4 DEF EcuType
    <2>6. rx' \in Seq(S)
      BY <2>1, HeadTailProperties
    <2>7. ecu'.calibrating <= CalibrationValues + 1
      BY <2>4, <2>5
    <2> QED
      BY <2>1, <2>2, <2>5, <2>6, <2>7 DEF Leaving, Keeps
  <1>3. CASE TakeTable
    <2> DEFINE id == Head(rx)
    <2>1. /\ rx # <<>> /\ ecu.calibrating = n + 1 /\ rx' = Tail(rx) /\ line' = line
          /\ ecu' = [ecu EXCEPT !.tableID = id, !.calibrating = @ - 1]
      BY <1>3 DEF TakeTable
    <2>2. rx' \in Seq(S) /\ id \in Byte
      BY <2>1, HeadTailProperties
    <2> HIDE DEF n, id
    <2>3. n \in Nat /\ ecu.calibrating - 1 = n
      BY <1>1, <2>1 DEF n
    <2>6. ecu' = [ecu EXCEPT !.tableID = id, !.calibrating = n]
      BY <2>1, <2>3
    <2>4. /\ ecu' \in EcuType /\ ecu'.calibrating = n /\ ecu'.chunkPending = ecu.chunkPending
          /\ ecu'.cmdPending = ecu.cmdPending /\ ecu'.currentCommand = ecu.currentCommand
          /\ ecu'.chunkComplete = ecu.chunkComplete /\ ecu'.chunkSize = ecu.chunkSize
      BY <1>1, <2>2, <2>3, <2>6 DEF EcuType
    <2>5. ecu'.calibrating <= CalibrationValues + 1
      BY <2>3, <2>4 DEF n
    <2> QED
      BY <2>1, <2>2, <2>4, <2>5 DEF Leaving, Keeps
  <1>4. CASE TakeCalibration
    <2> DEFINE w == BytesPerValue(ecu.tableID)
    <2>1. /\ ecu.calibrating \in 1 .. n /\ Len(rx) >= w /\ rx' = SubSeq(rx, w + 1, Len(rx))
          /\ line' = line /\ ecu' = [ecu EXCEPT !.calibrating = @ - 1]
      BY <1>4 DEF TakeCalibration
    <2>2. w = 1 \/ w = 2
      BY SmallBytes
    <2> HIDE DEF n, w
    <2>3. w \in 0 .. Len(rx)
      BY <1>1, <2>1, <2>2
    <2>4. rx' \in Seq(S)
      BY <2>1, <2>3, PartsOf
    <2>5. n \in Nat
      BY <1>1 DEF n
    <2>6. /\ ecu' \in EcuType /\ ecu'.calibrating = ecu.calibrating - 1
          /\ ecu'.chunkPending = ecu.chunkPending
          /\ ecu'.cmdPending = ecu.cmdPending /\ ecu'.currentCommand = ecu.currentCommand
          /\ ecu'.chunkComplete = ecu.chunkComplete /\ ecu'.chunkSize = ecu.chunkSize
      BY <1>1, <2>1, <2>5, SMTT(60) DEF EcuType
    <2>7. ecu'.calibrating <= CalibrationValues + 1
      BY <2>1, <2>5, <2>6 DEF n
    <2> QED
      BY <2>1, <2>4, <2>6, <2>7 DEF Leaving, Keeps
  <1> QED
    BY <1>2, <1>3, <1>4

LEMMA ChunkLeaves ==
  ASSUME NEW S \in SUBSET Byte, Ord["w"] \in S,
         NEW e \in EcuType, e.cmdPending, e.currentCommand = Ord["w"], e.chunkPending,
         e.chunkComplete <= e.chunkSize, e.calibrating <= CalibrationValues + 1,
         NEW bytes \in Seq(S), TakeChunk(e, bytes)
  PROVE  Leaving(S)
  <1> DEFINE room == e.chunkSize - e.chunkComplete
             n == IF Len(bytes) < room THEN Len(bytes) ELSE room
             f == [e EXCEPT !.chunkComplete = @ + n]
  <1>1. /\ ecu' = ChunkEnds(f) /\ rx' = SubSeq(bytes, n + 1, Len(bytes)) /\ line' = line
    BY DEF TakeChunk
  <1>2. e.chunkSize \in Nat /\ e.chunkComplete \in Nat /\ Len(bytes) \in Nat
    BY LenProperties DEF EcuType
  <1>3. room \in Nat
    BY <1>2
  <1>4. n \in 0 .. Len(bytes)
    BY <1>2, <1>3
  <1> DEFINE k == e.chunkComplete + n
  <1>5. k \in Nat
    BY <1>2, <1>4
  <1>6. f = [e EXCEPT !.chunkComplete = k]
    BY DEF EcuType
  <1> HIDE DEF n, k, room, f
  <1>7. /\ f \in EcuType /\ f.cmdPending /\ f.currentCommand = Ord["w"]
        /\ f.calibrating = e.calibrating
    BY <1>5, <1>6 DEF EcuType
  <1>8. rx' \in Seq(S)
    BY <1>1, <1>4, PartsOf
  <1>9. CASE f.chunkComplete >= f.chunkSize
    <2>1. ecu' = [f EXCEPT !.cmdPending = FALSE, !.chunkPending = FALSE]
      BY <1>1, <1>9 DEF ChunkEnds
    <2>2. /\ ecu' \in EcuType /\ ~ ecu'.cmdPending /\ ~ ecu'.chunkPending
          /\ ecu'.calibrating = e.calibrating
      BY <1>7, <2>1 DEF EcuType
    <2>3. ecu'.calibrating <= CalibrationValues + 1
      BY <2>2
    <2> QED
      BY <1>1, <1>8, <2>2, <2>3 DEF Leaving, Keeps
  <1>10. CASE ~ (f.chunkComplete >= f.chunkSize)
    <2>1. ecu' = f
      BY <1>1, <1>10 DEF ChunkEnds
    <2>2. f.chunkComplete < f.chunkSize
      BY <1>7, <1>10 DEF EcuType
    <2>3. ecu'.calibrating <= CalibrationValues + 1
      BY <1>7, <2>1
    <2> QED
      BY <1>1, <1>7, <1>8, <2>1, <2>2, <2>3 DEF Leaving, Keeps
  <1> QED
    BY <1>9, <1>10

LEMMA ChunksLeave ==
  ASSUME NEW S \in SUBSET Byte, Ord["w"] \in S, Keeps(S), rx \in Seq(S),
         StartChunk \/ ContinueChunk
  PROVE  Leaving(S)
  <1> DEFINE b == Behind
  <1>1. rx # <<>> /\ ecu \in EcuType /\ ecu.calibrating <= CalibrationValues + 1
    BY DEF StartChunk, ContinueChunk, Polled, Keeps
  <1>2. b \in Seq(S) /\ Len(b) \in Nat
    BY <1>1, TakenUpIn
  <1>3. CASE StartChunk
    <2> DEFINE e == ChunkHeader(b)
               rest == SubSeq(b, 7, Len(b))
    <2>1. Len(b) >= Needs(ecu, Ord.w) /\ TakeChunk(e, rest)
      BY <1>3 DEF StartChunk
    <2>2. 6 \in 0 .. Len(b) /\ 6 + 1 = 7 /\ Len(b) >= 7
      <3>1. Needs(ecu, Ord.w) = 7
        BY NeedsAre, Codes, CodesIndexed
      <3> QED
        BY <1>2, <2>1, <3>1
    <2>3. rest \in Seq(S)
      <3> DEFINE n == 6
      <3>1. n \in 0 .. Len(b) /\ n + 1 = 7
        BY <2>2
      <3> HIDE DEF n, b
      <3>2. SubSeq(b, n + 1, Len(b)) \in Seq(S)
        BY <1>2, <3>1, PartsOf
      <3> QED
        BY <3>1, <3>2
    <2>4. \A i \in 1 .. 7 : b[i] \in Byte
      <3>1. \A i \in 1 .. 7 : i \in 1 .. Len(b)
        BY <1>2, <2>2
      <3> QED
        BY <1>2, <3>1, ElementOfSeq
    <2>5. /\ b[2] \in Byte /\ word(b[3], b[4]) \in Nat /\ word(b[5], b[6]) \in Nat
      <3>1. b[2] \in Byte /\ b[3] \in Byte /\ b[4] \in Byte /\ b[5] \in Byte /\ b[6] \in Byte
        BY <2>4
      <3> QED
        BY <3>1, WordOfBytes
    <2> DEFINE page == b[2]
               offset == word(b[3], b[4])
               size == word(b[5], b[6])
               code == Ord["w"]
    <2>6. Ord.w = Ord["w"] /\ code \in Byte
      BY Codes, CodesIndexed
    <2>7. e = [ecu EXCEPT !.cmdPending = TRUE, !.currentCommand = code,
                          !.chunkPending = TRUE, !.chunkComplete = 0,
                          !.currentPage = page, !.valueOffset = offset, !.chunkSize = size]
      BY <2>6, Zenon DEF ChunkHeader
    <2>8. page \in Byte /\ offset \in Nat /\ size \in Nat
      BY <2>5
    <2> HIDE DEF e, page, offset, size, code
    <2>9. /\ e \in EcuType /\ e.cmdPending /\ e.currentCommand = code /\ e.chunkPending
          /\ e.chunkComplete = 0 /\ e.chunkSize = size /\ e.calibrating = ecu.calibrating
      BY <1>1, <2>6, <2>7, <2>8 DEF EcuType
    <2>10. e.chunkComplete <= e.chunkSize /\ e.calibrating <= CalibrationValues + 1
      BY <1>1, <2>8, <2>9
    <2>11. e.currentCommand = Ord["w"]
      BY <2>9 DEF code
    <2> HIDE DEF rest
    <2> QED
      BY <2>1, <2>3, <2>9, <2>10, <2>11, ChunkLeaves
  <1>4. CASE ContinueChunk
    <2> DEFINE e == [ecu EXCEPT !.cmdPending = TRUE, !.currentCommand = Ord.w]
    <2>1. ecu.chunkPending /\ TakeChunk(e, b)
      BY <1>4 DEF ContinueChunk
    <2>2. ecu.cmdPending /\ ecu.currentCommand = Ord["w"] /\ ecu.chunkComplete < ecu.chunkSize
      BY <2>1 DEF Keeps
    <2>3. Ord.w = Ord["w"]
      BY Codes, CodesIndexed
    <2>4. e = ecu
      BY <1>1, <2>2, <2>3 DEF EcuType
    <2>5. TakeChunk(ecu, b) /\ ecu.chunkComplete <= ecu.chunkSize
      BY <1>1, <2>1, <2>2, <2>4 DEF EcuType
    <2> HIDE DEF b
    <2> QED
      BY <1>1, <1>2, <2>1, <2>2, <2>5, ChunkLeaves
  <1> QED
    BY <1>3, <1>4

LEMMA PollLeaves ==
  ASSUME NEW S \in SUBSET Byte, Ord["w"] \in S, Keeps(S), rx \in Seq(S), Poll
  PROVE  Leaving(S)
  BY CommandLeaves, AwaitLeaves, ChunksLeave, CalibrationLeaves, Zenon DEF Poll

LEMMA SentHolds ==
  ASSUME NEW S, Holds(S), NEW r, Bytes(r) \in Seq(S), Sent(r)
  PROVE  Holds(S)'
  <1>1. line' = line \o Bytes(r) /\ UNCHANGED <<rx, ecu>>
    BY DEF Sent
  <1>2. line' \in Seq(S)
    BY <1>1, ConcatProperties DEF Holds
  <1> QED
    BY <1>1, <1>2 DEF Holds, Keeps

LEMMA LineHolds ==
  ASSUME NEW S, Holds(S), Arrive \/ Lose
  PROVE  Holds(S)'
  <1>1. ecu' = ecu /\ line \in Seq(S) /\ rx \in Seq(S) /\ line # <<>>
    BY DEF Arrive, Lose, Holds
  <1>2. CASE Arrive
    <2> DEFINE n == IF client.kind = "packets" THEN Len(line) ELSE 1
    <2>1. rx' = rx \o SubSeq(line, 1, n) /\ line' = SubSeq(line, n + 1, Len(line))
      BY <1>2 DEF Arrive
    <2>2. n \in 0 .. Len(line)
      <3>1. Len(line) \in Nat \ {0}
        BY <1>1, EmptySeq, LenProperties
      <3> QED
        BY <3>1
    <2> HIDE DEF n
    <2>3. SubSeq(line, 1, n) \in Seq(S) /\ line' \in Seq(S)
      BY <1>1, <2>1, <2>2, PartsOf
    <2>4. rx' \in Seq(S)
      BY <1>1, <2>1, <2>3, ConcatProperties
    <2> QED
      BY <1>1, <2>3, <2>4 DEF Holds, Keeps
  <1>3. CASE Lose
    <2>1. line' = Tail(line) /\ rx' = rx
      BY <1>3 DEF Lose
    <2>2. line' \in Seq(S)
      BY <1>1, <2>1, HeadTailProperties
    <2> QED
      BY <1>1, <2>1, <2>2 DEF Holds, Keeps
  <1> QED
    BY <1>2, <1>3

LEMMA StillHolds == ASSUME NEW S, Holds(S), UNCHANGED <<line, rx, ecu>> PROVE Holds(S)'
  BY DEF Holds, Keeps

LEMMA PollHolds ==
  ASSUME NEW S \in SUBSET Byte, Ord["w"] \in S, Holds(S), Poll
  PROVE  Holds(S)'
  <1>1. Leaving(S)
    BY PollLeaves DEF Holds
  <1> QED
    BY <1>1 DEF Leaving, Holds, Keeps

LEMMA InitHolds == ASSUME NEW S, Init PROVE Holds(S)
  <1>1. /\ line = <<>> /\ rx = <<>>
        /\ ecu = [cmdPending |-> FALSE, currentCommand |-> 0,
                  chunkPending |-> FALSE, chunkComplete |-> 0, chunkSize |-> 0,
                  valueOffset |-> 0, currentPage |-> 1, isMap |-> TRUE,
                  calibrating |-> 0, tableID |-> 0]
    BY DEF Init
  <1>2. 0 \in Byte /\ 1 \in Byte /\ 0 \in Nat
    BY DEF Byte
  <1>3. /\ ecu \in EcuType /\ ~ ecu.cmdPending /\ ~ ecu.chunkPending /\ ecu.calibrating = 0
    BY <1>1, <1>2 DEF EcuType
  <1>4. ecu.calibrating <= CalibrationValues + 1
    BY <1>3, LineAssumption
  <1> QED
    BY <1>1, <1>3, <1>4 DEF Holds, Keeps

(***************************************************************************)
(* A byte that is lost starts no logger                                    *)
(***************************************************************************)
MayLose == MaxLost > 0 /\ client.want # <<>>

Traffic ==
  /\ Holds(Byte)
  /\ lost <= MaxLost
  /\ lost > 0 => MayLose
  /\ MayLose => Holds(OtherByte) /\ StartsNone(client.plan) /\ StartsNone(Rewrite(client.want))

LEMMA ByteSets ==
  /\ Byte \in SUBSET Byte /\ OtherByte \in SUBSET Byte
  /\ Ord["w"] \in Byte /\ Ord["w"] \in OtherByte
  BY Codes, CodesIndexed DEF OtherByte, Byte

LEMMA TrafficStarts == Init /\ LossStartsNoLogger => Traffic
  <1> SUFFICES ASSUME Init, LossStartsNoLogger PROVE Traffic
    OBVIOUS
  <1>1. Holds(Byte) /\ Holds(OtherByte)
    BY InitHolds
  <1>2. client \in Clients /\ lost = 0
    BY DEF Init
  <1>3. MayLose => StartsNone(client.plan) /\ StartsNone(Rewrite(client.want))
    BY <1>2, Zenon DEF LossStartsNoLogger, MayLose
  <1>4. lost <= MaxLost /\ ~ (lost > 0)
    BY <1>2, LineAssumption
  <1> QED
    BY <1>1, <1>3, <1>4, Zenon DEF Traffic

LEMMA SentTraffic ==
  ASSUME InStepInv, Traffic, NEW r \in Regular, Sent(r),
         (client.plan # <<>> /\ r = Head(client.plan)) \/ client.want = <<>>
  PROVE  Traffic'
  <1>1. ClientOK /\ lost' = lost
    BY DEF InStepInv, Sent
  <1>2. /\ client'.plan = (IF client.plan = <<>> THEN <<>> ELSE Tail(client.plan))
        /\ client'.want = client.want
    BY <1>1, AfterSent
  <1>3. Holds(Byte)'
    <2>1. Bytes(r) \in Seq(Byte)
      BY BytesAre
    <2> QED
      BY <2>1, SentHolds DEF Traffic
  <1>4. MayLose' <=> MayLose
    BY <1>2 DEF MayLose
  <1>5. ASSUME MayLose
        PROVE  Holds(OtherByte)' /\ StartsNone(client'.plan) /\ StartsNone(Rewrite(client'.want))
    <2>1. /\ client.plan # <<>> /\ r = Head(client.plan) /\ client.plan \in Seq(Regular)
          /\ Holds(OtherByte) /\ StartsNone(client.plan) /\ StartsNone(Rewrite(client.want))
      BY <1>1, <1>5 DEF MayLose, Traffic, ClientOK
    <2> DEFINE p == client.plan
               q == Tail(p)
    <2>2. /\ q \in Seq(Regular) /\ Len(q) = Len(p) - 1 /\ Len(p) \in Nat \ {0}
          /\ \A i \in 1 .. Len(q) : q[i] = p[i + 1]
          /\ r = p[1]
      BY <2>1, HeadTailProperties, EmptySeq, LenProperties
    <2>3. client'.plan = q /\ StartsNone(p)
      BY <1>2, <2>1
    <2> HIDE DEF p, q
    <2>4. StartsNone(q)
      <3> SUFFICES ASSUME NEW i \in 1 .. Len(q) PROVE Bytes(q[i]) \in Seq(OtherByte)
        BY DEF StartsNone
      <3>1. q[i] = p[i + 1] /\ i + 1 \in 1 .. Len(p)
        BY <2>2
      <3> QED
        BY <2>3, <3>1 DEF StartsNone
    <2>5. Bytes(r) \in Seq(OtherByte)
      <3>1. 1 \in 1 .. Len(p)
        BY <2>2
      <3> QED
        BY <2>2, <2>3, <3>1 DEF StartsNone
    <2>6. Holds(OtherByte)'
      BY <2>1, <2>5, SentHolds
    <2> QED
      BY <1>2, <2>1, <2>3, <2>4, <2>6
  <1> QED
    BY <1>1, <1>3, <1>4, <1>5 DEF Traffic

\* A client that does not send goes on with its plan, or starts again.
LEMMA OtherTraffic ==
  ASSUME Traffic, lost' = lost, client'.want = client.want,
         \/ client'.plan = client.plan
         \/ client.want # <<>> /\ client'.plan = Rewrite(client.want),
         \A S \in {Byte, OtherByte} : Holds(S) => Holds(S)'
  PROVE  Traffic'
  <1>1. Holds(Byte)'
    BY DEF Traffic
  <1>2. MayLose' <=> MayLose
    BY DEF MayLose
  <1>3. ASSUME MayLose
        PROVE  Holds(OtherByte)' /\ StartsNone(client'.plan) /\ StartsNone(Rewrite(client'.want))
    <2>1. Holds(OtherByte) /\ StartsNone(client.plan) /\ StartsNone(Rewrite(client.want))
      BY <1>3 DEF Traffic
    <2> QED
      BY <2>1
  <1> QED
    BY <1>1, <1>2, <1>3 DEF Traffic

LEMMA TrafficStep ==
  ASSUME InStepInv, Traffic, [Next]_vars
  PROVE  Traffic'
  <1>1. ClientOK /\ lost \in Nat
    BY DEF InStepInv
  <1>2. CASE SendPlanned
    <2>1. client.plan # <<>> /\ Sent(Head(client.plan))
      BY <1>2 DEF SendPlanned
    <2>2. PICK r \in Regular : r = Head(client.plan)
      BY <1>1, <2>1, HeadTailProperties DEF ClientOK
    <2> QED
      BY <2>1, <2>2, SentTraffic
  <1>3. CASE SendLogRequest
    <2>1. client.kind = "datalogger"
      BY <1>3 DEF SendLogRequest
    <2>2. PICK r \in LoggerRequests(client.running) : Sent(r)
      BY <1>3 DEF SendLogRequest
    <2>3. r \in Regular /\ client.want = <<>>
      BY <1>1, <2>1, LoggerRequestIs DEF ClientOK
    <2> QED
      BY <2>2, <2>3, SentTraffic
  <1>4. CASE ReadReply \/ Timeout
    <2>1. UNCHANGED <<line, rx, ecu, lost>>
      BY <1>4 DEF ReadReply, Timeout
    <2>2. \/ client.want # <<>> /\ client' = Again(client)
          \/ client' = [client EXCEPT !.waiting = FALSE]
      BY <1>4 DEF ReadReply, Timeout
    <2>3. /\ client'.want = client.want
          /\ \/ client'.plan = client.plan
             \/ client.want # <<>> /\ client'.plan = Rewrite(client.want)
      BY <1>1, <2>2, AfterAgain, AfterReply
    <2> QED
      BY <2>1, <2>3, StillHolds, OtherTraffic
  <1>5. CASE Arrive
    <2>1. UNCHANGED <<client, lost>>
      BY <1>5 DEF Arrive
    <2> QED
      BY <1>5, <2>1, LineHolds, OtherTraffic
  <1>6. CASE Lose
    <2>1. client.want # <<>> /\ lost < MaxLost /\ lost' = lost + 1 /\ client' = client
      BY <1>6 DEF Lose
    <2>2. lost' <= MaxLost /\ MaxLost > 0
      BY <1>1, <2>1, LineAssumption
    <2>3. MayLose /\ MayLose'
      BY <2>1, <2>2 DEF MayLose
    <2>4. Holds(Byte)' /\ Holds(OtherByte)'
      BY <1>6, <2>3, LineHolds DEF Traffic
    <2> QED
      BY <2>1, <2>2, <2>3, <2>4 DEF Traffic
  <1>7. CASE Poll
    <2>1. client' = client /\ lost' = lost
      BY <1>7, PollFrame
    <2>2. \A S \in {Byte, OtherByte} : Holds(S) => Holds(S)'
      BY <1>7, ByteSets, PollHolds
    <2> QED
      BY <2>1, <2>2, OtherTraffic
  <1>8. CASE Log \/ UNCHANGED vars
    <2>1. UNCHANGED <<line, rx, ecu, lost, client>>
      BY <1>8 DEF Log, vars, protocolVars
    <2> QED
      BY <2>1, StillHolds, OtherTraffic
  <1> QED
    BY <1>2, <1>3, <1>4, <1>5, <1>6, <1>7, <1>8 DEF Next, ClientActs

(***************************************************************************)
(* The logger is used as it is meant to                                    *)
(***************************************************************************)
LoggerLeft == Left(todo, logger.attached)

NoStart(q) == \A i \in 1 .. Len(q) : q[i].c \notin {"H", "J"}

\* A data logger has one request at a time executed, and knows what handlers this
\* leaves attached.
DataLogger ==
  /\ Len(owed) <= 1
  /\ owed = <<>> => (client.running = "none" <=> LoggerLeft = "normal")
  /\ owed # <<>> =>
        /\ Head(owed).c \in {"H", "J", "h", "j", "T"}
        /\ Head(owed).c \in {"H", "J"} => client.running # "none" /\ LoggerLeft = "normal"
        /\ Head(owed).c \in {"h", "j"} => client.running = "none"
        /\ Head(owed).c = "T" => client.running # "none" /\ LoggerLeft = "logger"

Meant ==
  /\ AttachesLast(todo)
  /\ lost = 0 /\ client.kind = "datalogger" => DataLogger
  /\ lost = 0 /\ client.kind # "datalogger" => NoStart(owed)

UseInv == InStepInv /\ Traffic /\ LoggerInv /\ Meant

LEMMA IdleLeft ==
  ASSUME LoggerInv, todo = <<>>
  PROVE  LoggerLeft = logger.attached /\ logger.attached \in {"normal", "logger"}
  BY DEF LoggerInv, LoggerTypeOK, LoggerLeft, Left

LEMMA StillMeant ==
  ASSUME Meant, UNCHANGED <<owed, lost>>, client'.kind = client.kind,
         client'.running = client.running,
         AttachesLast(todo'), LoggerLeft' = LoggerLeft
  PROVE  Meant'
  BY DEF Meant, DataLogger, NoStart

LEMMA LogMeant ==
  ASSUME UseInv, Log
  PROVE  Meant'
  <1>1. LoggerTypeOK /\ Meant /\ AttachesLast(todo) /\ UNCHANGED <<owed, lost, client>>
    BY DEF UseInv, LoggerInv, Meant, Log, protocolVars
  <1>2. AttachesLast(todo') /\ LoggerLeft' = LoggerLeft
    <2>1. CASE Access
      BY <1>1, <2>1, AccessLeaves DEF LoggerLeft
    <2>2. CASE WriteBoostCut
      <3>1. todo = <<>> /\ todo' = BoostCutBit /\ logger' = logger
        BY <2>2 DEF WriteBoostCut
      <3>2. Leaves(BoostCutBit, logger.attached)
        BY BoostCutLeaves
      <3>3. LoggerLeft = logger.attached
        BY <3>1 DEF LoggerLeft, Left
      <3>4. LoggerLeft' = Left(BoostCutBit, logger.attached)
        BY <3>1 DEF LoggerLeft
      <3> QED
        BY <3>1, <3>2, <3>3, <3>4 DEF Leaves
    <2>3. CASE loggerPrimaryISR \/ loggerSecondaryISR
      <3>1. PICK takes \in BOOLEAN : Strike(takes)
        BY <1>1, <2>3, Strikes
      <3>2. todo' = todo /\ logger'.attached = logger.attached
        BY <1>1, <3>1, StrikeIs DEF Strike
      <3> QED
        BY <1>1, <3>2 DEF LoggerLeft
    <2> QED
      BY <1>1, <2>1, <2>2, <2>3 DEF Log
  <1> QED
    BY <1>1, <1>2, StillMeant

LEMMA SentMeant ==
  ASSUME UseInv, NEW r \in Regular, Sent(r), client.kind # "datalogger", r.c \notin {"H", "J"}
  PROVE  Meant'
  <1>1. /\ client'.kind = client.kind /\ lost' = lost /\ todo' = todo
        /\ lost = 0 => owed' = Append(owed, r)
    BY AfterSent DEF UseInv, InStepInv, Sent, logVars
  <1>2. ASSUME lost = 0 PROVE NoStart(owed')
    <2>1. owed \in Seq(Regular) /\ NoStart(owed) /\ owed' = Append(owed, r)
      BY <1>1, <1>2, OwedRegular DEF UseInv, InStepInv, Meant
    <2>2. /\ Len(owed') = Len(owed) + 1 /\ Len(owed) \in Nat
          /\ \A i \in 1 .. Len(owed) : owed'[i] = owed[i]
          /\ owed'[Len(owed) + 1] = r
      BY <2>1, AppendProperties, LenProperties
    <2> SUFFICES ASSUME NEW i \in 1 .. Len(owed') PROVE owed'[i].c \notin {"H", "J"}
      BY DEF NoStart
    <2>3. CASE i \in 1 .. Len(owed)
      BY <2>1, <2>2, <2>3 DEF NoStart
    <2>4. CASE i \notin 1 .. Len(owed)
      <3>1. i = Len(owed) + 1
        BY <2>2, <2>4
      <3> QED
        BY <2>2, <3>1
    <2> QED
      BY <2>3, <2>4
  <1> QED
    BY <1>1, <1>2 DEF UseInv, Meant

LEMMA RequestMeant ==
  ASSUME UseInv, SendLogRequest
  PROVE  Meant'
  <1>1. PICK r \in LoggerRequests(client.running) : Sent(r)
    BY DEF SendLogRequest
  <1>2. /\ client.kind = "datalogger" /\ line = <<>> /\ rx = <<>> /\ todo = <<>>
        /\ ClientOK /\ InStepInv /\ LoggerInv /\ Meant
    BY DEF SendLogRequest, UseInv, InStepInv
  <1>3. /\ client'.kind = client.kind /\ client'.running = Running(client, r)
        /\ lost' = lost /\ todo' = todo /\ logger' = logger
        /\ lost = 0 => owed' = Append(owed, r)
    BY <1>1, <1>2, AfterSent DEF Sent, logVars
  <1>4. /\ r.c \in {"H", "J", "h", "j", "T"}
        /\ client.running = "none" <=> r.c \in {"H", "J"}
    <2>1. client.running \in {"none", "tooth", "composite"}
      BY <1>2 DEF ClientOK
    <2>2. /\ client.running = "none" => r.c \in {"H", "J"}
          /\ client.running = "tooth" => r.c \in {"T", "h"}
          /\ client.running = "composite" => r.c \in {"T", "j"}
      BY <1>2, LoggerRequestIs
    <2>3. client.running # "none" => r.c \notin {"H", "J"}
      BY <2>1, <2>2
    <2> QED
      BY <2>1, <2>2, <2>3
  <1>5. /\ r.c \in {"H", "J"} => client'.running # "none"
        /\ r.c \in {"h", "j"} => client'.running = "none"
        /\ r.c = "T" => client'.running = client.running
    BY <1>3 DEF Running
  <1>6. LoggerLeft = logger.attached /\ logger.attached \in {"normal", "logger"}
    BY <1>2, IdleLeft
  <1>7. LoggerLeft' = LoggerLeft /\ AttachesLast(todo')
    BY <1>2, <1>3 DEF LoggerLeft, Meant
  <1>8. ASSUME lost = 0 PROVE DataLogger'
    <2>1. owed = <<>>
      BY <1>2, <1>8, InvIsInStep DEF InStep
    <2>2. Len(owed') = 1 /\ Head(owed') = r /\ owed' # <<>>
      <3>4. r \in Regular
        BY <1>2, LoggerRequestIs
      <3> DEFINE none == owed
      <3>1. none \in Seq(Regular) /\ owed' = Append(none, r) /\ Len(none) = 0
        BY <1>3, <1>8, <2>1
      <3> HIDE DEF none
      <3>2. Len(owed') = Len(none) + 1 /\ owed'[Len(none) + 1] = r /\ owed' \in Seq(Regular)
        BY <3>1, <3>4, AppendProperties
      <3>3. Len(owed') = 1 /\ owed'[1] = r
        BY <3>1, <3>2
      <3>5. ASSUME NEW q \in Seq(Regular), Len(q) = 1 PROVE Head(q) = q[1] /\ q # <<>>
        BY <3>5
      <3> QED
        BY <3>2, <3>3, <3>5, Zenon
    <2>3. client.running = "none" <=> LoggerLeft = "normal"
      BY <1>2, <1>8, <2>1 DEF Meant, DataLogger
    <2>4. r.c \in {"H", "J"} => LoggerLeft' = "normal"
      BY <1>4, <1>7, <2>3
    <2>5. r.c = "T" => client'.running # "none" /\ LoggerLeft' = "logger"
      BY <1>4, <1>5, <1>6, <1>7, <2>3
    <2>6. Len(owed') <= 1
      BY <2>2
    <2> QED
      BY <1>4, <1>5, <2>2, <2>4, <2>5, <2>6, Zenon DEF DataLogger
  <1> QED
    BY <1>2, <1>3, <1>7, <1>8 DEF Meant

LEMMA ObeyedProgram ==
  ASSUME NEW c, NEW args, Obey(c, args)
  PROVE  /\ c \in {Ord["H"], Ord["J"]} => todo' \in {StartToothLog, StartCompositeLog}
         /\ c \in {Ord["h"], Ord["j"]} => todo' \in {StopToothLog, StopCompositeLog}
         /\ c = Ord["T"] => todo' = SendLog
         /\ c \notin {Ord["H"], Ord["J"], Ord["h"], Ord["j"], Ord["T"]} => todo' = todo
         /\ UNCHANGED <<logger, reading, sent>>
  <1> DEFINE startTooth == StartToothLog
             startComposite == StartCompositeLog
             stopTooth == StopToothLog
             stopComposite == StopCompositeLog
             send == SendLog
  <1>1. /\ todo' = CASE c = Ord.H -> startTooth
                     [] c = Ord.h -> stopTooth
                     [] c = Ord.J -> startComposite
                     [] c = Ord.j -> stopComposite
                     [] c = Ord.T -> send
                     [] OTHER -> todo
        /\ UNCHANGED <<logger, reading, sent>>
    BY Zenon DEF Obey
  <1> HIDE DEF startTooth, startComposite, stopTooth, stopComposite, send
  <1>2. /\ c \in {Ord["H"], Ord["J"]} => todo' \in {startTooth, startComposite}
        /\ c \in {Ord["h"], Ord["j"]} => todo' \in {stopTooth, stopComposite}
        /\ c = Ord["T"] => todo' = send
        /\ c \notin {Ord["H"], Ord["J"], Ord["h"], Ord["j"], Ord["T"]} => todo' = todo
    BY <1>1, Codes, CodesIndexed
  <1> QED
    BY <1>1, <1>2 DEF startTooth, startComposite, stopTooth, stopComposite, send

\* The main loop polls when it is through with the program before.
LEMMA CommandIs ==
  ASSUME Command
  PROVE  /\ \E args : Obey(Current, args)
         /\ todo = <<>> /\ rx # <<>> /\ UNCHANGED <<client, lost>>
  BY DEF Command, Polled, Obey

\* A command executes the first request owed.
LEMMA CommandTakes ==
  ASSUME InStepInv, lost = 0, Command
  PROVE  /\ owed \in Seq(Regular) /\ owed # <<>> /\ Head(owed).c \in DOMAIN Ord
         /\ Current = Ord[Head(owed).c] /\ owed' = Tail(owed)
  <1>1. owed # <<>> /\ owed' = Tail(owed) /\ Current = Ord[Head(owed).c]
    <2>1. EcuOK /\ OnStage /\ (owed # <<>> => Selected(Head(owed)))
      BY FirstIsSelected DEF InStepInv
    <2> QED
      BY <2>1, CommandStep
  <1>2. owed \in Seq(Regular)
    BY OwedRegular DEF InStepInv
  <1>3. Head(owed) \in Regular
    BY <1>1, <1>2, HeadTailProperties
  <1> QED
    BY <1>1, <1>2, <1>3, RequestFields DEF Regular

\* A logger is started when the handlers of the one before are detached.
LEMMA StartsDetached ==
  ASSUME UseInv, Command, Current \in {Ord["H"], Ord["J"]}
  PROVE  logger.attached = "normal" /\ lost = 0 /\ client.kind = "datalogger"
  <1>1. InStepInv /\ Traffic /\ LoggerInv /\ Meant /\ todo = <<>> /\ rx # <<>> /\ lost \in Nat
    BY CommandIs DEF UseInv, InStepInv
  <1>2. lost = 0
    <2> SUFFICES ASSUME lost > 0 PROVE FALSE
      BY <1>1
    <2>1. Holds(OtherByte)
      BY <1>1 DEF Traffic
    <2>2. Current \in OtherByte
      BY <1>1, <2>1, TakenUpIn DEF Holds
    <2> QED
      BY <2>2 DEF OtherByte
  <1> DEFINE r == Head(owed)
  <1>3. /\ owed \in Seq(Regular) /\ owed # <<>> /\ r.c \in DOMAIN Ord /\ Current = Ord[r.c]
    BY <1>1, <1>2, CommandTakes
  <1>4. r.c \in {"H", "J"}
    <2>1. "H" \in DOMAIN Ord /\ "J" \in DOMAIN Ord
      BY Codes
    <2> QED
      BY <1>3, <2>1, SameCode
  <1>5. client.kind = "datalogger"
    <2> SUFFICES ASSUME client.kind # "datalogger" PROVE FALSE
      OBVIOUS
    <2>1. NoStart(owed)
      BY <1>1, <1>2 DEF Meant
    <2>2. r = owed[1] /\ 1 \in 1 .. Len(owed)
      BY <1>3, HeadTailProperties, EmptySeq, LenProperties
    <2> QED
      BY <1>4, <2>1, <2>2 DEF NoStart
  <1>6. LoggerLeft = "normal"
    <2>1. DataLogger
      BY <1>1, <1>2, <1>5 DEF Meant
    <2> QED
      BY <1>3, <1>4, <2>1 DEF DataLogger
  <1> QED
    BY <1>1, <1>2, <1>5, <1>6, IdleLeft

LEMMA CommandUses ==
  ASSUME UseInv, Command
  PROVE  [LoggerNext]_logVars
  <1> DEFINE c == Current
  <1>1. todo = <<>>
    BY CommandIs
  <1>2. PICK args : Obey(c, args)
    BY CommandIs
  <1>3. c \in {Ord["H"], Ord["J"]} => logger.attached = "normal"
    BY StartsDetached
  <1> HIDE DEF c
  <1>4. /\ c \in {Ord["H"], Ord["J"]} => todo' \in {StartToothLog, StartCompositeLog}
        /\ c \in {Ord["h"], Ord["j"]} => todo' \in {StopToothLog, StopCompositeLog}
        /\ c = Ord["T"] => todo' = SendLog
        /\ c \notin {Ord["H"], Ord["J"], Ord["h"], Ord["j"], Ord["T"]} => todo' = todo
        /\ UNCHANGED <<logger, reading, sent>>
    BY <1>2, ObeyedProgram
  <1>5. CASE c \in {Ord["H"], Ord["J"]}
    <2>1. ObeyStart
      BY <1>3, <1>4, <1>5, Zenon DEF ObeyStart
    <2> QED
      BY <1>1, <1>4, <2>1, Zenon DEF ObeyCommand, LoggerNext
  <1>6. CASE c \in {Ord["h"], Ord["j"]}
    <2>1. ObeyStop
      BY <1>4, <1>6, Zenon DEF ObeyStop
    <2> QED
      BY <1>1, <1>4, <2>1, Zenon DEF ObeyCommand, LoggerNext
  <1>7. CASE c = Ord["T"]
    <2>1. ObeySend
      BY <1>4, <1>7, Zenon DEF ObeySend
    <2> QED
      BY <1>1, <1>4, <2>1, Zenon DEF ObeyCommand, LoggerNext
  <1>8. CASE c \notin {Ord["H"], Ord["J"], Ord["h"], Ord["j"], Ord["T"]}
    BY <1>4, <1>8, Zenon DEF logVars
  <1> QED
    BY <1>5, <1>6, <1>7, <1>8

\* What is left of a program that a command starts, by the command.
LEMMA CommandAttaches ==
  ASSUME UseInv, Command
  PROVE  /\ AttachesLast(todo')
         /\ Current \in {Ord["H"], Ord["J"]} => LoggerLeft' = "logger"
         /\ Current \in {Ord["h"], Ord["j"]} => LoggerLeft' = "normal"
         /\ Current \notin {Ord["H"], Ord["J"], Ord["h"], Ord["j"]} => LoggerLeft' = LoggerLeft
  <1> DEFINE c == Current
  <1>1. todo = <<>> /\ LoggerTypeOK /\ LoggerInv /\ Meant
    BY CommandIs DEF UseInv, LoggerInv
  <1>2. PICK args : Obey(c, args)
    BY CommandIs
  <1> HIDE DEF c
  <1>3. /\ c \in {Ord["H"], Ord["J"]} => todo' \in {StartToothLog, StartCompositeLog}
        /\ c \in {Ord["h"], Ord["j"]} => todo' \in {StopToothLog, StopCompositeLog}
        /\ c = Ord["T"] => todo' = SendLog
        /\ c \notin {Ord["H"], Ord["J"], Ord["h"], Ord["j"], Ord["T"]} => todo' = todo
        /\ UNCHANGED <<logger, reading, sent>>
    BY <1>2, ObeyedProgram
  <1>4. LoggerLeft' = Left(todo', logger.attached) /\ LoggerLeft = logger.attached
    BY <1>1, <1>3, IdleLeft DEF LoggerLeft
  <1>5. c \in {Ord["H"], Ord["J"]} => AttachesLast(todo') /\ LoggerLeft' = "logger"
    BY <1>3, <1>4, StartLeaves
  <1>6. c \in {Ord["h"], Ord["j"]} => AttachesLast(todo') /\ LoggerLeft' = "normal"
    BY <1>3, <1>4, StopLeaves
  <1>7. c = Ord["T"] => AttachesLast(todo') /\ LoggerLeft' = LoggerLeft
    BY <1>1, <1>3, <1>4, SendLogLeaves DEF Leaves
  <1>8. c \notin {Ord["H"], Ord["J"], Ord["h"], Ord["j"], Ord["T"]} =>
            AttachesLast(todo') /\ LoggerLeft' = LoggerLeft
    BY <1>1, <1>3 DEF Meant, LoggerLeft
  <1>9. Ord["T"] \notin {Ord["H"], Ord["J"], Ord["h"], Ord["j"]}
    BY Codes, CodesIndexed
  <1> QED
    BY <1>5, <1>6, <1>7, <1>8, <1>9, Codes, CodesIndexed DEF c

LEMMA TailStartsNone ==
  ASSUME NEW q \in Seq(Regular), q # <<>>, NoStart(q)
  PROVE  NoStart(Tail(q))
  <1>1. /\ Len(Tail(q)) = Len(q) - 1 /\ Len(q) \in Nat
        /\ \A i \in 1 .. Len(Tail(q)) : Tail(q)[i] = q[i + 1]
    BY HeadTailProperties, LenProperties
  <1> SUFFICES ASSUME NEW i \in 1 .. Len(Tail(q)) PROVE Tail(q)[i].c \notin {"H", "J"}
    BY DEF NoStart
  <1>2. i + 1 \in 1 .. Len(q) /\ Tail(q)[i] = q[i + 1]
    BY <1>1
  <1> QED
    BY <1>2 DEF NoStart

LEMMA CommandMeant ==
  ASSUME UseInv, Command
  PROVE  Meant'
  <1> DEFINE r == Head(owed)
  <1>1. InStepInv /\ Meant /\ client' = client /\ lost' = lost
    BY CommandIs DEF UseInv
  <1>2. AttachesLast(todo')
    BY CommandAttaches
  <1>3. ASSUME lost = 0, client.kind # "datalogger" PROVE NoStart(owed')
    <2>1. owed \in Seq(Regular) /\ owed # <<>> /\ owed' = Tail(owed)
      BY <1>1, <1>3, CommandTakes
    <2>2. NoStart(owed)
      BY <1>1, <1>3 DEF Meant
    <2> QED
      BY <2>1, <2>2, TailStartsNone
  <1>4. ASSUME lost = 0, client.kind = "datalogger" PROVE DataLogger'
    <2>1. /\ owed \in Seq(Regular) /\ owed # <<>> /\ r.c \in DOMAIN Ord /\ Current = Ord[r.c]
          /\ owed' = Tail(owed)
      BY <1>1, <1>4, CommandTakes
    <2>2. DataLogger
      BY <1>1, <1>4 DEF Meant
    <2>3. Len(owed') = 0 /\ owed' = <<>>
      <3>1. Len(owed) \in Nat \ {0} /\ Len(owed) <= 1 /\ Len(owed') = Len(owed) - 1
            /\ owed' \in Seq(Regular)
        BY <2>1, <2>2, HeadTailProperties, EmptySeq, LenProperties DEF DataLogger
      <3>2. Len(owed') = 0
        BY <3>1
      <3> QED
        BY <3>1, <3>2, EmptySeq
    <2>4. /\ r.c \in {"H", "J", "h", "j", "T"}
          /\ r.c \in {"H", "J"} => client.running # "none"
          /\ r.c \in {"h", "j"} => client.running = "none"
          /\ r.c = "T" => client.running # "none" /\ LoggerLeft = "logger"
      BY <2>1, <2>2 DEF DataLogger
    <2>5. client.running = "none" <=> LoggerLeft' = "normal"
      <3>1. CASE r.c \in {"H", "J"}
        <4>1. Current \in {Ord["H"], Ord["J"]}
          BY <2>1, <3>1
        <4>2. LoggerLeft' = "logger"
          BY <4>1, CommandAttaches
        <4> QED
          BY <2>4, <3>1, <4>2
      <3>2. CASE r.c \in {"h", "j"}
        <4>1. Current \in {Ord["h"], Ord["j"]}
          BY <2>1, <3>2
        <4>2. LoggerLeft' = "normal"
          BY <4>1, CommandAttaches
        <4> QED
          BY <2>4, <3>2, <4>2
      <3>3. CASE r.c = "T"
        <4>1. Current \notin {Ord["H"], Ord["J"], Ord["h"], Ord["j"]}
          <5>1. Current = Ord["T"]
            BY <2>1, <3>3
          <5> QED
            BY <5>1, Codes, CodesIndexed
        <4>2. LoggerLeft' = LoggerLeft
          BY <4>1, CommandAttaches
        <4> QED
          BY <2>4, <3>3, <4>2
      <3> QED
        BY <2>4, <3>1, <3>2, <3>3
    <2>6. Len(owed') <= 1 /\ client'.running = client.running
      BY <1>1, <2>3
    <2> QED
      BY <2>3, <2>5, <2>6, Zenon DEF DataLogger
  <1> QED
    BY <1>1, <1>2, <1>3, <1>4, Zenon DEF Meant

\* A poll that is no command leaves the logger, and executes only a w or a t.
LEMMA OtherPoll ==
  ASSUME UseInv, Poll, ~ Command
  PROVE  /\ UNCHANGED logVars /\ client' = client /\ lost' = lost
         /\ lost = 0 =>
               \/ owed' = owed
               \/ /\ owed \in Seq(Regular) /\ owed # <<>> /\ owed' = Tail(owed)
                  /\ Head(owed).c \in {"w", "t"}
  <1>1. client' = client /\ lost' = lost
    BY PollFrame
  <1>2. UNCHANGED logVars
    BY DEF Poll, AwaitParameters, StartChunk, ContinueChunk, StartCalibration, TakeTable,
           TakeCalibration, TakeChunk
  <1>3. ASSUME lost = 0, owed' # owed
        PROVE  /\ owed \in Seq(Regular) /\ owed # <<>> /\ owed' = Tail(owed)
               /\ Head(owed).c \in {"w", "t"}
    <2> DEFINE r == Head(owed)
    <2>1. EcuOK /\ OnStage /\ (owed # <<>> => Selected(r))
      BY <1>3, FirstIsSelected DEF UseInv, InStepInv
    <2>2. Moves
      BY <1>3, <2>1, PollStep DEF PollKeeps
    <2>3. owed # <<>> /\ owed' = Tail(owed)
      BY <1>3, <2>2, Zenon DEF Moves
    <2>4. owed \in Seq(Regular) /\ r \in Regular
      BY <2>1, <2>3, OwedRegular, HeadTailProperties
    <2>5. CASE StartChunk
      <3>1. /\ rx # <<>> /\ ecu.calibrating = 0 /\ Current = Ord.w /\ ~ ecu.chunkPending
        BY <2>5 DEF StartChunk, Polled
      <3>2. Ord[r.c] = Ord["w"]
        BY <2>1, <3>1, Taking, Codes, CodesIndexed
      <3>3. r.c \in DOMAIN Ord /\ "w" \in DOMAIN Ord
        BY <2>4, RequestFields, Codes DEF Regular
      <3>4. r.c = "w"
        BY <3>2, <3>3, SameCode
      <3> QED
        BY <2>3, <2>4, <3>4
    <2>6. CASE ContinueChunk
      <3>1. ecu.calibrating = 0 /\ ecu.chunkPending /\ ecu.chunkComplete \in Nat
        BY <2>1, <2>6 DEF ContinueChunk, Polled, EcuOK, EcuType
      <3>2. Consumed > 0
        BY <3>1, LineAssumption DEF Consumed
      <3>3. r.c = "w"
        BY <2>1, <3>1, <3>2 DEF OnStage, TakenUp
      <3> QED
        BY <2>3, <2>4, <3>3
    <2>7. CASE TakeCalibration
      <3>1. ecu.calibrating \in 1 .. CalibrationValues
        BY <2>7 DEF TakeCalibration
      <3>2. Consumed > 0
        <4> DEFINE k == CalibrationValues - ecu.calibrating
                   w == BytesPerValue(ecu.tableID)
        <4>1. ecu.calibrating > 0 /\ ~ (ecu.calibrating > CalibrationValues) /\ k \in Nat
          BY <3>1, LineAssumption
        <4>2. w = 1 \/ w = 2
          BY SmallBytes
        <4>3. Consumed = 2 + k * w
          BY <4>1 DEF Consumed
        <4> HIDE DEF k, w
        <4>4. k * 1 \in Nat /\ k * 2 \in Nat
          BY <4>1
        <4>5. k * w \in Nat
          BY <4>2, <4>4
        <4> QED
          BY <4>3, <4>5
      <3>3. ecu.calibrating > 0
        BY <3>1, LineAssumption
      <3>4. r.c = "t"
        BY <2>1, <3>2, <3>3 DEF OnStage, TakenUp
      <3> QED
        BY <2>3, <2>4, <3>4
    <2>8. CASE AwaitParameters \/ StartCalibration \/ TakeTable
      BY <1>3, <2>8 DEF AwaitParameters, StartCalibration, TakeTable
    <2> QED
      BY <2>5, <2>6, <2>7, <2>8 DEF Poll
  <1> QED
    BY <1>1, <1>2, <1>3

LEMMA PollMeant ==
  ASSUME UseInv, Poll
  PROVE  Meant'
  <1>1. CASE Command
    BY <1>1, CommandMeant
  <1>2. CASE ~ Command
    <2>1. /\ UNCHANGED logVars /\ client' = client /\ lost' = lost /\ Meant
          /\ lost = 0 =>
               \/ owed' = owed
               \/ /\ owed \in Seq(Regular) /\ owed # <<>> /\ owed' = Tail(owed)
                  /\ Head(owed).c \in {"w", "t"}
      BY <1>2, OtherPoll DEF UseInv
    <2>2. AttachesLast(todo') /\ LoggerLeft' = LoggerLeft
      BY <2>1 DEF Meant, LoggerLeft, logVars
    <2>3. CASE owed' = owed
      BY <2>1, <2>2, <2>3, StillMeant
    <2>4. CASE lost = 0 /\ owed' # owed
      <3>1. client.kind # "datalogger"
        BY <2>1, <2>4 DEF Meant, DataLogger
      <3>2. NoStart(owed')
        BY <2>1, <2>4, <3>1, TailStartsNone DEF Meant
      <3> QED
        BY <2>1, <2>2, <3>1, <3>2 DEF Meant
    <2>5. CASE lost # 0
      BY <2>1, <2>2, <2>5 DEF Meant
    <2> QED
      BY <2>3, <2>4, <2>5
  <1> QED
    BY <1>1, <1>2

LEMMA MeantStep ==
  ASSUME UseInv, [Next]_vars
  PROVE  Meant'
  <1>1. ClientOK /\ Meant /\ lost \in Nat /\ AttachesLast(todo)
    BY DEF UseInv, InStepInv, Meant
  <1>2. ASSUME UNCHANGED <<logVars, owed, lost>>, client'.kind = client.kind,
               client'.running = client.running
        PROVE  Meant'
    <2>1. AttachesLast(todo') /\ LoggerLeft' = LoggerLeft
      BY <1>1, <1>2 DEF LoggerLeft, logVars
    <2> QED
      BY <1>1, <1>2, <2>1, StillMeant
  <1>3. CASE SendPlanned
    <2>1. client.plan # <<>> /\ Sent(Head(client.plan)) /\ client.plan \in Seq(Regular)
      BY <1>1, <1>3 DEF SendPlanned, ClientOK
    <2>2. PICK r \in Regular : r = Head(client.plan)
      BY <2>1, HeadTailProperties
    <2>3. r = client.plan[1] /\ 1 \in 1 .. Len(client.plan)
      BY <2>1, <2>2, HeadTailProperties, EmptySeq, LenProperties
    <2>4. r.c \notin {"H", "J"} /\ client.kind # "datalogger"
      BY <1>1, <2>1, <2>3 DEF ClientOK
    <2> QED
      BY <2>1, <2>2, <2>4, SentMeant
  <1>4. CASE ReadReply \/ Timeout
    <2>1. UNCHANGED <<logVars, owed, lost>>
      BY <1>4 DEF ReadReply, Timeout
    <2>2. \/ client.want # <<>> /\ client' = Again(client)
          \/ client' = [client EXCEPT !.waiting = FALSE]
      BY <1>4 DEF ReadReply, Timeout
    <2>3. client'.kind = client.kind /\ client'.running = client.running
      BY <1>1, <2>2, AfterAgain, AfterReply
    <2> QED
      BY <1>2, <2>1, <2>3
  <1>5. CASE Arrive
    BY <1>2, <1>5 DEF Arrive
  <1>6. CASE Lose
    <2>1. lost' = lost + 1 /\ UNCHANGED logVars
      BY <1>6 DEF Lose
    <2>2. lost' # 0 /\ AttachesLast(todo')
      BY <1>1, <2>1 DEF logVars
    <2> QED
      BY <2>2 DEF Meant
  <1>7. CASE UNCHANGED vars
    BY <1>2, <1>7 DEF vars, protocolVars
  <1> QED
    BY <1>3, <1>4, <1>5, <1>6, <1>7, RequestMeant, PollMeant, LogMeant DEF Next, ClientActs

\* Every step is one that the logger's specification has, or leaves the logger.
LEMMA NextUses ==
  ASSUME UseInv, [Next]_vars
  PROVE  [LoggerNext]_logVars
  <1>1. CASE Log
    BY <1>1 DEF Log, LoggerNext
  <1>2. CASE Poll
    BY <1>2, CommandUses, OtherPoll
  <1>3. CASE ClientActs \/ Arrive \/ Lose \/ UNCHANGED vars
    <2>1. UNCHANGED logVars
      BY <1>3 DEF ClientActs, SendPlanned, SendLogRequest, Sent, ReadReply, Timeout, Arrive, Lose,
                  vars
    <2> QED
      BY <2>1
  <1> QED
    BY <1>1, <1>2, <1>3 DEF Next

LEMMA MeantStarts == Init => Meant
  <1> SUFFICES ASSUME Init PROVE Meant
    OBVIOUS
  <1>1. /\ todo = <<>> /\ owed = <<>> /\ logger.attached = "normal" /\ client \in Clients
    BY DEF Init, LoggerInit
  <1>2. AttachesLast(todo) /\ LoggerLeft = "normal" /\ NoStart(owed)
    BY <1>1 DEF AttachesLast, LoggerLeft, Left, NoStart
  <1>3. client.running = "none"
    <2> DEFINE kind == client.kind
               plan == client.plan
               want == client.want
               c == client
    <2>1. c = Client(kind, plan, want)
      BY <1>1, ClientsAssumption
    <2> HIDE DEF c, kind, plan, want
    <2>2. c.running = "none"
      BY <2>1 DEF Client
    <2> QED
      BY <2>2 DEF c
  <1>4. Len(owed) <= 1
    BY <1>1
  <1> QED
    BY <1>1, <1>2, <1>3, <1>4 DEF Meant, DataLogger

LEMMA UseInvariant ==
  ASSUME LossStartsNoLogger
  PROVE  Spec => []UseInv /\ [][LoggerNext]_logVars
  <1>1. Init => UseInv
    BY StartsInStep, TrafficStarts, LoggerInitInv, MeantStarts DEF Init, UseInv
  <1>2. UseInv /\ [Next]_vars => UseInv' /\ [LoggerNext]_logVars
    <2> SUFFICES ASSUME UseInv, [Next]_vars PROVE UseInv' /\ [LoggerNext]_logVars
      OBVIOUS
    <2>1. [LoggerNext]_logVars /\ Meant'
      BY NextUses, MeantStep
    <2>2. LoggerInv'
      BY <2>1, LoggerStep DEF UseInv
    <2>3. InStepInv' /\ Traffic'
      BY NextStaysInStep, TrafficStep DEF UseInv
    <2> QED
      BY <2>1, <2>2, <2>3 DEF UseInv
  <1> QED
    BY <1>1, <1>2, PTL DEF Spec

\* Whatever the line does, when none of the bytes that may be lost behind one
\* another could be taken for the start of a logger, command() uses the logger as
\* ToothLogger has it used: a program is taken up when the one before is done with,
\* and 'H' and 'J' come when no logger's handlers are attached.
THEOREM LoggerIsUsedAsMeant ==
  ASSUME LossStartsNoLogger
  PROVE  Spec => UsesLoggerAsMeant
  <1>1. Init => LoggerInit
    BY DEF Init
  <1> QED
    BY <1>1, UseInvariant, PTL DEF Spec, UsesLoggerAsMeant, LoggerSpec

\* And so a log that is sent over the line holds consecutive readings.
THEOREM SentLogsAreConsecutive ==
  ASSUME LossStartsNoLogger
  PROVE  Spec => []SentLogIsConsecutive
  <1>1. UseInv => SentLogIsConsecutive
    BY DEF UseInv, LoggerInv
  <1> QED
    BY <1>1, UseInvariant, PTL

\* The variables of the protocol and of the logger keep their types, with bytes
\* lost too: a chunk is pending only while w is and never holds more than its size,
\* the indexes stay in the ring, and no more than a log is sent.
THEOREM ProtocolTypeCorrect ==
  ASSUME LossStartsNoLogger
  PROVE  Spec => []TypeOK
  <1>1. UseInv => TypeOK
    <2> SUFFICES ASSUME UseInv PROVE TypeOK
      OBVIOUS
    <2>1. Holds(Byte) /\ lost \in Nat /\ lost <= MaxLost /\ LoggerTypeOK /\ ecu \in EcuType
      BY DEF UseInv, Traffic, InStepInv, LoggerInv, Holds, Keeps
    <2>2. line \in Seq(0 .. 255) /\ rx \in Seq(0 .. 255)
      BY <2>1 DEF Holds, Byte
    <2>3. /\ ecu.cmdPending \in BOOLEAN /\ ecu.isMap \in BOOLEAN
          /\ ecu.calibrating \in 0 .. CalibrationValues + 1
      BY <2>1, LineAssumption DEF Holds, Keeps, EcuType
    <2>4. Ord.w = Ord["w"]
      BY Codes, CodesIndexed
    <2>5. /\ ecu.chunkPending => ecu.cmdPending /\ ecu.currentCommand = Ord.w
          /\ ecu.chunkPending => ecu.chunkComplete < ecu.chunkSize
      BY <2>1, <2>4 DEF Holds, Keeps
    <2>6. /\ logger.toothHistoryIndex \in 0 .. TOOTH_LOG_SIZE
          /\ logger.toothHistorySerialIndex \in 0 .. TOOTH_LOG_SIZE
          /\ Len(sent) <= TOOTH_LOG_SIZE /\ reading \in 0 .. Readings - 1
      BY <2>1 DEF LoggerTypeOK
    <2>7. lost \in 0 .. MaxLost
      BY <2>1, LineAssumption
    <2> QED
      BY <2>2, <2>3, <2>5, <2>6, <2>7 DEF TypeOK
  <1> QED
    BY <1>1, UseInvariant, PTL

=============================================================================
