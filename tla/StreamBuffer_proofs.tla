------------------------ MODULE StreamBuffer_proofs ------------------------
(***************************************************************************)
(* Theorems about StreamBuffer, for every alphabet, every set of accepted  *)
(* tokens and every BufLen > 2.                                            *)
(***************************************************************************)
EXTENDS StreamBuffer, TLAPS, WellFoundedInduction, NaturalsInduction, SequenceTheorems

(* Indices into the ring.                                                  *)
LEMMA ModRange ==
  ASSUME NEW n \in Nat, n > 0, NEW a \in Int
  PROVE  a % n \in 0 .. n - 1
  OBVIOUS

LEMMA ModWrap ==
  ASSUME NEW n \in Nat, n > 0, NEW a \in 0 .. 2 * n - 1
  PROVE  a % n = IF a < n THEN a ELSE a - n
  OBVIOUS

LEMMA ModNegative ==
  ASSUME NEW n \in Nat, n > 0, NEW a \in -n .. -1
  PROVE  a % n = a + n
  OBVIOUS

(* Going n + i slots on is going n and then i.                             *)
LEMMA ModTwice ==
  ASSUME NEW n \in Nat, n > 0,
         NEW p \in 0 .. n - 1, NEW a \in 0 .. n - 1, NEW i \in 0 .. n - 1
  PROVE  /\ (((p + a) % n) + i) % n = (p + ((a + i) % n)) % n
         /\ (((((p + a) % n) + i) % n) - p) % n = (a + i) % n
  <1>1. /\ (p + a) % n = IF p + a < n THEN p + a ELSE p + a - n
        /\ (a + i) % n = IF a + i < n THEN a + i ELSE a + i - n
    BY ModWrap
  <1> DEFINE q == (p + a) % n
             r == (a + i) % n
  <1>2. q \in 0 .. n - 1 /\ r \in 0 .. n - 1
    BY ModRange
  <1>3. /\ (q + i) % n = IF q + i < n THEN q + i ELSE q + i - n
        /\ (p + r) % n = IF p + r < n THEN p + r ELSE p + r - n
    BY <1>2, ModWrap
  <1>4. (q + i) % n = (p + r) % n
    BY <1>1, <1>2, <1>3
  <1>5. CASE p + r < n
    <2>1. ((q + i) % n) - p = r
      BY <1>2, <1>3, <1>4, <1>5
    <2> QED BY <2>1, <1>2, <1>4, ModWrap
  <1>6. CASE p + r >= n
    <2>1. ((q + i) % n) - p = r - n
      BY <1>2, <1>3, <1>4, <1>6
    <2>2. (r - n) % n = r
      BY <1>2, ModNegative
    <2> QED BY <2>1, <2>2, <1>4
  <1> QED BY <1>2, <1>4, <1>5, <1>6

(* A nonempty set of naturals has a least element, and Min is it.          *)
LESS == {ss \in Nat \X Nat : ss[1] < ss[2]}

LEMMA LessWF == IsWellFoundedOn(LESS, Nat)
  BY NatLessThanWellFounded DEF OpToRel, LESS

LEMMA MinIsLeast ==
  ASSUME NEW S, S \subseteq Nat, S # {}
  PROVE  Min(S) \in S /\ \A y \in S : Min(S) <= y
  <1>1. PICK x \in S : \A y \in S : ~ (<<y, x>> \in LESS)
    BY WFMin, LessWF
  <1>2. ASSUME NEW y \in S PROVE x <= y
    <2>1. x \in Nat /\ y \in Nat
      OBVIOUS
    <2>2. y < x => <<y, x>> \in LESS
      BY <2>1 DEF LESS
    <2> QED BY <1>1, <2>1, <2>2
  <1> QED BY <1>2 DEF Min
-----------------------------------------------------------------------------
(* Characters.                                                             *)
LEMMA CharAtType ==
  ASSUME NEW t \in Seq(Byte), NEW k \in Nat
  PROVE  /\ CharAt(t, k) \in Char
         /\ CharAt(t, k) # EOF => k < Len(t)
         /\ IsSpace(CharAt(t, k)) => CharAt(t, k) # EOF
  <1>1. k < Len(t) => t[k + 1] \in Byte
    OBVIOUS
  <1>2. CharAt(t, k) = IF k < Len(t) THEN Narrow(t[k + 1]) ELSE EOF
    BY DEF CharAt
  <1>3. k < Len(t) => Narrow(t[k + 1]) \in Char
    BY <1>1 DEF Narrow, Char
  <1> QED BY <1>2, <1>3, ByteAssumption DEF Char, IsSpace

(* ensure_stream_state_init() leaves the ring holding the characters that  *)
(* follow the consumed ones, whether or not it had to fill it.             *)
LEMMA ReadyWindow ==
  ASSUME StreamInv
  PROVE  /\ Consumed \in Nat
         /\ ReadyPos = Consumed + BufLen
         /\ ReadyBuf \in [Slots -> Char]
         /\ \A i \in Slots : Peek(i) = CharAt(input, Consumed + i)
  <1> USE BufLenAssumption DEF Slots
  <1>1. CASE has_been_initialized
    BY <1>1 DEF StreamInv, TypeOK, WindowInv, Consumed, ReadyPos, ReadyBuf, Peek
  <1>2. CASE ~has_been_initialized
    <2>1. Consumed = 0 /\ ReadyPos = BufLen /\ pop_idx = 0
      BY <1>2 DEF StreamInv, FreshInv, Consumed, ReadyPos
    <2>2. ReadyBuf = [j \in Slots |-> CharAt(input, j)]
      BY <1>2 DEF ReadyBuf
    <2>3. ReadyBuf \in [Slots -> Char]
      BY <2>2, CharAtType DEF StreamInv, TypeOK
    <2>4. \A i \in Slots : (0 + i) % BufLen = i
      BY ModWrap
    <2> QED BY <2>1, <2>2, <2>3, <2>4 DEF Peek
  <1> QED BY <1>1, <1>2

(* What put_data_in_read_buf() finds: blanks up to BlankRun, and from      *)
(* there to ReadRun characters of one token.                               *)
LEMMA TokenBounds ==
  ASSUME StreamInv
  PROVE  /\ BlankRun \in Slots
         /\ ReadRun \in BlankRun .. Full
         /\ \A i \in 0 .. BlankRun - 1 : IsSpace(Peek(i))
         /\ BlankRun = Full \/ ~IsSpace(Peek(BlankRun))
         /\ \A i \in BlankRun .. ReadRun - 1 : InToken(Peek(i))
         /\ ReadRun = Full \/ ~InToken(Peek(ReadRun))
  <1> USE BufLenAssumption DEF Slots, Full
  <1> DEFINE B == {k \in Slots : k = Full \/ ~IsSpace(Peek(k))}
             R == {k \in BlankRun .. Full : k = Full \/ ~InToken(Peek(k))}
  <1>1. B \subseteq Nat /\ B # {}
    <2>1. Full \in B
      OBVIOUS
    <2>2. ASSUME NEW k \in B PROVE k \in Nat
      <3>1. k \in Slots
        BY DEF B
      <3> QED BY <3>1
    <2> HIDE DEF B
    <2> QED BY <2>1, <2>2
  <1>2. BlankRun \in B /\ \A y \in B : BlankRun <= y
    <2> HIDE DEF B
    <2> SUFFICES Min(B) \in B /\ \A y \in B : Min(B) <= y
      BY DEF BlankRun, B
    <2> QED BY <1>1, MinIsLeast
  <1>3. BlankRun \in Slots
    BY <1>2
  <1>4. R \subseteq Nat /\ R # {}
    <2>1. Full \in R
      BY <1>3
    <2> QED BY <1>3, <2>1
  <1>5. ReadRun \in R /\ \A y \in R : ReadRun <= y
    <2> HIDE DEF R
    <2> SUFFICES Min(R) \in R /\ \A y \in R : Min(R) <= y
      BY DEF ReadRun, R
    <2> QED BY <1>4, MinIsLeast
  <1>6. \A i \in 0 .. BlankRun - 1 : IsSpace(Peek(i))
    BY <1>2, <1>3
  <1>7. \A i \in BlankRun .. ReadRun - 1 : InToken(Peek(i))
    BY <1>3, <1>5
  <1> QED BY <1>2, <1>3, <1>5, <1>6, <1>7
-----------------------------------------------------------------------------
(* consume_next_n(n) moves the window on by n characters.                  *)
LEMMA ConsumeMovesWindow ==
  ASSUME StreamInv, NEW n \in Slots, consume_next_n(n),
         has_been_initialized' = TRUE, input' = input
  PROVE  /\ pos' \in Nat
         /\ buf' \in [Slots -> Char]
         /\ pop_idx' \in Slots
         /\ Consumed' = Consumed + n
         /\ WindowInv'
  <1> USE BufLenAssumption
  <1>0. input \in Seq(Byte) /\ pop_idx \in Slots
    BY DEF StreamInv, TypeOK
  <1>1. /\ Consumed \in Nat
        /\ ReadyPos = Consumed + BufLen
        /\ ReadyBuf \in [Slots -> Char]
        /\ \A i \in Slots : Peek(i) = CharAt(input, Consumed + i)
    BY ReadyWindow
  <1>2. pos' = ReadyPos + n /\ pos' \in Nat /\ Consumed' = Consumed + n
    BY <1>1 DEF consume_next_n, Consumed, Slots
  <1>3. pop_idx' = (pop_idx + n) % BufLen /\ pop_idx' \in Slots
    BY <1>0, ModRange DEF consume_next_n, Slots
  <1> DEFINE back(j) == (j - pop_idx) % BufLen
             new(j) == IF back(j) < n THEN CharAt(input, ReadyPos + back(j)) ELSE ReadyBuf[j]
  <1>4. buf' = [j \in Slots |-> new(j)]
    BY DEF consume_next_n
  <1>5. ASSUME NEW j \in Slots PROVE new(j) \in Char
    <2>1. back(j) \in Nat
      BY <1>0, ModRange DEF Slots
    <2> QED BY <2>1, <1>0, <1>1, CharAtType
  <1>6. ASSUME NEW i \in Slots
        PROVE  buf'[(pop_idx' + i) % BufLen] = CharAt(input, Consumed + n + i)
    <2> DEFINE j == (pop_idx' + i) % BufLen
               d == (n + i) % BufLen
    <2>1. j = (pop_idx + d) % BufLen /\ back(j) = d
      <3>1. /\ pop_idx \in 0 .. BufLen - 1
            /\ n \in 0 .. BufLen - 1
            /\ i \in 0 .. BufLen - 1
            /\ BufLen \in Nat /\ BufLen > 0
        BY <1>0 DEF Slots
      <3>2. j = (((pop_idx + n) % BufLen) + i) % BufLen
        BY <1>3
      <3>3. /\ (((pop_idx + n) % BufLen) + i) % BufLen = (pop_idx + d) % BufLen
            /\ (((((pop_idx + n) % BufLen) + i) % BufLen) - pop_idx) % BufLen = d
        BY <3>1, ModTwice
      <3> QED BY <3>2, <3>3, Zenon
    <2>2. j \in Slots /\ d \in Slots
      BY <1>3, ModRange DEF Slots
    <2>3. d = IF n + i < BufLen THEN n + i ELSE n + i - BufLen
      BY ModWrap DEF Slots
    <2>4. buf'[j] = new(j)
      BY <1>4, <2>2
    <2> HIDE DEF j, d
    <2>5. CASE n + i < BufLen
      <3>1. new(j) = Peek(d)
        BY <2>1, <2>3, <2>5 DEF Peek, Slots
      <3> QED BY <3>1, <1>1, <2>2, <2>3, <2>4, <2>5 DEF j, Slots
    <2>6. CASE n + i >= BufLen
      <3>1. new(j) = CharAt(input, ReadyPos + d)
        BY <2>1, <2>3, <2>6 DEF Slots
      <3>2. ReadyPos + d = Consumed + n + i
        BY <1>1, <2>3, <2>6 DEF Slots
      <3> QED BY <3>1, <3>2, <2>4 DEF j
    <2> QED BY <2>5, <2>6 DEF Slots
  <1>7. buf' \in [Slots -> Char]
    BY <1>4, <1>5
  <1>8. WindowInv'
    <2>1. pos' >= BufLen
      BY <1>1, <1>2 DEF Slots
    <2>2. \A i \in Slots : buf'[(pop_idx' + i) % BufLen] = CharAt(input', Consumed' + i)
      BY <1>2, <1>6
    <2> QED BY <2>1, <2>2 DEF WindowInv, Slots
  <1> QED BY <1>2, <1>3, <1>7, <1>8

(* A scanner that gives nothing out still leaves the window filled.        *)
LEMMA KeepBufferKeepsWindow ==
  ASSUME StreamInv, KeepBuffer, has_been_initialized' = TRUE, input' = input
  PROVE  /\ pos' \in Nat
         /\ buf' \in [Slots -> Char]
         /\ pop_idx' \in Slots
         /\ Consumed' = Consumed
         /\ WindowInv'
  <1> USE BufLenAssumption
  <1>1. /\ Consumed \in Nat
        /\ ReadyPos = Consumed + BufLen
        /\ ReadyBuf \in [Slots -> Char]
        /\ \A i \in Slots : Peek(i) = CharAt(input, Consumed + i)
    BY ReadyWindow
  <1>2. buf' = ReadyBuf /\ pos' = ReadyPos /\ pop_idx' = pop_idx /\ pop_idx \in Slots
    BY DEF KeepBuffer, StreamInv, TypeOK
  <1>3. Consumed' = Consumed
    BY <1>1, <1>2 DEF Consumed
  <1>4. WindowInv'
    <2>1. \A i \in Slots : buf'[(pop_idx' + i) % BufLen] = CharAt(input', Consumed' + i)
      BY <1>1, <1>2, <1>3 DEF Peek
    <2>2. pos' >= BufLen
      BY <1>1, <1>2
    <2> QED BY <2>1, <2>2 DEF WindowInv, Slots
  <1> QED BY <1>1, <1>2, <1>3, <1>4
-----------------------------------------------------------------------------
(* What a scanner that has found a token knows about it: it lies between   *)
(* BlankRun and ReadRun, it is not empty, and it has no EOF mark in it.    *)
LEMMA FoundToken ==
  ASSUME StreamInv, HaveToken
  PROVE  /\ ReadRun \in Slots /\ ReadRun > BlankRun
         /\ ~IsSpace(Peek(BlankRun))
         /\ ~InToken(Peek(ReadRun))
         /\ \A i \in 0 .. ReadRun - 1 : Peek(i) \in Char /\ Peek(i) # EOF
  <1> USE BufLenAssumption DEF Slots, Full
  <1>1. ReadRun \in Slots /\ ReadRun < Full
    BY TokenBounds DEF HaveToken
  <1>2. ReadRun >= BlankRun /\ BlankRun \in Slots
    BY TokenBounds
  <1>3. ~IsSpace(Peek(BlankRun)) /\ ~InToken(Peek(ReadRun))
    BY <1>1, <1>2, TokenBounds
  <1>4. InToken(Peek(BlankRun))
    BY <1>3 DEF HaveToken, InToken, IsSpace
  <1>5. ReadRun > BlankRun
    BY <1>1, <1>2, <1>3, <1>4
  <1>6. ASSUME NEW i \in 0 .. ReadRun - 1 PROVE Peek(i) \in Char /\ Peek(i) # EOF
    <2>1. i \in Slots
      BY <1>1
    <2>2. Peek(i) = CharAt(input, Consumed + i) /\ Consumed + i \in Nat
      BY <2>1, ReadyWindow
    <2>3. IsSpace(Peek(i)) \/ InToken(Peek(i))
      BY <1>1, <1>2, TokenBounds
    <2> QED BY <2>2, <2>3, CharAtType DEF StreamInv, TypeOK, InToken
  <1> QED BY <1>1, <1>3, <1>5, <1>6

(* Consuming n characters, none of them EOF, keeps the whole invariant.    *)
LEMMA ConsumeKeepsInv ==
  ASSUME StreamInv, NEW n \in Slots, consume_next_n(n),
         has_been_initialized' = TRUE, input' = input,
         \A i \in 0 .. n - 1 : Peek(i) # EOF,
         state' \in {0, 1, 2}, exited' \in BOOLEAN, value' \in Seq(Char)
  PROVE  StreamInv'
  <1>1. /\ pos' \in Nat
        /\ buf' \in [Slots -> Char]
        /\ pop_idx' \in Slots
        /\ Consumed' = Consumed + n
        /\ WindowInv'
    BY ConsumeMovesWindow
  <1>2. TypeOK'
    BY <1>1 DEF StreamInv, TypeOK, Slots
  <1>3. NeverPastEnd'
    <2> SUFFICES ASSUME NEW k \in 0 .. Consumed' - 1
                 PROVE  CharAt(input, k) # EOF
      BY DEF NeverPastEnd
    <2>1. Consumed \in Nat /\ n \in Nat
      BY ReadyWindow, BufLenAssumption DEF Slots
    <2>2. CASE k < Consumed
      BY <1>1, <2>1, <2>2 DEF StreamInv, NeverPastEnd
    <2>3. CASE k >= Consumed
      <3>1. k - Consumed \in 0 .. n - 1
        BY <1>1, <2>1, <2>3
      <3>2. Peek(k - Consumed) = CharAt(input, k)
        BY <2>1, <3>1, ReadyWindow, BufLenAssumption DEF Slots
      <3> QED BY <3>1, <3>2
    <2> QED BY <2>1, <2>2, <2>3
  <1> QED BY <1>1, <1>2, <1>3 DEF StreamInv, FreshInv

LEMMA KeepKeepsInv ==
  ASSUME StreamInv, KeepBuffer, has_been_initialized' = TRUE, input' = input,
         state' \in {0, 1, 2}, exited' \in BOOLEAN, value' \in Seq(Char)
  PROVE  StreamInv'
  <1>1. /\ pos' \in Nat
        /\ buf' \in [Slots -> Char]
        /\ pop_idx' \in Slots
        /\ Consumed' = Consumed
        /\ WindowInv'
    BY KeepBufferKeepsWindow
  <1>2. TypeOK'
    BY <1>1 DEF StreamInv, TypeOK, Slots
  <1>3. NeverPastEnd'
    BY <1>1 DEF StreamInv, NeverPastEnd
  <1> QED BY <1>1, <1>2, <1>3 DEF StreamInv, FreshInv

LEMMA TokenType ==
  ASSUME StreamInv, HaveToken
  PROVE  ScannedToken \in Seq(Char)
  <1>1. ReadRun \in Nat /\ BlankRun \in Nat
    BY TokenBounds, BufLenAssumption DEF Slots, Full
  <1>2. \A i \in 1 .. ReadRun - BlankRun : Peek(BlankRun + i - 1) \in Char
    BY <1>1, FoundToken
  <1>3. ReadRun - BlankRun \in Nat
    BY <1>1, FoundToken
  <1>4. ScannedToken \in [1 .. ReadRun - BlankRun -> Char]
    BY <1>2 DEF ScannedToken
  <1> QED BY <1>3, <1>4
-----------------------------------------------------------------------------
LEMMA InitStreamInv == Init => StreamInv
  <1> SUFFICES ASSUME Init PROVE StreamInv
    OBVIOUS
  <1> USE BufLenAssumption, MaxInputAssumption DEF Init
  <1>1. input \in Seq(Byte)
    <2>1. PICK n \in 0 .. MaxInput : input \in [1 .. n -> Byte]
      OBVIOUS
    <2> QED BY <2>1
  <1>2. buf \in [Slots -> Char]
    BY ByteAssumption DEF Char
  <1>3. value \in Seq(Char)
    BY EmptySeq
  <1>4. Consumed = 0
    BY DEF Consumed
  <1> QED BY <1>1, <1>2, <1>3, <1>4
          DEF StreamInv, TypeOK, FreshInv, WindowInv, NeverPastEnd, Slots

LEMMA CharKeepsInv ==
  ASSUME StreamInv, rt_scan_char PROVE StreamInv'
  <1> USE BufLenAssumption DEF Slots
  <1>1. has_been_initialized' = TRUE /\ input' = input /\ exited' \in BOOLEAN
    BY DEF rt_scan_char, Scanning, StreamInv, TypeOK
  <1>2. Peek(0) \in Char
    BY ReadyWindow, CharAtType DEF StreamInv, TypeOK
  <1>3. CASE has_input_ended /\ Return(2, <<EOF>>) /\ KeepBuffer
    <2>1. value' \in Seq(Char) /\ state' = 2
      BY <1>3 DEF Return, Char
    <2> QED BY <1>1, <1>3, <2>1, KeepKeepsInv
  <1>4. CASE ~has_input_ended /\ consume_next_n(1) /\ Return(0, <<Peek(0)>>)
    <2>1. value' \in Seq(Char) /\ state' = 0
      BY <1>2, <1>4 DEF Return
    <2>2. \A i \in 0 .. 1 - 1 : Peek(i) # EOF
      BY <1>4 DEF has_input_ended
    <2> QED BY <1>1, <1>4, <2>1, <2>2, ConsumeKeepsInv
  <1> QED BY <1>3, <1>4 DEF rt_scan_char

LEMMA TokenKeepsInv ==
  ASSUME StreamInv, NEW kind, Scanning, ScanToken(kind) PROVE StreamInv'
  <1>1. has_been_initialized' = TRUE /\ input' = input
    BY DEF Scanning
  <1>2. state \in {0, 1, 2} /\ exited \in BOOLEAN /\ value \in Seq(Char) /\ <<>> \in Seq(Char)
    BY DEF StreamInv, TypeOK
  <1>3. CASE NoToken
    BY <1>1, <1>2, <1>3, KeepKeepsInv DEF NoToken, Return
  <1>4. CASE TooLong
    BY <1>1, <1>2, <1>4, KeepKeepsInv DEF TooLong
  <1>5. CASE HaveToken /\ TakeToken
    <2>1. state' = 0 /\ value' = ScannedToken /\ exited' = exited /\ consume_next_n(ReadRun)
      BY <1>5 DEF TakeToken, HaveToken, Return
    <2>2. ReadRun \in Slots /\ \A i \in 0 .. ReadRun - 1 : Peek(i) # EOF
      BY <1>5, FoundToken
    <2> QED BY <1>1, <1>2, <1>5, <2>1, <2>2, TokenType, ConsumeKeepsInv
  <1>6. CASE HaveToken /\ Malformed
    BY <1>1, <1>2, <1>6, KeepKeepsInv DEF HaveToken, Malformed, Return
  <1> QED BY <1>3, <1>4, <1>5, <1>6 DEF ScanToken

LEMMA NextStreamInv == StreamInv /\ [Next]_vars => StreamInv'
  <1> SUFFICES ASSUME StreamInv, [Next]_vars PROVE StreamInv'
    OBVIOUS
  <1>1. CASE rt_scan_char
    BY <1>1, CharKeepsInv
  <1>2. CASE rt_scan_bool
    BY <1>2, TokenKeepsInv DEF rt_scan_bool
  <1>3. CASE rt_scan_int
    BY <1>3, TokenKeepsInv DEF rt_scan_int
  <1>4. CASE rt_scan_real
    BY <1>4, TokenKeepsInv DEF rt_scan_real
  <1>5. CASE UNCHANGED vars
    BY <1>5 DEF vars, StreamInv, TypeOK, FreshInv, WindowInv, NeverPastEnd, Consumed
  <1> QED BY <1>1, <1>2, <1>3, <1>4, <1>5 DEF Next

(* Whatever a program scans, the ring read from the cursor is the text     *)
(* that follows what was consumed, and only real input is consumed:        *)
(* consume_next_n and ensure_stream_state_init never lose, repeat or       *)
(* invent a character, for any buffer length and any input.                *)
THEOREM StreamInvariant == Spec => []StreamInv
  BY InitStreamInv, NextStreamInv, PTL DEF Spec

(* The variables stay in range: the cursor inside the ring, characters in  *)
(* every slot, the state one of the three rt_get_stream_state__ reports.   *)
THEOREM StreamTypes == Spec => []TypeOK
  <1>1. StreamInv => TypeOK
    BY DEF StreamInv
  <1> QED BY <1>1, StreamInvariant, PTL

(* The ring is exactly the next BufLen characters of the input.            *)
THEOREM StreamWindow == Spec => []WindowInv
  <1>1. StreamInv => WindowInv
    BY DEF StreamInv
  <1> QED BY <1>1, StreamInvariant, PTL

(* No scanner consumes an EOF mark.                                        *)
THEOREM StreamNeverPastEnd == Spec => []NeverPastEnd
  <1>1. StreamInv => NeverPastEnd
    BY DEF StreamInv
  <1> QED BY <1>1, StreamInvariant, PTL
-----------------------------------------------------------------------------
(* How far a scanner moves the cursor.                                     *)
LEMMA ScanMovesCursor ==
  ASSUME StreamInv, [Next]_vars
  PROVE  ~exited' => IF state' = 0 THEN Consumed' > Consumed \/ UNCHANGED vars
                                   ELSE Consumed' = Consumed
  <1> USE BufLenAssumption DEF Slots
  <1>0. Consumed \in Nat
    BY ReadyWindow
  <1>1. CASE rt_scan_char
    <2>1. has_been_initialized' = TRUE /\ input' = input
      BY <1>1 DEF rt_scan_char, Scanning
    <2>2. CASE Return(2, <<EOF>>) /\ KeepBuffer
      BY <2>1, <2>2, KeepBufferKeepsWindow DEF Return
    <2>3. CASE consume_next_n(1) /\ Return(0, <<Peek(0)>>)
      <3>1. Consumed' = Consumed + 1
        BY <2>1, <2>3, ConsumeMovesWindow
      <3> QED BY <1>0, <2>3, <3>1 DEF Return
    <2> QED BY <1>1, <2>2, <2>3 DEF rt_scan_char
  <1>2. ASSUME NEW kind, Scanning, ScanToken(kind)
        PROVE  ~exited' => IF state' = 0 THEN Consumed' > Consumed
                                         ELSE Consumed' = Consumed
    <2>1. has_been_initialized' = TRUE /\ input' = input
      BY <1>2 DEF Scanning
    <2>2. CASE NoToken
      BY <2>1, <2>2, KeepBufferKeepsWindow DEF NoToken, Return
    <2>3. CASE TooLong
      BY <2>3 DEF TooLong
    <2>4. CASE HaveToken /\ TakeToken
      <3>1. ReadRun \in Slots /\ ReadRun > BlankRun /\ BlankRun \in Slots
        BY <2>4, FoundToken, TokenBounds
      <3>2. Consumed' = Consumed + ReadRun
        BY <2>1, <2>4, <3>1, ConsumeMovesWindow DEF TakeToken
      <3> QED BY <1>0, <2>4, <3>1, <3>2 DEF TakeToken, Return
    <2>5. CASE HaveToken /\ Malformed
      BY <2>1, <2>5, KeepBufferKeepsWindow DEF Malformed, Return
    <2> QED BY <1>2, <2>2, <2>3, <2>4, <2>5 DEF ScanToken
  <1>3. CASE UNCHANGED vars
    BY <1>3 DEF vars, Consumed
  <1> QED BY <1>1, <1>2, <1>3 DEF Next, rt_scan_bool, rt_scan_int, rt_scan_real

(* A scanner that reports the end or malformed input takes nothing, and    *)
(* one that succeeds takes something.                                      *)
THEOREM StreamTakesIffRead == Spec => TakesIffRead
  <1>1. StreamInv /\ [Next]_vars =>
          [~exited' => IF state' = 0 THEN Consumed' > Consumed
                                     ELSE Consumed' = Consumed]_vars
    BY ScanMovesCursor
  <1> QED BY <1>1, StreamInvariant, PTL DEF Spec, TakesIffRead
-----------------------------------------------------------------------------
(* Refinement: the text seen through the mapping.                          *)
LEMMA TextAhead ==
  ASSUME StreamInv, NEW i \in Slots
  PROVE  Text!Ahead(i) = Peek(i)
  BY ReadyWindow DEF Text!Ahead, Text!CharAt, Text!Narrow, CharAt, Narrow

(* A run of blanks lies within the text.                                   *)
LEMMA BlanksInText ==
  ASSUME StreamInv, NEW n \in Slots, \A i \in 0 .. n - 1 : Peek(i) # EOF
  PROVE  n \in 0 .. Len(input)
  <1> USE BufLenAssumption DEF Slots
  <1>1. input \in Seq(Byte) /\ Len(input) \in Nat /\ Consumed \in Nat
    BY ReadyWindow DEF StreamInv, TypeOK
  <1>2. CASE n = 0
    BY <1>1, <1>2
  <1>3. CASE n > 0
    <2>1. Peek(n - 1) # EOF /\ Peek(n - 1) = CharAt(input, Consumed + n - 1)
      BY <1>3, ReadyWindow
    <2>2. Consumed + n - 1 < Len(input)
      BY <1>1, <1>3, <2>1, CharAtType
    <2> QED BY <1>1, <1>3, <2>2
  <1> QED BY <1>2, <1>3

LEMMA CharIsText ==
  ASSUME StreamInv, rt_scan_char PROVE Text!Next
  <1> USE BufLenAssumption DEF Slots
  <1>1. has_been_initialized' = TRUE /\ input' = input /\ ~exited /\ exited' = exited
    BY DEF rt_scan_char, Scanning
  <1>2. Text!Ahead(0) = Peek(0)
    BY TextAhead
  <1>3. CASE has_input_ended /\ Return(2, <<EOF>>) /\ KeepBuffer
    <2>1. Consumed' = Consumed
      BY <1>1, <1>3, KeepBufferKeepsWindow
    <2>2. Text!ReadCharEnd
      BY <1>1, <1>2, <1>3, <2>1 DEF Text!ReadCharEnd, has_input_ended, Return
    <2> QED BY <1>1, <2>2 DEF Text!Next
  <1>4. CASE ~has_input_ended /\ consume_next_n(1) /\ Return(0, <<Peek(0)>>)
    <2>1. Consumed' = Consumed + 1
      BY <1>1, <1>4, ConsumeMovesWindow
    <2>2. Text!ReadChar
      BY <1>1, <1>2, <1>4, <2>1 DEF Text!ReadChar, has_input_ended, Return
    <2> QED BY <1>1, <2>2 DEF Text!Next
  <1> QED BY <1>3, <1>4 DEF rt_scan_char

LEMMA NoTokenIsText ==
  ASSUME StreamInv, Scanning, NoToken PROVE Text!Next
  <1> USE BufLenAssumption DEF Slots, Full
  <1>1. /\ has_been_initialized' = TRUE /\ input' = input /\ ~exited /\ exited' = exited
        /\ Consumed' = Consumed /\ state' = 2 /\ value' = <<>>
    BY KeepBufferKeepsWindow DEF Scanning, NoToken, Return
  <1>2. PICK w \in Slots : Peek(w) = EOF /\ \A i \in 0 .. w - 1 : IsSpace(Peek(i))
    <2>1. CASE has_input_ended
      BY <2>1 DEF has_input_ended
    <2>2. CASE Peek(BlankRun) = EOF
      BY <2>2, TokenBounds
    <2> QED BY <2>1, <2>2 DEF NoToken
  <1>3. ~IsSpace(Peek(w))
    BY <1>2, ByteAssumption DEF IsSpace
  <1>4. \A i \in 0 .. w - 1 : Peek(i) # EOF
    BY <1>2, ByteAssumption DEF IsSpace
  <1>5. w \in 0 .. Len(input)
    BY <1>4, BlanksInText
  <1>6. \A i \in 0 .. w : Text!Ahead(i) = Peek(i)
    BY TextAhead
  <1>7. Text!ReadTokenEnd(w)
    BY <1>1, <1>2, <1>3, <1>6 DEF Text!ReadTokenEnd, Text!Blanks, Text!IsSpace, IsSpace
  <1> QED BY <1>1, <1>5, <1>7 DEF Text!Next

LEMMA TooLongIsText ==
  ASSUME StreamInv, Scanning, TooLong PROVE Text!Next
  <1> USE BufLenAssumption DEF Slots, Full
  <1>1. /\ has_been_initialized' = TRUE /\ input' = input /\ ~exited /\ exited' = TRUE
        /\ Consumed' = Consumed /\ state' = state /\ value' = value
    BY KeepBufferKeepsWindow DEF Scanning, TooLong
  <1>2. ReadRun = Full /\ BlankRun \in Slots /\ Peek(BlankRun) # EOF
    BY TokenBounds DEF TooLong
  <1>3. /\ \A i \in 0 .. BlankRun - 1 : IsSpace(Peek(i))
        /\ \A i \in BlankRun .. BufLen - 2 : InToken(Peek(i))
    BY <1>2, TokenBounds
  <1>4. \A i \in Slots : Text!Ahead(i) = Peek(i)
    BY TextAhead
  <1>5. /\ BlankRun \in 0 .. BufLen - 2 + 1
        /\ \A i \in 0 .. BlankRun - 1 : Text!IsSpace(Text!Ahead(i))
        /\ \A i \in BlankRun .. BufLen - 2 : Text!InToken(Text!Ahead(i))
        /\ Text!Ahead(BlankRun) # EOF
    BY <1>2, <1>3, <1>4 DEF Text!IsSpace, IsSpace, Text!InToken, InToken
  <1>6. Text!GiveUp
    BY <1>1, <1>5 DEF Text!GiveUp
  <1> QED BY <1>1, <1>6 DEF Text!Next

LEMMA HaveTokenIsText ==
  ASSUME StreamInv, NEW kind \in Kinds, Scanning, HaveToken,
         \/ "ok" \in Outcomes(kind, ScannedToken) /\ TakeToken
         \/ "bad" \in Outcomes(kind, ScannedToken) /\ Malformed
  PROVE  Text!Next
  <1> USE BufLenAssumption DEF Slots, Full
  <1> DEFINE w == BlankRun
             t == ReadRun - BlankRun
  <1>1. has_been_initialized' = TRUE /\ input' = input /\ ~exited /\ exited' = exited
    BY DEF Scanning, HaveToken
  <1>2. /\ ReadRun \in Slots /\ ReadRun <= BufLen - 2 /\ BlankRun \in Slots /\ ReadRun > BlankRun
        /\ ~IsSpace(Peek(BlankRun)) /\ ~InToken(Peek(ReadRun))
        /\ \A i \in 0 .. BlankRun - 1 : IsSpace(Peek(i))
        /\ \A i \in BlankRun .. ReadRun - 1 : InToken(Peek(i))
        /\ \A i \in 0 .. ReadRun - 1 : Peek(i) # EOF
    BY FoundToken, TokenBounds DEF HaveToken
  <1>3. ReadRun \in 0 .. Len(input) /\ Len(input) \in Nat
    BY <1>2, BlanksInText DEF StreamInv, TypeOK
  <1>4. \A i \in Slots : Text!Ahead(i) = Peek(i)
    BY TextAhead
  <1>5. Text!Lexeme(w, t) /\ w + t <= BufLen - 2 /\ w + t = ReadRun
    <2>1. w + t = ReadRun /\ t > 0 /\ w + t - 1 = ReadRun - 1 /\ w + t <= BufLen - 2
      BY <1>2
    <2>2. /\ \A i \in 0 .. w - 1 : Text!IsSpace(Text!Ahead(i))
          /\ ~Text!IsSpace(Text!Ahead(w))
          /\ \A i \in w .. ReadRun - 1 : Text!InToken(Text!Ahead(i))
          /\ ~Text!InToken(Text!Ahead(ReadRun))
      BY <1>2, <1>4 DEF Text!IsSpace, IsSpace, Text!InToken, InToken
    <2> HIDE DEF w, t
    <2>3. Text!Blanks(w)
      BY <2>2 DEF Text!Blanks
    <2>4. Text!Lexeme(w, t)
      BY <2>1, <2>2, <2>3 DEF Text!Lexeme
    <2> QED BY <2>1, <2>4
  <1>6. Text!Token(w, t) = ScannedToken
    <2>1. \A i \in 1 .. t : Text!Ahead(w + i - 1) = Peek(BlankRun + i - 1)
      BY <1>2, <1>4
    <2> QED BY <2>1 DEF Text!Token, ScannedToken
  <1>7. Text!Outcomes(kind, ScannedToken) = Outcomes(kind, ScannedToken)
    BY DEF Text!Outcomes, Outcomes, Text!Undetermined, Undetermined, Text!Accepts, Accepts
  <1>8. \/ /\ "ok" \in Text!Outcomes(kind, Text!Token(w, t))
           /\ Consumed' = Consumed + w + t /\ value' = Text!Token(w, t) /\ state' = 0
        \/ /\ "bad" \in Text!Outcomes(kind, Text!Token(w, t))
           /\ state' = 1 /\ value' = <<>> /\ Consumed' = Consumed
    <2>1. CASE "ok" \in Outcomes(kind, ScannedToken) /\ TakeToken
      <3>1. Consumed' = Consumed + ReadRun /\ Consumed \in Nat
        BY <1>1, <1>2, <2>1, ConsumeMovesWindow, ReadyWindow DEF TakeToken
      <3>2. Consumed' = Consumed + w + t
        BY <1>2, <3>1
      <3> QED BY <1>6, <1>7, <2>1, <3>2 DEF TakeToken, Return
    <2>2. CASE "bad" \in Outcomes(kind, ScannedToken) /\ Malformed
      BY <1>1, <1>6, <1>7, <2>2, KeepBufferKeepsWindow DEF Malformed, Return
    <2> QED BY <2>1, <2>2
  <1>9. Text!ReadToken(kind, w, t)
    <2> HIDE DEF w, t
    <2> QED BY <1>1, <1>5, <1>8 DEF Text!ReadToken
  <1>10. w \in 0 .. Len(input) /\ t \in 0 .. Len(input) /\ kind \in Text!Kinds
    BY <1>2, <1>3 DEF Kinds, Text!Kinds
  <1> HIDE DEF w, t
  <1> QED BY <1>1, <1>9, <1>10 DEF Text!Next

LEMMA StepIsText == StreamInv /\ [Next]_vars => [Text!Next]_(Text!avars)
  <1> SUFFICES ASSUME StreamInv, [Next]_vars PROVE [Text!Next]_(Text!avars)
    OBVIOUS
  <1>1. CASE rt_scan_char
    BY <1>1, CharIsText
  <1>2. ASSUME NEW kind \in Kinds, Scanning, ScanToken(kind) PROVE Text!Next
    BY <1>2, NoTokenIsText, TooLongIsText, HaveTokenIsText DEF ScanToken
  <1>3. CASE rt_scan_bool \/ rt_scan_int \/ rt_scan_real
    BY <1>2, <1>3 DEF rt_scan_bool, rt_scan_int, rt_scan_real, Kinds
  <1>4. CASE UNCHANGED vars
    BY <1>4 DEF vars, Text!avars, Consumed
  <1> QED BY <1>1, <1>3, <1>4 DEF Next

(* The ring, its cursor and the lookahead behave as one cursor over the    *)
(* text: what a program can see of its input is what AbstractInput says.   *)
THEOREM StreamImplementsText == Spec => ImplementsAbstractInput
  <1>1. Init => Text!Init
    <2> SUFFICES ASSUME Init PROVE Text!Init
      OBVIOUS
    <2>1. input \in Seq(Byte)
      BY InitStreamInv DEF StreamInv, TypeOK
    <2> QED BY <2>1 DEF Text!Init, Init, Consumed
  <1> QED BY <1>1, StepIsText, StreamInvariant, PTL DEF Spec, Text!Spec, ImplementsAbstractInput
-----------------------------------------------------------------------------
(* What state 2 says of the text: from the cursor on there are only blanks *)
(* before the end.  A scanner that met the end saw it in its window.       *)
OnlyBlanksLeft ==
  \E w \in Slots : /\ \A i \in 0 .. w - 1 : IsSpace(CharAt(input, Consumed + i))
                   /\ CharAt(input, Consumed + w) = EOF

EndInv == state = 2 => has_been_initialized /\ OnlyBlanksLeft

(* Seen through the ring, the blanks are the ones the next scan skips.     *)
LEMMA EndInWindow ==
  ASSUME StreamInv, OnlyBlanksLeft
  PROVE  /\ Peek(BlankRun) = EOF
         /\ Peek(0) # EOF => IsSpace(Peek(0))
  <1> USE BufLenAssumption DEF Slots, Full
  <1>1. PICK w \in Slots : /\ \A i \in 0 .. w - 1 : IsSpace(CharAt(input, Consumed + i))
                           /\ CharAt(input, Consumed + w) = EOF
    BY DEF OnlyBlanksLeft
  <1>2. \A i \in Slots : Peek(i) = CharAt(input, Consumed + i)
    BY ReadyWindow
  <1>3. Peek(w) = EOF /\ \A i \in 0 .. w - 1 : IsSpace(Peek(i))
    BY <1>1, <1>2
  <1>4. ~IsSpace(Peek(w))
    BY <1>3, ByteAssumption DEF IsSpace
  <1>5. BlankRun = w
    <2>1. ~(BlankRun < w)
      BY <1>3, TokenBounds
    <2>2. ~(w < BlankRun)
      BY <1>4, TokenBounds
    <2> QED BY <2>1, <2>2, TokenBounds
  <1>6. Peek(0) # EOF => w # 0
    BY <1>3
  <1> QED BY <1>3, <1>5, <1>6

(* A scanner that reports the end leaves the cursor where it saw it.       *)
LEMMA EndSeen ==
  ASSUME StreamInv, KeepBuffer, has_been_initialized' = TRUE, input' = input,
         has_input_ended \/ Peek(BlankRun) = EOF
  PROVE  EndInv'
  <1> USE BufLenAssumption DEF Slots
  <1>1. Consumed' = Consumed
    BY KeepBufferKeepsWindow
  <1>2. \A i \in Slots : Peek(i) = CharAt(input, Consumed + i)
    BY ReadyWindow
  <1>3. PICK w \in Slots : /\ \A i \in 0 .. w - 1 : IsSpace(Peek(i))
                           /\ Peek(w) = EOF
    <2>1. CASE has_input_ended
      BY <2>1 DEF has_input_ended
    <2>2. CASE Peek(BlankRun) = EOF
      BY <2>2, TokenBounds
    <2> QED BY <2>1, <2>2
  <1>4. /\ \A i \in 0 .. w - 1 : IsSpace(CharAt(input', Consumed' + i))
        /\ CharAt(input', Consumed' + w) = EOF
    BY <1>1, <1>2, <1>3
  <1> QED BY <1>4 DEF EndInv, OnlyBlanksLeft

LEMMA InitEndInv == Init => EndInv
  BY DEF Init, EndInv

LEMMA NextEndInv == StreamInv /\ EndInv /\ [Next]_vars => EndInv'
  <1> SUFFICES ASSUME StreamInv, EndInv, [Next]_vars PROVE EndInv'
    OBVIOUS
  <1>1. CASE rt_scan_char
    <2>1. has_been_initialized' = TRUE /\ input' = input
      BY <1>1 DEF rt_scan_char, Scanning
    <2> QED BY <1>1, <2>1, EndSeen DEF rt_scan_char, Return, EndInv
  <1>2. ASSUME NEW kind, Scanning, ScanToken(kind) PROVE EndInv'
    <2>1. has_been_initialized' = TRUE /\ input' = input
      BY <1>2 DEF Scanning
    <2>2. CASE NoToken
      BY <2>1, <2>2, EndSeen DEF NoToken
    <2>3. CASE TooLong
      <3>1. state # 2
        BY <2>3, EndInWindow DEF TooLong, EndInv
      <3> QED BY <2>3, <3>1 DEF TooLong, EndInv
    <2>4. CASE TakeToken \/ Malformed
      BY <2>4 DEF TakeToken, Malformed, Return, EndInv
    <2> QED BY <1>2, <2>2, <2>3, <2>4 DEF ScanToken
  <1>3. CASE rt_scan_bool \/ rt_scan_int \/ rt_scan_real
    BY <1>2, <1>3 DEF rt_scan_bool, rt_scan_int, rt_scan_real
  <1>4. CASE UNCHANGED vars
    BY <1>4 DEF vars, EndInv, OnlyBlanksLeft, Consumed
  <1> QED BY <1>1, <1>3, <1>4 DEF Next

(* Once a scanner has reported the end, no token can follow: all that a    *)
(* later scan may still deliver is a trailing blank, read as a character.  *)
THEOREM StreamEndIsFinal == Spec => EndIsFinal
  <1> DEFINE Final == \/ state' = 2
                      \/ state' = 0 /\ Len(value') = 1 /\ IsSpace(value'[1])
  <1>1. StreamInv /\ EndInv /\ [Next]_vars => [state = 2 => Final]_vars
    <2> SUFFICES ASSUME StreamInv, EndInv, Next, state = 2 PROVE Final
      OBVIOUS
    <2>1. Peek(BlankRun) = EOF /\ (Peek(0) # EOF => IsSpace(Peek(0)))
      BY EndInWindow DEF EndInv
    <2>2. CASE rt_scan_char
      BY <2>1, <2>2 DEF rt_scan_char, Return, has_input_ended
    <2>3. ASSUME NEW kind, ScanToken(kind) PROVE Final
      BY <2>1, <2>3 DEF ScanToken, NoToken, TooLong, HaveToken, Return
    <2>4. CASE rt_scan_bool \/ rt_scan_int \/ rt_scan_real
      BY <2>3, <2>4 DEF rt_scan_bool, rt_scan_int, rt_scan_real
    <2> QED BY <2>2, <2>4 DEF Next
  <1> QED BY <1>1, StreamInvariant, InitEndInv, NextEndInv, PTL DEF Spec, EndIsFinal
=============================================================================
