---------------------------- MODULE StreamBuffer ----------------------------
(***************************************************************************)
(* The standard-input side of the Gazprea runtime, runtime/src/runtime.c:  *)
(* a ring of STREAM_BUF_LEN characters read ahead of the program, a cursor *)
(* pop_idx into it, and the scanners compiled programs call.  Every        *)
(* scanner runs to its return in one step: the runtime has one thread.     *)
(***************************************************************************)
EXTENDS InputText, FiniteSetsExt

CONSTANTS
  BufLen,   \* STREAM_BUF_LEN
  MaxInput  \* bound on the length of the input

ASSUME BufLenAssumption == BufLen \in Nat /\ BufLen > 2
ASSUME MaxInputAssumption == MaxInput \in Nat

VARIABLES
  input,                 \* what standard input holds; never changes
  pos,                   \* how many times getchar() has been called
  buf,                   \* stream.buf
  pop_idx,               \* stream.pop_idx
  state,                 \* stream.state: 0 read, 1 malformed, 2 end
  has_been_initialized,  \* stream.has_been_initialized
  exited,                \* a scanner called exit(1)
  value                  \* what the last scanner returned

vars == <<input, pos, buf, pop_idx, state, has_been_initialized, exited, value>>

Slots == 0 .. BufLen - 1

Init ==
  /\ input \in UNION {[1 .. n -> Byte] : n \in 0 .. MaxInput}
  /\ pos = 0
  /\ buf = [j \in Slots |-> NUL]
  /\ pop_idx = 0
  /\ state = 0
  /\ has_been_initialized = FALSE
  /\ exited = FALSE
  /\ value = <<>>
-----------------------------------------------------------------------------
(* ensure_stream_state_init(): the ring and the getchar() count the rest   *)
(* of the scanner works on, filled first if this is the first scan.        *)
ReadyBuf == IF has_been_initialized THEN buf
            ELSE [j \in Slots |-> CharAt(input, j)]
ReadyPos == IF has_been_initialized THEN pos ELSE BufLen

(* The character i places after the cursor.                                *)
Peek(i) == ReadyBuf[(pop_idx + i) % BufLen]

(* Mutant: the end of the input goes unnoticed.                            *)
NeverEnds == FALSE

has_input_ended == Peek(0) = EOF

(* put_data_in_read_buf(): two loops that copy at most BufLen - 1          *)
(* characters, first the blanks, then the token.                           *)
Full == BufLen - 1
BlankRun == Min({k \in Slots : k = Full \/ ~IsSpace(Peek(k))})
ReadRun  == Min({k \in BlankRun .. Full : k = Full \/ ~InToken(Peek(k))})

ScannedToken == [i \in 1 .. ReadRun - BlankRun |-> Peek(BlankRun + i - 1)]

(* Mutants of consume_next_n: the cursor runs off the ring, the slots it   *)
(* passes keep their characters, or one character too few is taken.        *)
RunsOff(n) ==
  /\ buf' = ReadyBuf
  /\ pop_idx' = pop_idx + n
  /\ pos' = ReadyPos + n

NotRefilled(n) ==
  /\ buf' = ReadyBuf
  /\ pop_idx' = (pop_idx + n) % BufLen
  /\ pos' = ReadyPos + n

OneShort(n) ==
  /\ buf' = [j \in Slots |-> LET d == (j - pop_idx) % BufLen
                             IN  IF d < n - 1 THEN CharAt(input, ReadyPos + d)
                                              ELSE ReadyBuf[j]]
  /\ pop_idx' = (pop_idx + n - 1) % BufLen
  /\ pos' = ReadyPos + n - 1

(* consume_next_n(n): each slot the cursor passes is refilled by the next  *)
(* getchar().                                                              *)
consume_next_n(n) ==
  /\ buf' = [j \in Slots |-> LET d == (j - pop_idx) % BufLen
                             IN  IF d < n THEN CharAt(input, ReadyPos + d)
                                          ELSE ReadyBuf[j]]
  /\ pop_idx' = (pop_idx + n) % BufLen
  /\ pos' = ReadyPos + n

KeepBuffer ==
  /\ buf' = ReadyBuf
  /\ pos' = ReadyPos
  /\ UNCHANGED pop_idx

Return(s, v) == state' = s /\ value' = v

(* Every scanner starts with ensure_stream_state_init().                   *)
Scanning ==
  /\ ~exited
  /\ has_been_initialized' = TRUE
  /\ UNCHANGED input
-----------------------------------------------------------------------------
rt_scan_char ==
  /\ Scanning
  /\ \/ /\ has_input_ended
        /\ Return(2, <<EOF>>)
        /\ KeepBuffer
     \/ /\ ~has_input_ended
        /\ consume_next_n(1)
        /\ Return(0, <<Peek(0)>>)
  /\ UNCHANGED exited

(* What rt_scan_bool, rt_scan_int and rt_scan_real share.  No token before *)
(* the end; a token the ring cannot hold; or a token in the scan buffer.   *)
NoToken ==
  /\ has_input_ended \/ Peek(BlankRun) = EOF
  /\ Return(2, <<>>)
  /\ KeepBuffer
  /\ UNCHANGED exited

TooLong ==
  /\ ~has_input_ended
  /\ Peek(BlankRun) # EOF
  /\ ReadRun > BufLen - 2
  /\ exited' = TRUE
  /\ KeepBuffer
  /\ UNCHANGED <<state, value>>

HaveToken ==
  /\ ~has_input_ended
  /\ Peek(BlankRun) # EOF
  /\ ReadRun <= BufLen - 2
  /\ UNCHANGED exited

(* Mutants: a malformed token is taken, or reported as the end; a good one *)
(* is taken with the character that follows it.                            *)
TakesMalformed == Return(1, <<>>) /\ consume_next_n(ReadRun)
EndsMalformed  == Return(2, <<>>) /\ KeepBuffer
TakesOneMore   == consume_next_n(ReadRun + 1) /\ Return(0, ScannedToken)

Malformed == Return(1, <<>>) /\ KeepBuffer

TakeToken == consume_next_n(ReadRun) /\ Return(0, ScannedToken)

ScanToken(kind) ==
  \/ NoToken
  \/ TooLong
  \/ /\ HaveToken
     /\ \/ "ok" \in Outcomes(kind, ScannedToken) /\ TakeToken
        \/ "bad" \in Outcomes(kind, ScannedToken) /\ Malformed

rt_scan_bool == Scanning /\ ScanToken("bool")
rt_scan_int  == Scanning /\ ScanToken("int")
rt_scan_real == Scanning /\ ScanToken("real")

Next ==
  \/ rt_scan_char
  \/ rt_scan_bool
  \/ rt_scan_int
  \/ rt_scan_real

Spec == Init /\ [][Next]_vars

(* A program that never stops reading characters, whatever else it reads.  *)
ReaderSpec == Spec /\ WF_vars(rt_scan_char)
-----------------------------------------------------------------------------
(* How many characters the program has taken: those fetched less those     *)
(* still waiting in the ring.                                              *)
Consumed == IF has_been_initialized THEN pos - BufLen ELSE 0

TypeOK ==
  /\ input \in Seq(Byte)
  /\ pos \in Nat
  /\ buf \in [Slots -> Char]
  /\ pop_idx \in Slots
  /\ state \in {0, 1, 2}
  /\ has_been_initialized \in BOOLEAN
  /\ exited \in BOOLEAN
  /\ value \in Seq(Char)

(* Once filled, the ring read from the cursor is exactly the BufLen        *)
(* characters that follow the consumed ones: consume_next_n refills the    *)
(* slots it frees, in order, losing and repeating nothing.                 *)
WindowInv ==
  has_been_initialized =>
    /\ pos >= BufLen
    /\ \A i \in Slots : buf[(pop_idx + i) % BufLen] = CharAt(input, Consumed + i)

(* Before the first scan nothing has been fetched.                         *)
FreshInv == ~has_been_initialized => pos = 0 /\ pop_idx = 0

(* The cursor never runs past the end: what consume_next_n discards are    *)
(* characters of the input, never the EOF marks that pad the ring.         *)
NeverPastEnd ==
  \A k \in 0 .. Consumed - 1 : CharAt(input, k) # EOF

StreamInv == TypeOK /\ FreshInv /\ WindowInv /\ NeverPastEnd

(* The ring implements a plain cursor over the text.                       *)
Text == INSTANCE AbstractInput WITH
  text <- input, cur <- Consumed, status <- state, stopped <- exited,
  Lookahead <- BufLen - 2

ImplementsAbstractInput == Text!Spec

(* A scanner that reports malformed input or the end takes nothing, so a   *)
(* program may retry the same text as another type; one that succeeds      *)
(* takes something, so a loop of successful reads ends.                    *)
TakesIffRead ==
  [][~exited' => IF state' = 0 THEN Consumed' > Consumed
                               ELSE Consumed' = Consumed]_vars

(* State 2 is left only by reading the trailing blanks as characters: no   *)
(* token can appear after the end was reported.                            *)
EndIsFinal ==
  [][state = 2 => \/ state' = 2
                  \/ state' = 0 /\ Len(value') = 1 /\ IsSpace(value'[1])]_vars

(* A program that keeps reading characters reaches the end of the input,   *)
(* unless a token scan gave up first.                                      *)
ReaderReachesEnd == <>(exited \/ CharAt(input, Consumed) = EOF)
=============================================================================
