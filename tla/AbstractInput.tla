--------------------------- MODULE AbstractInput ---------------------------
(***************************************************************************)
(* What input promises a Gazprea program: one cursor over the input text,  *)
(* a status that reports the last read, and reads that either take a whole *)
(* lexeme or take nothing.  There is no buffer here; the only trace of one *)
(* is Lookahead, the longest lexeme (blanks included) a read may need.     *)
(***************************************************************************)
EXTENDS InputText

CONSTANT Lookahead

VARIABLES
  text,    \* the whole input; never changes
  cur,     \* number of characters taken so far
  status,  \* 0 read, 1 malformed, 2 end of input
  stopped, \* the program gave up: a lexeme did not fit in Lookahead
  value    \* what the last read returned

avars == <<text, cur, status, stopped, value>>

Ahead(i) == CharAt(text, cur + i)

Blanks(w) ==
  /\ \A i \in 0 .. w - 1 : IsSpace(Ahead(i))
  /\ ~IsSpace(Ahead(w))

Lexeme(w, t) ==
  /\ Blanks(w)
  /\ t > 0
  /\ \A i \in w .. w + t - 1 : InToken(Ahead(i))
  /\ ~InToken(Ahead(w + t))

Token(w, t) == [i \in 1 .. t |-> Ahead(w + i - 1)]

Init ==
  /\ text \in Seq(Byte)
  /\ cur = 0
  /\ status = 0
  /\ stopped = FALSE
  /\ value = <<>>

(* A read of a character takes blanks too, so only EOF itself ends it.     *)
ReadChar ==
  /\ Ahead(0) # EOF
  /\ cur' = cur + 1
  /\ value' = <<Ahead(0)>>
  /\ status' = 0
  /\ UNCHANGED <<text, stopped>>

ReadCharEnd ==
  /\ Ahead(0) = EOF
  /\ value' = <<EOF>>
  /\ status' = 2
  /\ UNCHANGED <<text, cur, stopped>>

(* Nothing but blanks before the end: the blanks are not taken.            *)
ReadTokenEnd(w) ==
  /\ w <= Lookahead + 1
  /\ Blanks(w)
  /\ Ahead(w) = EOF
  /\ status' = 2
  /\ value' = <<>>
  /\ UNCHANGED <<text, cur, stopped>>

ReadToken(kind, w, t) ==
  /\ Lexeme(w, t)
  /\ w + t <= Lookahead
  /\ \/ /\ "ok" \in Outcomes(kind, Token(w, t))
        /\ cur' = cur + w + t
        /\ value' = Token(w, t)
        /\ status' = 0
     \/ /\ "bad" \in Outcomes(kind, Token(w, t))
        /\ status' = 1
        /\ value' = <<>>
        /\ UNCHANGED cur
  /\ UNCHANGED <<text, stopped>>

(* More characters than Lookahead would be needed to see the next token.   *)
GiveUp ==
  /\ \E w \in 0 .. Lookahead + 1 :
       /\ \A i \in 0 .. w - 1 : IsSpace(Ahead(i))
       /\ \A i \in w .. Lookahead : InToken(Ahead(i))
       /\ w <= Lookahead \/ Ahead(w) # EOF
  /\ stopped' = TRUE
  /\ UNCHANGED <<text, cur, status, value>>

Next ==
  /\ ~stopped
  /\ \/ ReadChar
     \/ ReadCharEnd
     \/ \E w \in 0 .. Len(text) : ReadTokenEnd(w)
     \/ \E kind \in Kinds, w, t \in 0 .. Len(text) : ReadToken(kind, w, t)
     \/ GiveUp

Spec == Init /\ [][Next]_avars
=============================================================================
