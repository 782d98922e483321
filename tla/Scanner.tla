------------------------------- MODULE Scanner ------------------------------
(* The engine that flex generates for scanner.l (scanner.c): the tables of *)
(* the automaton, the loop that matches and backs up, the buffer that is    *)
(* refilled by read(), moved to its start and doubled when it is full.      *)
(*                                                                          *)
(* Positions count from 0 as in C.  The characters of the buffer after the  *)
(* last one read are the two YY_END_OF_BUFFER_CHARs, which are NUL: a NUL   *)
(* of the input and the end of the buffer look the same to the automaton.   *)
(* The character that YY_DO_BEFORE_ACTION saves and replaces by a NUL while *)
(* a rule runs, and the statement that restores it, are left out.           *)
EXTENDS Naturals, Sequences, SequencesExt

CONSTANTS Chars,      \* the classes of characters that may arrive
          BufSize,    \* YY_BUF_SIZE
          ReadSize,   \* YY_READ_BUF_SIZE
          MaxText     \* a bound on the characters kept by a refill

(* What the constants are; the modules that give them their values assume it. *)
ScannerAssumption ==
    /\ Chars \subseteq 0 .. 7
    /\ BufSize \in Nat \ {0}
    /\ ReadSize \in Nat \ {0}
    /\ MaxText \in Nat \ {0}

VARIABLES buf,        \* yy_ch_buf[0 .. yy_n_chars - 1]
          size,       \* yy_buf_size
          status,     \* yy_buffer_status
          bp,         \* yy_bp and yytext_ptr: where the current text starts
          cp,         \* yy_cp and yy_c_buf_p
          dfa,        \* the automaton: its state and the last accepting one
          pc,         \* where yylex is
          token       \* the last token a rule received

vars == <<buf, size, status, bp, cp, dfa, pc, token>>

-----------------------------------------------------------------------------
(* The tables. *)
FromZero(s) == [i \in 0 .. Len(s) - 1 |-> s[i + 1]]

yy_accept == FromZero(<<0, 0, 0, 6, 4, 5, 4, 1, 2, 0, 0, 0, 3, 0>>)
yy_meta == FromZero(<<0, 1, 1, 1, 2, 1, 1, 1>>)
yy_base == FromZero(<<0, 0, 0, 13, 14, 14, 9, 14, 14, 8, 3, 2, 14, 14, 7>>)
yy_def == FromZero(<<0, 13, 1, 13, 13, 13, 14, 13, 13, 14, 13, 13, 13, 0, 13>>)
yy_nxt == FromZero(<<0, 4, 5, 4, 6, 7, 8, 4, 9, 12, 11,
                     10, 10, 13, 3, 13, 13, 13, 13, 13, 13, 13>>)
yy_chk == FromZero(<<0, 1, 1, 1, 1, 1, 1, 1, 14, 11, 10,
                     9, 6, 3, 13, 13, 13, 13, 13, 13, 13, 13>>)

YY_END_OF_BUFFER_CHAR == 0
YY_END_OF_BUFFER == 6
Jam == 13

(* The transition of a state on a class: the compressed rows share defaults. *)
Transition[s \in 1 .. 14] ==
    [c \in 0 .. 7 |->
        IF yy_chk[yy_base[s] + c] = s
        THEN yy_nxt[yy_base[s] + c]
        ELSE Transition[yy_def[s]][IF yy_def[s] >= 14 THEN yy_meta[c] ELSE c]]

(* One turn of the matching loop, at position p on class c. *)
Turn(d, p, c) ==
    [state |-> Transition[d.state][c],
     last  |-> IF yy_accept[d.state] # 0 THEN [state |-> d.state, cpos |-> p] ELSE d.last]

CharAt(p) == IF p < Len(buf) THEN buf[p + 1] ELSE YY_END_OF_BUFFER_CHAR

\* Mutant: a NUL of the text is taken for the end of the buffer.
yy_get_previous_state_raw(text, from, n) ==
    LET After[i \in 0 .. n] ==
            IF i = 0
            THEN [dfa EXCEPT !.state = 1]
            ELSE Turn(After[i - 1], from + i - 1, text[i])
    IN  After[n]

(* yy_get_previous_state: the state after the n first characters of a text  *)
(* that starts at position from.  A NUL in the text counts as class 1.      *)
yy_get_previous_state(text, from, n) ==
    LET After[i \in 0 .. n] ==
            IF i = 0
            THEN [dfa EXCEPT !.state = 1]
            ELSE Turn(After[i - 1], from + i - 1, IF text[i] = 0 THEN 1 ELSE text[i])
    IN  After[n]

-----------------------------------------------------------------------------
Text == SubSeq(buf, bp + 1, Len(buf))

Init ==
    /\ buf = <<>>
    /\ size = BufSize
    /\ status = "NEW"
    /\ bp = 0
    /\ cp = 0
    /\ dfa = [state |-> 1, last |-> [state |-> 1, cpos |-> 0]]
    /\ pc = "match"
    /\ token = [rule |-> 0, text |-> <<>>]

(* yy_match: a state whose row is the empty one ends the loop. *)
Advance ==
    /\ pc = "match"
    /\ dfa' = Turn(dfa, cp, CharAt(cp))
    /\ cp' = cp + 1
    /\ pc' = IF yy_base[dfa'.state] = 14 THEN "find_action" ELSE "match"
    /\ UNCHANGED <<buf, size, status, bp, token>>

(* yy_find_action: the state the loop stopped in, or the last accepting one. *)
Found == IF yy_accept[dfa.state] # 0 THEN [state |-> dfa.state, cpos |-> cp] ELSE dfa.last

(* The rule found runs, and the next token starts where its text ends. *)
RunRule ==
    /\ pc = "find_action"
    /\ yy_accept[Found.state] \in 1 .. 5
    /\ token' = [rule |-> yy_accept[Found.state], text |-> SubSeq(buf, bp + 1, Found.cpos)]
    /\ bp' = Found.cpos
    /\ cp' = Found.cpos
    /\ dfa' = [dfa EXCEPT !.state = 1]
    /\ pc' = "match"
    /\ UNCHANGED <<buf, size, status>>

AtEndOfBuffer ==
    /\ pc = "find_action"
    /\ yy_accept[Found.state] = YY_END_OF_BUFFER

Opened == IF status = "NEW" THEN "NORMAL" ELSE status

(* "This was really a NUL": the automaton is put back before it and takes   *)
(* the transition of class 1, or jams and looks for an action.              *)
NulCharacter ==
    /\ AtEndOfBuffer
    /\ Found.cpos <= Len(buf)
    /\ LET at == Found.cpos - 1
           before == yy_get_previous_state(Text, bp, at - bp)
           turned == Turn(before, at, 1)
       IN  IF turned.state # Jam
           THEN /\ cp' = at + 1
                /\ dfa' = turned
                /\ pc' = "match"
           ELSE /\ cp' = at
                /\ dfa' = [turned EXCEPT !.state = before.state]
                /\ pc' = "find_action"
    /\ status' = Opened
    /\ UNCHANGED <<buf, size, bp, token>>

(* The end of the buffer: yy_get_next_buffer is called. *)
EndOfBuffer ==
    /\ AtEndOfBuffer
    /\ Found.cpos > Len(buf)
    /\ cp' = Found.cpos
    /\ pc' = "refill"
    /\ status' = Opened
    /\ UNCHANGED <<buf, size, bp, dfa, token>>

number_to_move == cp - bp - 1
Moved == SubSeq(buf, bp + 1, bp + number_to_move)

(* The buffer is doubled until there is room for one character. *)
Grown == LET Doubled[k \in 0 .. number_to_move + 1] == IF k = 0 THEN size ELSE 2 * Doubled[k - 1]
             enough == {k \in 0 .. number_to_move + 1 : Doubled[k] > number_to_move + 1}
         IN  Doubled[CHOOSE k \in enough : \A j \in enough : k <= j]

\* Mutant: the places of the two ends of buffer are read into.
Room_terminators == IF Grown + 2 - number_to_move - 1 > ReadSize
                    THEN ReadSize ELSE Grown + 2 - number_to_move - 1

Room == IF Grown - number_to_move - 1 > ReadSize
        THEN ReadSize ELSE Grown - number_to_move - 1

(* read() returns some characters: EOB_ACT_CONTINUE_SCAN. *)
ReadSome ==
    /\ pc = "refill"
    /\ status # "EOF_PENDING"
    /\ \E n \in 1 .. Room :
         /\ number_to_move + n <= MaxText
         /\ \E chunk \in [1 .. n -> Chars] : buf' = Moved \o chunk
    /\ size' = Grown
    /\ bp' = 0
    /\ cp' = number_to_move
    /\ dfa' = yy_get_previous_state(Moved, 0, number_to_move)
    /\ pc' = "match"
    /\ UNCHANGED <<status, token>>

(* No character: read() returned 0, or is not called again once it has.  *)
NoMore ==
    /\ pc = "refill"
    /\ size' = IF status = "EOF_PENDING" THEN size ELSE Grown
    /\ buf' = Moved
    /\ bp' = 0
    /\ cp' = number_to_move
    /\ UNCHANGED token

(* EOB_ACT_END_OF_FILE: yyrestart empties the buffer, and <<EOF>> runs. *)
EndOfFile ==
    /\ NoMore
    /\ number_to_move = 0
    /\ status' = "NEW"
    /\ pc' = "ended"
    /\ UNCHANGED dfa

(* EOB_ACT_LAST_MATCH: the text that is left is matched as it is. *)
LastMatch ==
    /\ NoMore
    /\ number_to_move > 0
    /\ status' = "EOF_PENDING"
    /\ dfa' = yy_get_previous_state(Moved, 0, number_to_move)
    /\ pc' = "find_action"

(* read() fails: YY_FATAL_ERROR ends the process.  A read interrupted by a  *)
(* signal is tried again, which changes nothing.                            *)
ReadFails ==
    /\ pc = "refill"
    /\ status # "EOF_PENDING"
    /\ size' = Grown
    /\ pc' = "exited"
    /\ UNCHANGED <<buf, status, bp, cp, dfa, token>>

Next ==
    \/ Advance \/ RunRule \/ NulCharacter \/ EndOfBuffer
    \/ ReadSome \/ EndOfFile \/ LastMatch \/ ReadFails

Spec == Init /\ [][Next]_vars

(* The thread runs; only read() may wait for ever, and not after the end of *)
(* the connection has been seen.                                            *)
FairSpec ==
    /\ Spec
    /\ WF_vars(Advance \/ RunRule \/ NulCharacter \/ EndOfBuffer)
    /\ WF_vars(status = "EOF_PENDING" /\ (EndOfFile \/ LastMatch))

-----------------------------------------------------------------------------
(* The engine reads and writes inside the buffer it has allocated, whose    *)
(* last two characters are the ends of buffer: it never runs past them, and *)
(* the text in hand never starts after the place that is examined.          *)
InsideBuffer ==
    /\ Len(buf) + 1 <= size + 1
    /\ bp <= Len(buf)
    /\ pc = "match" => cp <= Len(buf) + 1
    /\ pc = "refill" => bp < cp /\ cp = Len(buf) + 1
    /\ AtEndOfBuffer => bp < Found.cpos

(* Whatever the pieces in which the input arrives, the engine delivers the  *)
(* tokens of the rules, in order, each as soon as it is complete: it is a    *)
(* TokenStream.                                                             *)
Tokens == INSTANCE TokenStream WITH
    pending <- Text,
    closed  <- status = "EOF_PENDING" \/ pc = "ended",
    ended   <- pc = "ended"

CutsIntoTokens == Tokens!Spec

=============================================================================
