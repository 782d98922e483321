---------------------------- MODULE TokenStream ----------------------------
(* What the scanner of the debugger's connection promises: the characters  *)
(* that arrive are cut into tokens by the rules of scanner.l, the longest   *)
(* match first, whatever the pieces they arrive in, and a token that is     *)
(* complete is delivered before the scanner asks for more input.            *)
EXTENDS Naturals, Sequences, SequencesExt

VARIABLES pending,   \* the characters that have arrived and are in no token yet
          closed,    \* TRUE once the end of the connection has been seen
          ended,     \* TRUE once the rule <<EOF>> has run
          token      \* the last token delivered

vars == <<pending, closed, ended, token>>

(* The characters, up to what the rules tell apart. *)
Nul == 0
Other == 1
Newline == 2
Hash == 3
Dollar == 4
Plus == 5
Minus == 6
Hex == 7

(* "$"[^$#]*"#"{HEX}{HEX} *)
Packet(w) ==
    /\ Len(w) >= 4
    /\ w[1] = Dollar
    /\ \A i \in 2 .. Len(w) - 3 : w[i] \notin {Dollar, Hash}
    /\ w[Len(w) - 2] = Hash
    /\ w[Len(w) - 1] = Hex
    /\ w[Len(w)] = Hex

(* The number of the rule that matches a whole word. *)
Rule(w) == CASE w = <<Plus>>    -> 1
             [] w = <<Minus>>   -> 2
             [] Packet(w)       -> 3
             [] w = <<Newline>> -> 5
             [] OTHER           -> 4

(* The length of the first token of a non-empty word. *)
FirstLength(w) ==
    LET packets == {n \in 4 .. Len(w) : Packet(SubSeq(w, 1, n))}
    IN  IF packets = {} THEN 1 ELSE CHOOSE n \in packets : \A m \in packets : m <= n

(* A word that more characters can make a packet. *)
Incomplete(w) ==
    \E rest \in {<<Hash, Hex, Hex>>, <<Hex, Hex>>, <<Hex>>} : Packet(w \o rest)

(* The scanner asks for more input only when there is nothing to deliver.  *)
(* A single NUL is the exception: the engine uses this character to mark    *)
(* the end of its buffer and looks at the next one before it decides.       *)
Waits == pending = <<>> \/ pending = <<Nul>> \/ Incomplete(pending)

Init ==
    /\ pending = <<>>
    /\ closed = FALSE
    /\ ended = FALSE
    /\ token = [rule |-> 0, text |-> <<>>]

Arrive ==
    /\ ~closed /\ Waits
    /\ IsStrictPrefix(pending, pending')
    /\ UNCHANGED <<closed, ended, token>>

Close ==
    /\ ~closed /\ Waits
    /\ closed' = TRUE
    /\ UNCHANGED <<pending, ended, token>>

Deliver ==
    /\ pending # <<>>
    /\ closed \/ ~Incomplete(pending)
    /\ LET n == FirstLength(pending)
           text == SubSeq(pending, 1, n)
       IN  /\ token' = [rule |-> Rule(text), text |-> text]
           /\ pending' = SubSeq(pending, n + 1, Len(pending))
    /\ UNCHANGED <<closed, ended>>

End ==
    /\ pending = <<>> /\ ~ended
    /\ closed' = TRUE
    /\ ended' = TRUE
    /\ UNCHANGED <<pending, token>>

Next == Arrive \/ Close \/ Deliver \/ End

(* A delivered token is always followed by the next one, and the end of the *)
(* connection by the rule <<EOF>>.  A lone NUL may wait for its neighbour.  *)
Spec ==
    /\ Init
    /\ [][Next]_vars
    /\ WF_vars(Deliver /\ (closed \/ pending # <<Nul>>))
    /\ WF_vars(End /\ closed)

=============================================================================
