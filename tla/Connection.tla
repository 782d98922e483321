----------------------------- MODULE Connection -----------------------------
(* The connection with the debugger, from the sockets (Connections) through   *)
(* the scanner (Scanner) and the texts of the packets (GdbPackets) to the      *)
(* requests and their answers (GdbLink), with what each part promises.  The    *)
(* parts share no state here: each module models one of them.                 *)
EXTENDS GdbLink

CONSTANTS Chars, BufSize, ReadSize, MaxText,          \* of Scanner
          MAX_PACKET_SIZE, PacketSize, MemorySize, Addresses, Values,
          Words, Names, MaxWrite, Orders,             \* of GdbPackets
          Senders, Limit, Backlog                     \* of Connections

VARIABLES buf, size, status, bp, cp, dfa, pc, token,               \* of Scanner
          host, target, memory, registers, area, request, sent, aborted,   \* of GdbPackets
          gdb, irq, lock, open, over, sender, queue, serving, byteRead,
          connected, raised                                       \* of Connections

Scan == INSTANCE Scanner
Packets == INSTANCE GdbPackets
Sockets == INSTANCE Connections

ASSUME PartsAssumption ==
    Scan!ScannerAssumption /\ Packets!PacketsAssumption /\ Sockets!ConnectionsAssumption

-----------------------------------------------------------------------------
\* The scanner reads and writes inside its buffer (yy_get_next_buffer; see
\* Scanner).
InsideBuffer == Scan!InsideBuffer

\* Whatever the pieces of the input, the scanner delivers the tokens of its rules
\* (yylex; see Scanner and TokenStream).
CutsIntoTokens == Scan!CutsIntoTokens

\* The register that a write names holds its word, and short answers are well
\* formed (read_register, write_register, read_uint32, write_uint32, gdb_send_buffer; see GdbPackets).
AnswersAreDue == Packets!AnswersAreDue

\* A binary write changes the bytes it names and no other (write_memory_binary;
\* see GdbPackets).
WritesWhatIsMeant == Packets!WritesWhatIsMeant

\* Once it gets the mutex, and when senders close, a connection raises its exception, in
\* order (irq_listener; see Connections).
ConnectedIsRaised == Sockets!ConnectedIsRaised
=============================================================================
