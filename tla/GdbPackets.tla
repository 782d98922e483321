----------------------------- MODULE GdbPackets -----------------------------
(* How gdb_protocol.c builds and reads the text of packets: the array       *)
(* packet, in which an answer is framed in place and whose neighbour in     *)
(* struct gdb_protocol_data is len, the hexadecimal text of memory and of    *)
(* registers, the numbers of registers, and the escapes of binary data.      *)
(* Characters are their codes, except in the numbers of registers, which are  *)
(* sequences of digits.                                                       *)
EXTENDS Integers, Sequences, SequencesExt

CONSTANTS MAX_PACKET_SIZE,  \* the size of the array packet
          PacketSize,       \* what the answer to qSupported announces
          MemorySize,       \* memory_get_size
          Addresses,        \* the addresses the debugger names
          Values,           \* the bytes the debugger writes to memory
          Words,            \* the words of registers, their least significant byte first
          Names,            \* the numbers of registers it sends, in hexadecimal digits
          MaxWrite,         \* a bound on the bytes of a write
          Orders            \* the byte orders of hosts and targets

(* What the constants are; the modules that give them their values assume it. *)
PacketsAssumption ==
    /\ MAX_PACKET_SIZE \in Nat /\ MAX_PACKET_SIZE >= 8
    /\ PacketSize \in Nat /\ PacketSize <= MAX_PACKET_SIZE
    /\ MemorySize \in Nat \ {0}
    /\ Addresses \subseteq Nat
    /\ Values \subseteq 0 .. 255
    /\ Words \subseteq [1 .. 4 -> 0 .. 255]
    /\ \A name \in Names : name \in [1 .. 1 -> 0 .. 15] \cup [1 .. 2 -> 0 .. 15]
    /\ MaxWrite \in Nat
    /\ Orders \subseteq {"little", "big"}

VARIABLES host,       \* the byte order of the machine (is_big_endian)
          target,     \* the byte order the simulator was built for
          memory,     \* the bytes of memory
          registers,  \* the registers of the mode the processor is in
          area,       \* packet[] and the bytes that follow it, len first
          request,    \* the last request
          sent,       \* the last packet transmitted
          aborted     \* an assertion failed

vars == <<host, target, memory, registers, area, request, sent, aborted>>

Ok == <<79, 75>>
E02 == <<69, 48, 50>>
Dollar == 36
Sharp == 35
Escape == 125

-----------------------------------------------------------------------------
(* "%02x" and its inverse. *)
Digit(n) == IF n < 10 THEN 48 + n ELSE 87 + n
Hex2(byte) == <<Digit(byte \div 16), Digit(byte % 16)>>
DigitValue(c) == IF c < 58 THEN c - 48 ELSE c - 87
Byte(text) == 16 * DigitValue(text[1]) + DigitValue(text[2])

HexText(bytes) == [k \in 1 .. 2 * Len(bytes) |-> Hex2(bytes[(k + 1) \div 2])[IF k % 2 = 1 THEN 1 ELSE 2]]

Xor20(byte) == IF (byte \div 32) % 2 = 1 THEN byte - 32 ELSE byte + 32

(* The positions of a word's bytes in the memory of the host, and the order *)
(* in which read_uint32 and write_uint32 go through them.                   *)
InHost(word) == IF host = "little" THEN word ELSE Reverse(word)
Walked(bytes) == IF host = target THEN bytes ELSE Reverse(bytes)

write_uint32(word) == HexText(Walked(InHost(word)))

\* Mutant: the bytes in the order of the host.
read_uint32_host(text) ==
    InHost([i \in 1 .. 4 |-> Byte(SubSeq(text, 2 * i - 1, 2 * i))])

read_uint32(text) ==
    InHost(Walked([i \in 1 .. 4 |-> Byte(SubSeq(text, 2 * i - 1, 2 * i))]))

Put(a, at, text) ==
    [p \in DOMAIN a |-> IF p \in at .. at + Len(text) - 1 THEN text[p - at + 1] ELSE a[p]]

Sum(text) == FoldLeft(+, 0, text) % 256

(* gdb_send_buffer: from the string at packet + 1, in place; len is written  *)
(* last, and gdb_transmit_packet writes len bytes from the start.            *)
send_buffer(a) ==
    LET end == CHOOSE p \in DOMAIN a : p >= 1 /\ a[p] = 0 /\ \A q \in 1 .. p - 1 : a[q] # 0
        check == Sum([p \in 1 .. end - 1 |-> a[p]])
        len == end + 3
    IN  Put(Put(Put(a, 0, <<Dollar>>), end, <<Sharp>> \o Hex2(check) \o <<0>>),
            MAX_PACKET_SIZE, <<len % 256, len \div 256, 0, 0>>)

Length(a) == a[MAX_PACKET_SIZE] + 256 * a[MAX_PACKET_SIZE + 1]

Answer(payload) ==
    /\ area' = send_buffer(Put(area, 1, payload \o <<0>>))
    /\ sent' = [p \in 1 .. Length(area') |-> area'[p - 1]]

-----------------------------------------------------------------------------
\* A request about memory; one about a register has its number, and the word
\* that is written.
Request(command, address, bytes) ==
    [command |-> command, name |-> <<>>, address |-> address, bytes |-> bytes]
RegisterRequest(command, name, bytes) ==
    [command |-> command, name |-> name, address |-> 0, bytes |-> bytes]
NoRequest == Request("none", 0, <<>>)

Init ==
    /\ host \in Orders
    /\ target \in Orders
    /\ memory = [a \in 0 .. MemorySize - 1 |-> 0]
    /\ \E word \in Words : registers = [r \in 0 .. 15 |-> word]
    /\ area = [p \in 0 .. MAX_PACKET_SIZE + 7 |-> 0]
    /\ request = NoRequest
    /\ sent = <<>>
    /\ aborted = FALSE

(* The bytes from an address on, up to the first that is not in memory. *)
BytesFrom(address, size) ==
    LET n == IF address >= MemorySize THEN 0
             ELSE IF address + size > MemorySize THEN MemorySize - address ELSE size
    IN  [i \in 1 .. n |-> memory[address + i - 1]]

read_memory ==
    /\ \E address \in Addresses, size \in 0 .. PacketSize \div 2 :
         /\ request' = Request("m", address, BytesFrom(address, size))
         /\ Answer(HexText(BytesFrom(address, size)))
    /\ UNCHANGED <<host, target, memory, registers, aborted>>

(* The debugger's escapes. *)
Escaped(bytes) ==
    FlattenSeq([i \in 1 .. Len(bytes) |->
        IF bytes[i] \in {Dollar, Sharp, Escape} THEN <<Escape, Xor20(bytes[i])>>
        ELSE <<bytes[i]>>])

(* The values write_memory_binary takes from a content, and where each starts. *)
ContentValue(content, p) ==
    IF content[p] = Escape THEN Xor20(content[p + 1]) ELSE content[p]

\* Mutant: the escape is not skipped.
Start_single(content, size) == [i \in 1 .. size |-> i]

Start(content, size) ==
    LET At[i \in 1 .. size] ==
            IF i = 1 THEN 1 ELSE At[i - 1] + (IF content[At[i - 1]] = Escape THEN 2 ELSE 1)
    IN  At

(* The loop stops at the first byte that memory refuses. *)
write_memory_binary ==
    /\ \E address \in Addresses, size \in 0 .. MaxWrite :
       \E bytes \in [1 .. size -> Values] :
         LET content == Escaped(bytes)
             start == Start(content, size)
             fits == {i \in 1 .. size : address + i - 1 < MemorySize}
         IN  /\ memory' = [a \in DOMAIN memory |->
                    IF a - address + 1 \in fits
                    THEN ContentValue(content, start[a - address + 1]) ELSE memory[a]]
             /\ request' = Request("X", address, bytes)
             /\ Answer(IF address < MemorySize /\ fits = 1 .. size THEN Ok ELSE E02)
    /\ UNCHANGED <<host, target, registers, aborted>>

(* The two readings of a number: atoi stops at the first character that is no *)
(* decimal digit, sscanf("%x") takes all of them.                             *)
Decimal(name) ==
    IF name[1] > 9 THEN 0
    ELSE IF Len(name) = 1 \/ name[2] > 9 THEN name[1] ELSE 10 * name[1] + name[2]
Hexadecimal(name) == IF Len(name) = 1 THEN name[1] ELSE 16 * name[1] + name[2]

\* The sum of a word and an integer, modulo 2^32.
Plus(word, n) ==
    LET s1 == word[1] + n
        s2 == word[2] + s1 \div 256
        s3 == word[3] + s2 \div 256
        s4 == word[4] + s3 \div 256
    IN  <<s1 % 256, s2 % 256, s3 % 256, s4 % 256>>

WithoutBit1(word) == [word EXCEPT ![1] = IF (@ \div 2) % 2 = 1 THEN @ - 2 ELSE @]

arm_read_register(reg) ==
    IF reg = 15 THEN WithoutBit1(Plus(registers[15], 4)) ELSE registers[reg]

\* assert(reg < 16), which ends the simulator before it answers.
AssertFails == aborted' = TRUE /\ UNCHANGED <<area, sent>>

read_register ==
    /\ \E name \in Names :
         LET reg == Decimal(name)
         IN  /\ request' = RegisterRequest("p", name, <<>>)
             /\ \/ /\ reg < 16
                   /\ Answer(write_uint32(Plus(arm_read_register(reg), IF reg = 15 THEN -4 ELSE 0)))
                   /\ UNCHANGED aborted
                \/ reg >= 16 /\ AssertFails
    /\ UNCHANGED <<host, target, memory, registers>>

(* What the debugger sends for a word: its bytes in the order of the target. *)
TargetText(word) == HexText(IF target = "little" THEN word ELSE Reverse(word))

write_register ==
    /\ \E name \in Names, word \in Words :
         LET reg == Hexadecimal(name)
         IN  /\ request' = RegisterRequest("P", name, word)
             /\ \/ /\ reg < 16
                   /\ registers' = [registers EXCEPT ![reg] = read_uint32(TargetText(word))]
                   /\ Answer(Ok)
                   /\ UNCHANGED aborted
                \/ reg >= 16 /\ AssertFails /\ UNCHANGED registers
    /\ UNCHANGED <<host, target, memory>>

Next ==
    /\ ~ aborted
    /\ read_memory \/ write_memory_binary \/ read_register \/ write_register

Spec == Init /\ [][Next]_vars

-----------------------------------------------------------------------------
(* The register an answer to "p" shows.  It is the one the debugger names     *)
(* where the number has one decimal digit; of any other text it is the decimal *)
(* number at its start, or r0.                                                *)
Shown(name) == IF Len(name) = 1 /\ name[1] < 10 THEN Hexadecimal(name) ELSE Decimal(name)

(* The payload each request is due; that of r15 is the word without its bit 1. *)
Due ==
    CASE request.command = "m" -> HexText(request.bytes)
      [] request.command = "p" ->
           LET reg == Shown(request.name)
           IN  TargetText(IF reg = 15 THEN WithoutBit1(registers[15]) ELSE registers[reg])
      [] request.command = "P" -> Ok
      [] request.command = "X" -> IF /\ request.address < MemorySize
                                     /\ request.address + Len(request.bytes) <= MemorySize
                                  THEN Ok ELSE E02

WellFormed == sent = <<Dollar>> \o Due \o <<Sharp>> \o Hex2(Sum(Due))

(* A binary write changes the bytes it names to the bytes the debugger meant,*)
(* the escaped ones included, up to the end of memory, and no other byte.    *)
WritesWhatIsMeant ==
    [][request'.command = "X" =>
         \A a \in DOMAIN memory :
            memory'[a] = LET i == a - request'.address + 1
                         IN  IF i \in 1 .. Len(request'.bytes) THEN request'.bytes[i]
                             ELSE memory[a]]_vars

(* The number is none of a register, as the handler reads it. *)
WithoutRegister == \/ request.command = "p" /\ Shown(request.name) > 15
                   \/ request.command = "P" /\ Hexadecimal(request.name) > 15

(* The register that "P" names in hexadecimal holds the word the debugger     *)
(* wrote, on hosts and targets of both byte orders, and an answer that leaves   *)
(* room in packet[] for its frame is transmitted with its own payload and the   *)
(* checksum of that payload, whatever the longer answers before it have left in *)
(* the array and in len.  The simulator ends at a number without a register,    *)
(* which "p" takes one like 19 for that it reads in decimal, and at no other.   *)
AnswersAreDue ==
    /\ aborted <=> WithoutRegister
    /\ request.command = "P" /\ ~ aborted => registers[Hexadecimal(request.name)] = request.bytes
    /\ request.command # "none" /\ ~ aborted /\ Len(Due) <= MAX_PACKET_SIZE - 4 => WellFormed

=============================================================================
