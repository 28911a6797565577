-------------------------------- MODULE Rio ---------------------------------
(***************************************************************************)
(* The buffered half of the robust I/O package of segel.c: a rio_t and     *)
(* what rio_readinitb, rio_read and rio_readlineb do to it.                *)
(*                                                                         *)
(* The stream consists of symbols.  CR and LF are the two bytes the        *)
(* programs look for; every other symbol stands for a run of bytes.        *)
(* rio_cnt is -1 after an interrupted read().                              *)
(***************************************************************************)
EXTENDS Integers, Sequences

CONSTANTS
    RIO_BUFSIZE, \* the size of rio_buf
    MAXLINE,     \* the size of the line buffers, terminator included
    Symbols,     \* what a stream can carry
    CR, LF

ASSUME RioSizeAssumption == RIO_BUFSIZE \in Nat \ {0}

ASSUME LineSizeAssumption == MAXLINE \in Nat \ {0, 1}

ASSUME EolAssumption == CR \in Symbols /\ LF \in Symbols /\ CR # LF

(* rio_t without the descriptor, bufptr counted from 1. *)
RioT == [cnt : Int, ptr : Nat, buf : [1..RIO_BUFSIZE -> Symbols]]

(* rio_readinitb: an empty buffer, its contents left as they are. *)
rio_readinitb(buf) == [cnt |-> 0, ptr |-> 1, buf |-> buf]

(* The buffer after read() delivered some bytes; the rest of it is stale. *)
Loaded(r, bytes) ==
    [i \in 1..RIO_BUFSIZE |-> IF i <= Len(bytes) THEN bytes[i] ELSE r.buf[i]]

(* A refill that forgets to move bufptr back (mutation). *)
RefillNoReset(r, bytes) ==
    [cnt |-> Len(bytes), ptr |-> 1 + ((r.ptr - 1) % RIO_BUFSIZE),
     buf |-> Loaded(r, bytes)]

(* rio_read, the loop: read() delivered bytes, bufptr is reset. *)
Refill(r, bytes) ==
    [cnt |-> Len(bytes), ptr |-> 1, buf |-> Loaded(r, bytes)]

(* rio_read, the loop: read() returned rc <= 0, -1 for EINTR. *)
NoBytes(r, rc) == [r EXCEPT !.cnt = rc]

(* rio_read, the copy: one byte, since rio_readlineb asks for one. *)
NextByte(r) == r.buf[r.ptr]

Advance(r) == [r EXCEPT !.cnt = @ - 1, !.ptr = @ + 1]

(* rio_readlineb, the loop: it stops after a newline, or with room for the *)
(* terminator only.                                                        *)
LineDone(line) == line[Len(line)] = LF \/ Len(line) = MAXLINE - 1

(* A comparison that forgets the carriage return (mutation). *)
NewlineOnly == <<LF>>

(* strcmp(buf, "\r\n") is 0. *)
EmptyLine == <<CR, LF>>
=============================================================================
