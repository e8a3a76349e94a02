-------------------------------- MODULE SorTag --------------------------------
(***************************************************************************)
(* The five bytes of a time in the sample log (rimms.c, Tag_SOR), and how  *)
(* the comment above the code has them read.                               *)
(***************************************************************************)
EXTENDS Integers

(* The fields of a struct tm that are used; the time of day is in seconds.  *)
StructTm ==
    {tm \in [mday : 1..31, mon : 0..11, year : 100..163, sec : Nat] : tm.sec < 24 * 60 * 60}

Sign(off) == IF off < 0 THEN 1 ELSE 0

Stamp(tm, off) ==
    << ((8 * tm.mday) % 256) + ((tm.mon + 1) \div 2),
       128 * ((tm.mon + 1) % 2) + 2 * ((tm.year - 100) % 64) + Sign(off),
       16 * (off % 16) + (((10 * tm.sec) \div 65536) % 16),
       ((10 * tm.sec) \div 256) % 256,
       (10 * tm.sec) % 256 >>

(* What the comment says each bit means, from byte 1 to byte 5.             *)
Day(b) == b[1] \div 8
Month(b) == 2 * (b[1] % 8) + (b[2] \div 128)
Year(b) == (b[2] \div 2) % 64
Fuse(b) == (b[3] \div 16) - 16 * (b[2] % 2)
Tenths(b) == 65536 * (b[3] % 16) + 256 * b[4] + b[5]

(* The bytes b say the date and time tm, with a deviation of off hours.     *)
Says(b, tm, off) ==
    /\ Day(b) = tm.mday /\ Month(b) = tm.mon + 1 /\ Year(b) = tm.year - 100
    /\ Tenths(b) = 10 * tm.sec
    /\ Fuse(b) = off
=============================================================================
