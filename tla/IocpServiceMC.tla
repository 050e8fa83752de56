--------------------------- MODULE IocpServiceMC ---------------------------
(***************************************************************************)
(* IocpService: two threads and one operation, or one thread and two       *)
(* operations, beside a thread of the program outside run().               *)
(***************************************************************************)
EXTENDS IocpService, TLC

CONSTANTS t1, t2, a, b

Program(crew, k1, k2, stops) ==
  [crew |-> crew, kind |-> (a :> k1 @@ b :> k2), stops |-> stops]

MCPrograms ==
  {Program({t1, t2}, "recv", "unused", FALSE), Program({t1, t2}, "read", "unused", TRUE),
   Program({t1}, "accept", "post", FALSE), Program({t1}, "connect", "write", FALSE),
   Program({t1}, "send", "unused", TRUE)}
=============================================================================
