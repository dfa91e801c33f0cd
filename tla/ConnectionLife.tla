--------------------------- MODULE ConnectionLife ---------------------------
(***************************************************************************)
(* What TcpServer promises to user code about its connections: each is     *)
(* reported up once, then down once, by a call of its own, and only after  *)
(* that is the object freed, which may be in a call for another connection *)
(* that drops the last pointer to it.                                      *)
(***************************************************************************)
CONSTANT Conn

VARIABLE life

Init == life = [c \in Conn |-> "new"]

Freed(C) == [c \in Conn |-> IF c \in C THEN "freed" ELSE life[c]]

Free(C) == life' = Freed(C)

Up(c, C) ==
    /\ life[c] = "new"
    /\ life' = [Freed(C) EXCEPT ![c] = "up"]

Down(c, C) ==
    /\ life[c] = "up"
    /\ life' = [Freed(C) EXCEPT ![c] = "down"]

Next ==
    \E C \in SUBSET {c \in Conn : life[c] = "down"} :
        Free(C) \/ \E c \in Conn : Up(c, C) \/ Down(c, C)

Spec == Init /\ [][Next]_life
=============================================================================
