----------------------------- MODULE WireFields -----------------------------
(***************************************************************************)
(* What the wire knows of a field of a message: the n-th element of a       *)
(* message is its field number n, with its wire type and, for a message     *)
(* within, its type.                                                        *)
(***************************************************************************)
EXTENDS Sequences

Field(name, kind, of) ==
    [name |-> name, kind |-> kind, of |-> of, many |-> FALSE]
V(name) == Field(name, "varint", "")        \* int32, int64, bool
F(name) == Field(name, "fixed32", "")       \* float
B(name) == Field(name, "bytes", "")         \* string
M(name, of) == Field(name, "bytes", of)     \* another message
Many(field) == [field EXCEPT !.many = TRUE]

Empty == <<>>                               \* emptypb.Empty
=============================================================================
