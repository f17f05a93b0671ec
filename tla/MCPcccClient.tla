----------------------------- MODULE MCPcccClient -----------------------------
(* Two goroutines. Reads with an element asked for twice, with one beyond the file, with strings  *)
(* that need two bulk requests of which the PLC has no room for the first, and with addresses of  *)
(* every form; bit writes to the same word and to the status word of a timer; a directory that    *)
(* takes two sections.                                                                            *)
EXTENDS PcccClient

MCFiles == (<<"N", 7>> :> 4) @@ (<<"T", 4>> :> 2) @@ (<<"ST", 9>> :> 3) @@ (<<"O", 0>> :> 1) @@ (<<"F", 8>> :> 2)

MCWords == {[type |-> "N", file |-> 7, off |-> 0]}

MCRows == <<"O", "hole", "S", "hole", "T", "hole", "hole", "N", "F", "ST">>

Spell(type, file, elem, mod, arg) == [type |-> type, file |-> file, elem |-> elem, mod |-> mod, arg |-> arg]
N(elem) == Spell("N", 7, elem, "none", 0)
ST(elem) == Spell("ST", 9, elem, "none", 0)

MCReads == {<<N(1), N(0), N(1), Spell("N", None, 0, "none", 0)>>, <<N(3), N(4)>>, <<ST(2), ST(1), ST(0)>>,
            <<Spell("T", 4, 0, "name", "ACC"), Spell("O", None, 0, "bit", 3), Spell("F", 8, 0, "none", 0),
              Spell("F", 8, 1, "none", 0)>>}

V(kind, bits) == [kind |-> kind, bits |-> bits, len |-> 0]
MCWrites == {[name |-> Spell("N", 7, 0, "bit", 1), value |-> V("bool", {0})],
             [name |-> Spell("N", 7, 0, "bit", 2), value |-> V("int", {})],
             [name |-> N(0), value |-> V("int", {2, 17})],
             [name |-> Spell("T", 4, 0, "name", "DN"), value |-> V("bool", {0})],
             [name |-> Spell("T", 4, 0, "none", 0), value |-> V("int", {1})]}
=============================================================================
