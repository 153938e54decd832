------------------------------ MODULE MCAiGroup ------------------------------
(* An instance of AiGroup for model checking: two accounts.                *)
EXTENDS AiGroup, TLC

CONSTANTS a1, a2, b1, b2, h1, h2

OwnBinding == (b1 :> a1) @@ (b2 :> a2)

NoneOrAll == {{}, {a1, a2}}

HandlersAlike == Permutations(Handlers)
=============================================================================
