----------------------------- MODULE MCLlmChat -----------------------------
(***************************************************************************)
(* Small instances of LlmChat: an alias with a pool of backends, and a     *)
(* name that resolves to a backend without a configured provider.          *)
(***************************************************************************)
EXTENDS LlmChat, TLC

CONSTANTS
    pool, unknown,   \* the two names a client asks for
    PoolModels,      \* the targets of the alias `pool`
    Unconfigured     \* a backend no provider is configured for

MCTargets == (pool :> PoolModels) @@ (unknown :> {Unconfigured})

Symmetry == Permutations(Request) \cup Permutations(PoolModels)

=============================================================================
