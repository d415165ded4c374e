----------------------------- MODULE MCPipeline -----------------------------
(***************************************************************************)
(* The chains for Pipeline: the one main assembles with everything enabled, *)
(* and every chain of up to three different layers.                         *)
(***************************************************************************)
EXTENDS Pipeline

MainChain == <<"record", "security", "ratelimit", "auth">>

ShortChains == {c \in UNION {[1..n -> Kinds] : n \in 0..3} : IsInjective(c)}

MCChains == {MainChain} \cup (ShortChains \ {<<>>})
MCMain == {MainChain}
MCRetry == {<<"retry">>}
=============================================================================
