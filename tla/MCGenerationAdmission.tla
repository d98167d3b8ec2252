----------------------- MODULE MCGenerationAdmission -----------------------
(* Small instances of GenerationAdmission. *)
EXTENDS GenerationAdmission

CONSTANT openai

\* A tighter limit for the other providers, below the limit of the room.
MCProviderLimit == [p \in Providers |-> IF p = openai THEN 2 ELSE 1]
=============================================================================
