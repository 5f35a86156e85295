------------------------------ MODULE MCKeyPool ------------------------------
(***************************************************************************)
(* Key pools of one, two and three keys, one without keys, and a pool of    *)
(* three clients.                                                           *)
(***************************************************************************)
EXTENDS KeyPool

MCProviders == {"fal", "exa", "openrouter", "tenderly", "deepgram"}
MCCount == [p \in MCProviders |->
              CASE p = "fal" -> 3 [] p = "exa" -> 2 [] p = "openrouter" -> 1
                [] p = "tenderly" -> 0 [] p = "deepgram" -> 3]
MCWrapped == {"deepgram"}
=============================================================================
