-------------------------- MODULE MCProviderChain --------------------------
(* A chain for TLC with every kind of provider: a local server first, then *)
(* two services, then a second local server.  attempts = 0 counts as one.  *)
EXTENDS ProviderChain

Mixed == << [kind |-> "local", attempts |-> 2],
            [kind |-> "anthropic", attempts |-> 2],
            [kind |-> "openai", attempts |-> 0],
            [kind |-> "local", attempts |-> 1] >>
=============================================================================
