------------------------------- MODULE MCModels -------------------------------
(* The inputs of the Models run: mappings that clear, move and spoil the       *)
(* overrides of two roles, and a fresh install beside one that is set up.      *)
EXTENDS Models

Mappings == {<<None, None>>, <<OpenAI, None>>, <<Aws, OpenAI>>, <<None, Stray>>}

CONSTANT AnySecret    \* the FERNET_KEY the installed keys are encrypted with

Fresh == [keys |-> [n \in Names |-> None], overrides |-> <<None, None>>,
          search |-> None, retries |-> None]

SetUp == [keys |-> [n \in Names |-> IF n \in {OpenAI, Tavily}
                                    THEN [id |-> 0, under |-> AnySecret] ELSE None],
          overrides |-> <<OpenAI, None>>, search |-> Tavily, retries |-> None]

Installed == {Fresh, SetUp}
===============================================================================
