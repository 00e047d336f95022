------------------------------ MODULE MCSession ------------------------------
(***************************************************************************)
(* A small session: two functions, and modules that load, carry the wrong  *)
(* name, or carry none.                                                    *)
(***************************************************************************)
EXTENDS Session

CONSTANTS std, anon, odd, quote, read

MCModules == {std, anon, odd}
MCFunctions == {quote, read}
Lib(n, fs) == [found |-> TRUE, loads |-> TRUE, name |-> n, entries |-> TRUE,
               functions |-> fs]
MCDisk == std :> Lib("right", {quote}) @@ anon :> Lib("none", {read})
          @@ odd :> Lib("wrong", {read})
MCDefaults == {quote}

=============================================================================
