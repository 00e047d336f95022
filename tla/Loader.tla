------------------------------- MODULE Loader -------------------------------
(***************************************************************************)
(* The loader of binary modules (lib/core/module.c): a module is a shared  *)
(* library looked up by name in the module paths, opened once, kept in the *)
(* table lisp->modules and closed by module_fini.  A function of a library *)
(* is bound in the globals to an address inside it.                        *)
(*                                                                         *)
(* A library may be opened several times: dlopen counts, and the code is   *)
(* mapped while the count is positive.                                     *)
(***************************************************************************)
EXTENDS Naturals, FiniteSets

CONSTANTS
  Modules,     \* the module names a program may ask for
  Functions,   \* the function names it may ask for
  Disk,        \* what the file system holds under each module name
  MaxOpens     \* bound on the times a library without a name is opened

Library ==
  [found : BOOLEAN,                      \* lib<name>.so is in one of the paths
   loads : BOOLEAN,                      \* dlopen succeeds
   name : {"none", "wrong", "right"},    \* what its lisp_module_name answers
   entries : BOOLEAN,                    \* it has lisp_module_entries
   functions : SUBSET Functions]         \* the functions it registers

ASSUME DiskAssumption == Disk \in [Modules -> Library]
ASSUME MaxOpensAssumption == MaxOpens \in Nat

VARIABLES
  opens,      \* for each library, how many times it is open
  modules,    \* lisp->modules: the modules whose handle is kept
  globals     \* the native functions of the globals and their libraries

loaderVars == <<opens, modules, globals>>

LoaderTypeOK ==
  /\ opens \in [Modules -> Nat]
  /\ modules \in SUBSET Modules
  /\ DOMAIN globals \subseteq Functions
  /\ globals \in [DOMAIN globals -> Modules]

-----------------------------------------------------------------------------
Nameless(m) == Disk[m].loads /\ Disk[m].name = "none"

(* module_load_at_path: whether it returns a handle, and the openings of m *)
(* it leaves.  A library with the wrong name is closed again, one without  *)
(* a name is not.                                                          *)
LoadAtPath(m) ==
  [ok |-> Disk[m].loads /\ Disk[m].name = "right",
   left |-> IF Disk[m].loads /\ Disk[m].name # "wrong"
            THEN opens[m] + 1 ELSE opens[m]]

\* Mutant of Dlclose: the handle is closed whoever opened it.
MutDlclose(added, n) == n - 1

(* DLCLOSE: a handle is closed only if this load opened it.                *)
Dlclose(added, n) == IF added THEN n - 1 ELSE n

(* module_load_symbols: the requested names that the library registers; T  *)
(* requests every name.                                                    *)
LoadSymbols(m, request) ==
  IF Disk[m].entries THEN request \cap Disk[m].functions ELSE {}

(* module_load_binary: the handle comes from the table or from the disk;   *)
(* it is kept only if some function was bound.                             *)
LoadBinary(m, request) ==
  LET added == m \notin modules
      at    == IF added THEN LoadAtPath(m) ELSE [ok |-> TRUE, left |-> opens[m]]
      syms  == LoadSymbols(m, request)
  IN  \/ /\ ~at.ok
         /\ at.left <= MaxOpens
         /\ opens' = [opens EXCEPT ![m] = at.left]
         /\ UNCHANGED <<modules, globals>>
      \/ /\ at.ok
         /\ syms = {}
         /\ opens' = [opens EXCEPT ![m] = Dlclose(added, at.left)]
         /\ UNCHANGED <<modules, globals>>
      \/ /\ at.ok
         /\ syms # {}
         /\ opens' = [opens EXCEPT ![m] = at.left]
         /\ modules' = modules \cup {m}
         /\ globals' = [f \in syms \cup DOMAIN globals |->
                          IF f \in syms THEN m ELSE globals[f]]

(* module_load: the file is searched before the table is.                  *)
ModuleLoad(m, request) ==
  \/ /\ ~Disk[m].found
     /\ UNCHANGED loaderVars
  \/ /\ Disk[m].found
     /\ LoadBinary(m, request)

(* module_fini: every handle of the table is closed and the table dropped; *)
(* the globals keep the addresses until the context is deleted.            *)
ModuleFini ==
  /\ opens' = [m \in Modules |-> IF m \in modules THEN opens[m] - 1 ELSE opens[m]]
  /\ modules' = {}

LoaderInit ==
  /\ opens = [m \in Modules |-> 0]
  /\ modules = {}
  /\ globals = <<>>

LoaderNext == \E m \in Modules, request \in SUBSET Functions : ModuleLoad(m, request)

LoaderSpec == LoaderInit /\ [][LoaderNext]_loaderVars

-----------------------------------------------------------------------------
(* Every handle is accounted for: a library is open once if the table has  *)
(* it and closed otherwise, except a library without a name, whose handle  *)
(* is lost.  The failures of module_load_binary must close what they       *)
(* opened, and nothing another load still uses.                            *)
HandlesExact ==
  \A m \in Modules :
    /\ m \in modules => opens[m] = 1
    /\ m \notin modules /\ ~Nameless(m) => opens[m] = 0

(* An address in the globals points into a library that is open: calling   *)
(* the function after a failed or repeated load of its module is safe.     *)
BoundOpen == \A f \in DOMAIN globals : opens[globals[f]] > 0

=============================================================================
