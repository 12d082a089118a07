------------------------------- MODULE MCBoot -------------------------------
(* Instances of Boot: the demo desk with its three accounts.               *)
EXTENDS Boot

CONSTANTS marta, ana, luis, text, MartaName, AnaName, LuisName

MCAgents == <<ana, luis>>

MCDisplayName == [u \in {marta, ana, luis} |->
  CASE u = marta -> MartaName [] u = ana -> AnaName [] u = luis -> LuisName]

Environment(migrates, seeds, commands, shared) ==
  [RUN_MIGRATIONS: migrates, SEED_DEMO: seeds, command: commands,
   REQUIRE_SHARED_CACHE: {TRUE}, shared: shared]

(* Every environment with a shared cache, served by gunicorn, and every    *)
(* one that the check is there to refuse.                                  *)
MCEnvironments ==
  Environment(BOOLEAN, BOOLEAN, {"gunicorn"}, {TRUE})
  \cup Environment(BOOLEAN, BOOLEAN, {"runserver", "gunicorn"}, {FALSE})
=============================================================================
