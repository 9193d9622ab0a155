--------------------------- MODULE MCServicesProofs ---------------------------
(***************************************************************************)
(* What is proved of each part holds of MCServices, the specification of   *)
(* the run that checks them, for all values of the constants and not only  *)
(* for those of the run.  A behaviour of MCServices follows one part and   *)
(* leaves the variables of the others alone, so that it is a behaviour of  *)
(* each part (Decomposition); the theorems of the parts then carry over.   *)
(***************************************************************************)
EXTENDS MCServices, AccountsProofs, MigrationsProofs, ServicesProofs

LEMMA PartsBegin ==
    SvcInit => /\ part \in Parts
               /\ Init /\ MigInit /\ UfInit /\ PmInit /\ ArInit /\ SeInit /\ ScInit
  BY DEF SvcInit

LEMMA PartsStep ==
    ASSUME [SvcNext]_svcVars
    PROVE  /\ part' = part
           /\ [Next]_vars /\ [MigNext]_migVars /\ [UfNext]_ufVars /\ [PmNext]_pmVars
           /\ [ArNext]_arVars /\ [SeNext]_seVars /\ [ScNext]_scVars
  <1>1. CASE part = "accounts" /\ Next
             /\ UNCHANGED <<part, migVars, ufVars, pmVars, arVars, seVars, scVars>>
    BY <1>1
  <1>2. CASE part = "migrations" /\ MigNext
             /\ UNCHANGED <<part, vars, ufVars, pmVars, arVars, seVars, scVars>>
    BY <1>2
  <1>3. CASE part = "fields" /\ UfNext
             /\ UNCHANGED <<part, vars, migVars, pmVars, arVars, seVars, scVars>>
    BY <1>3
  <1>4. CASE part = "processes" /\ PmNext
             /\ UNCHANGED <<part, vars, migVars, ufVars, arVars, seVars, scVars>>
    BY <1>4
  <1>5. CASE part = "reports" /\ ArNext
             /\ UNCHANGED <<part, vars, migVars, ufVars, pmVars, seVars, scVars>>
    BY <1>5
  <1>6. CASE part = "sessions" /\ SeNext
             /\ UNCHANGED <<part, vars, migVars, ufVars, pmVars, arVars, scVars>>
    BY <1>6
  <1>7. CASE part = "secrets" /\ ScNext
             /\ UNCHANGED <<part, vars, migVars, ufVars, pmVars, arVars, seVars>>
    BY <1>7
  <1>8. CASE UNCHANGED svcVars
    BY <1>8 DEF svcVars
  <1>. QED
    BY <1>1, <1>2, <1>3, <1>4, <1>5, <1>6, <1>7, <1>8 DEF SvcNext

\* A behaviour of MCServices is one of each of its parts, since the parts share no state
\* (each has its own tables, dictionaries and files); all that is proved of a part from its
\* own specification holds of it.
THEOREM Decomposition ==
    SvcSpec => /\ [](part \in Parts)
               /\ Spec /\ MigSpec /\ UfSpec /\ PmSpec /\ ArSpec /\ SeSpec /\ ScSpec
  <1>1. part \in Parts /\ [SvcNext]_svcVars => (part \in Parts)'
    BY PartsStep
  <1>2. [SvcNext]_svcVars =>
          /\ [Next]_vars /\ [MigNext]_migVars /\ [UfNext]_ufVars /\ [PmNext]_pmVars
          /\ [ArNext]_arVars /\ [SeNext]_seVars /\ [ScNext]_scVars
    BY PartsStep
  <1>. QED
    BY <1>1, <1>2, PartsBegin, PTL
       DEF SvcSpec, Spec, MigSpec, UfSpec, PmSpec, ArSpec, SeSpec, ScSpec

\* Every variable of every part keeps its type: files, accounts and rows, tables and
\* their references, fields and versions, processes and patterns, reports, sessions and
\* terminals, rows of secrets and the secrets of Podman.
THEOREM PartsTyped == SvcSpec => []SvcTypeOK
  <1>1. SInv => ScTypeOK
    BY DEF SInv
  <1>. QED
    BY <1>1, Decomposition, AccountsTypeCorrect, MigTyped, FieldsTyped, ProcessesTyped,
       ReportsTyped, SessionsTyped, SecretsInvariance, PTL DEF SvcTypeOK

\* What the parts promise holds in all behaviours of MCServices: ranges of subordinate ids do not overlap,
\* a database is migrated to the model or a start was cut, keys are those the Podman
\* versions take, process links are those of the patterns, reports are told of once, and
\* sessions, terminals and secrets are sound.
THEOREM PartsSound ==
    SvcSpec => /\ []RangesDisjoint
               /\ []MigratedIsModel /\ []FailsOnlyAfterCut /\ OtherUpgradesKeepRows
               /\ []KeysSupported /\ []KeysKept
               /\ []ProcessLinks
               /\ []ReportsToldOnce
               /\ []SessionsSound /\ []TerminalsSound
               /\ []SecretsAgree
  BY Decomposition, RangesApart, MigratesToTheModel, FailsOnlyAfterACut, UpgradesKeepRows,
     KeysAreSupported, KeysAreKept, LinksAgree, ToldOnce, SessionsStaySound,
     TerminalsStaySound, RowAndSecretAgree, PTL

\* Where no helper has the name of an account of another compartment, helpers lie in the
\* range of theirs, a compartment at rest is complete, and operations that end leave
\* nothing behind.
THEOREM AccountsSound ==
    NamesApart => (SvcSpec => []HelpersInRange /\ []CompleteAtRest /\ NothingLeftBehind)
  BY Decomposition, HelpersAnchored, RestComplete, CleanEnds, PTL
=============================================================================
