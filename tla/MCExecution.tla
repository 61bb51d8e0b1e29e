---------------------------- MODULE MCExecution -----------------------------
(***************************************************************************)
(* Small instances of Execution for TLC.                                   *)
(***************************************************************************)
EXTENDS Execution, TLC

CONSTANTS i1, i2, b1, b2, b3, old, new

Of(i, order, skipped, ms, ds, drift) ==
  [incident |-> i, order |-> order, skipped |-> skipped, materials |-> ms,
   deviations |-> ds, drift |-> drift]

Plain(i, ms) == Of(i, <<1, 2, 3>>, {}, ms, <<>>, FALSE)

Batch(b, m) == <<[batch |-> b, meaning |-> m]>>

Dev(type, step) == [type |-> type, step |-> step]

\* Two steps that protect, and one that repairs.
MCCritical == <<TRUE, TRUE, FALSE>>

\* On i1: batches, one of them twice; steps out of order with and without a
\* word, skipped with and without; a substitution at a critical step with a
\* calibration that drifts.
\* On i2: the first batch in both meanings.
MCRequests ==
  {Plain(i1, Batch(b1, old)), Plain(i1, Batch(b2, old)), Plain(i1, Batch(b2, old) \o Batch(b2, old)),
   Of(i1, <<2, 1, 3>>, {}, Batch(b2, old), <<Dev("step_reorder", 3)>>, FALSE),
   Of(i1, <<1, 3, 2>>, {}, Batch(b3, old), <<>>, FALSE),
   Of(i1, <<1, 2, 3>>, {3}, Batch(b3, old), <<Dev("parameter_deviation", 3)>>, FALSE),
   Of(i1, <<1, 2, 3>>, {3}, Batch(b3, old), <<>>, FALSE),
   Of(i1, <<1, 2, 3>>, {}, Batch(b3, old), <<Dev("material_substitution", 1)>>, TRUE)}
  \cup {Plain(i2, Batch(b1, m)) : m \in {old, new}}

MCSymmetry == Permutations(Handlers)

=============================================================================
