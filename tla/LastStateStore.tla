--------------------------- MODULE LastStateStore ---------------------------
(***************************************************************************)
(* What state.Store promises a caller whose process may die at any time    *)
(* (internal/state/db.go): SaveLastState replaces the stored state in one  *)
(* step or not at all, and LoadLastState sees the old one or the new one.  *)
(***************************************************************************)
CONSTANTS
    LastStates,     \* the <<Height, Round>> pairs
    NotFound        \* LoadLastState's ErrNotFound

VARIABLES
    value,      \* what LoadLastState returns
    saving,     \* the argument of the SaveLastState under way, or NotFound
    durable     \* what LoadLastState may return after a crash

storeVars == <<value, saving, durable>>

StoreInit == value = NotFound /\ saving = NotFound /\ durable = {NotFound}

SaveBegins(s) ==
    saving = NotFound /\ saving' = s /\ UNCHANGED <<value, durable>>

SaveTakesEffect ==
    /\ saving # NotFound
    /\ value' = saving /\ durable' = durable \cup {saving}
    /\ UNCHANGED saving

\* The call returns, nil or an error; a nil return needs the effect.
SaveReturnsNil ==
    /\ saving # NotFound /\ value = saving
    /\ saving' = NotFound
    /\ durable' \in {durable, {value}}
    /\ UNCHANGED value

SaveFails ==
    /\ saving # NotFound
    /\ saving' = NotFound
    /\ durable' \in {durable, {value}}
    /\ UNCHANGED value

\* Nothing older than the current value can come back any more.
Settle == durable' = {value} /\ UNCHANGED <<value, saving>>

ProcessDies ==
    /\ value' \in durable /\ durable' = {value'}
    /\ saving' = NotFound

StoreNext ==
    \/ \E s \in LastStates : SaveBegins(s)
    \/ SaveTakesEffect \/ SaveReturnsNil \/ SaveFails \/ Settle \/ ProcessDies

StoreSpec == StoreInit /\ [][StoreNext]_storeVars
=============================================================================
