----------------------------- MODULE MCKeyQueue -----------------------------
EXTENDS KeyQueue, TLC

\* Nobody waits for ever: an emitter gets its slot, or its session ends, or keys that
\* the observer adds directly fill the queue; and each session after a failed one
\* scans again (addWait, notify, scanSchedule).
NobodyWaitsForEver == EmitterAdmitted /\ RescanAfterReconnect
=============================================================================
