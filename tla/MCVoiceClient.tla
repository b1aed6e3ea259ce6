--------------------------- MODULE MCVoiceClient ---------------------------
(* Instances of VoiceClient for TLC.                                       *)
EXTENDS VoiceClient, TLC

\* A patient user of the microphone: one click on Start, no change of the
\* tab, no upload, no "New conversation".  Conversations are switched and
\* deleted, requests fail, and a failed GET is taken for "not found".
Patient == {"start", "stop", "history", "gone", "lost", "error"}

Symmetric == Permutations(Calls) \cup Permutations(Mics) \cup Permutations(Recs)
=============================================================================
