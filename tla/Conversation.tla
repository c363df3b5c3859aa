---------------------------- MODULE Conversation ----------------------------
(***************************************************************************)
(* What a shopping session promises its buyer: turn after turn is added to *)
(* one history, and a restart takes back at most the turn that was running *)
(* or whose history could not be saved.                                    *)
(***************************************************************************)
EXTENDS Sequences, SequencesExt

CONSTANTS Asks, Outcomes   \* what a turn adds: its question, its outcome

VARIABLES
    history,  \* what the session's agent knows
    saved     \* what a restarted service will know

talkVars == <<history, saved>>

TalkInit == history = <<>> /\ saved = <<>>

AskMore == \E q \in Asks : history' = Append(history, q) /\ UNCHANGED saved

Conclude == \E o \in Outcomes : history' = Append(history, o) /\ UNCHANGED saved

Keep == saved' = history /\ UNCHANGED history

\* After a restart the next turn starts from what was saved.
Resume == history' = saved /\ UNCHANGED saved

TalkNext == AskMore \/ Conclude \/ Keep \/ Resume

TalkSpec == TalkInit /\ [][TalkNext]_talkVars
=============================================================================
