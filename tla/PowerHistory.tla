----------------------------- MODULE PowerHistory -----------------------------
(***************************************************************************)
(* PowerControl with a history variable that remembers whether the last    *)
(* power command given to the media thread can have been disobeyed.        *)
(***************************************************************************)
EXTENDS PowerControl

VARIABLE missed

\* Every command starts afresh: it overrides those still pending, except that
\* PowerOn does not override a PowerOff in the same word, for the tasks handle
\* PowerOff last.  Later, the command is missed when the mailbox loses a power
\* signal: one that leaves the word without having been read into value.
HistoryInit == Init /\ missed = FALSE

HistoryNext ==
    /\ Next
    /\ LET read == IF pc = "signalled" THEN value ELSE {}
           lost == (flags \ flags') \ read
       IN  missed' = IF power'.state # power.state
                     THEN power'.state = "PowerOn" /\ "PowerOff" \in flags
                     ELSE missed \/ Power \cap lost # {}

HistorySpec == HistoryInit /\ [][HistoryNext]_<<vars, missed>>

\* Once the media thread has taken in all power commands, the display is on
\* exactly when PowerOffTask says PowerOn - unless the last command was lost
\* in the mailbox or put into one word with an opposite one.  The next command
\* that is delivered alone repairs it: missed is reset by every command.
VisualFollowsPower ==
    (Power \cap (flags \cup value) = {} /\ ~missed)
        => (visual = "PowerOff") = (power.state = "PowerOff")
================================================================================
