--------------------------------- MODULE MCServices ---------------------------------
(***************************************************************************)
(* The background services: the spooler, with a text that is cut, one that *)
(* is not and an empty one, or the three that watch and post; they share   *)
(* nothing.  The spooler's two rings meet only in the service that empties *)
(* both, so that one of them varies at a time while the other has entries  *)
(* of one kind.                                                            *)
(***************************************************************************)
EXTENDS Spooler, Services

VARIABLE part

MCTexts == {<< >>, <<1>>, <<2, 1, 2>>}
OneTone == {CHOOSE tone \in Tones : TRUE}

MCInit == Init /\ ServicesInit /\ part \in {"texts", "tones", "services"}

Others == UNCHANGED <<part, servicesVars>>
Spoolers == UNCHANGED <<part, vars>>

Spooling(texts, tones) ==
  \/ \E text \in texts : SpoolPrint(text)
  \/ \E tone \in tones : SpoolAudioTone(tone)
  \/ AudioSpoolerService

MCNext ==
  \/ part = "texts" /\ Spooling(Texts \ {<< >>}, OneTone) /\ Others
  \/ part = "tones" /\ Spooling({<< >>}, Tones) /\ Others
  \/ part = "services" /\ ServicesNext /\ Spoolers

\* A service is a task and is scheduled again and again.
MCSpec ==
  /\ MCInit /\ [][MCNext]_<<part, vars, servicesVars>>
  /\ WF_vars(part # "services" /\ AudioSpoolerService /\ Others)
  /\ WF_servicesVars(part = "services" /\ ClipboardDaemon /\ Spoolers)

===============================================================================
