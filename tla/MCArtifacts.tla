------------------------------ MODULE MCArtifacts -----------------------------
(* One stage of two workers, whose models give plain paths, paths below the    *)
(* name of the second, and paths that lead out.                                *)
EXTENDS Artifacts

CONSTANTS s, w1, w2, f, report, audit, framer, questionnaire, synthesis

Workers == [st \in {s} |-> <<w1, w2>>]

Given == {<<s, w2, f>>, <<w1, Up, w2, f>>, <<Blank, f>>}

ReportPath == <<report>>
AuditPath == <<audit>>
QuestionnairePath == <<framer, questionnaire>>

Authors == [p \in {ReportPath, AuditPath, QuestionnairePath} |->
               CASE p = ReportPath -> synthesis [] p = AuditPath -> audit [] OTHER -> framer]
===============================================================================
