--------------------------- MODULE MCSurveySignIn ---------------------------
EXTENDS SurveySignIn, TLC
TwoTabs == "t1" :> "s1" @@ "t2" :> "s2"
=============================================================================
