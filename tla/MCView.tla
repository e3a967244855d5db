-------------------------------- MODULE MCView --------------------------------
(***************************************************************************)
(* Small instances of View: one entity, and the model of one weather or    *)
(* the models of two.                                                      *)
(***************************************************************************)
EXTENDS View, TLC

CONSTANTS e1, s1, t1

MCEntities == {e1}
Tornado == {t1}
SnowAndTornado == {s1, t1}
MCWeatherTypes == {"snow", "tornado"}
MCMoving == {"tornado"}
OneTornado == (t1 :> "tornado")
OneEach == (s1 :> "snow") @@ (t1 :> "tornado")
=============================================================================
