---------------------------- MODULE MCUiAdapters ----------------------------
(* One browser session, two pages, two window titles and two geometries. *)
EXTENDS UiAdapters

CONSTANTS s1, p1, p2, t1, t2, b1, g1, g2

OneSession == {s1}
TwoPages == {p1, p2}
TwoTitles == {t1, t2}
OneBody == {b1}
TwoScreens == {g1, g2}

=============================================================================
