---- MODULE MCScreenCast ----
EXTENDS ScreenCast
====
