------------------------------ MODULE MCStartup ------------------------------
(* Two processes of WeChat and the two ports that the code and main.py name. *)
EXTENDS Startup
=============================================================================
