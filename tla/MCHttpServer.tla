---------------------------- MODULE MCHttpServer ----------------------------
(* HttpServer for TLC; the configuration names the requests.               *)
EXTENDS HttpServer

=============================================================================
