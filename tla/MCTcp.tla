------------------------------- MODULE MCTcp -------------------------------
\* Header and body as the HTTP daemon sends them, or no answer yet.
EXTENDS TcpProperties

HeaderAndBody == { <<0, 0>>, <<1, 0>>, <<1, 2>> }
=============================================================================
