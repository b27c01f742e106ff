---------------------------- MODULE MCC3Platform ----------------------------
(* The platform connection of the ESP32-C3 example for TLC.                *)
EXTENDS C3Platform

May(crashes, losses, refusals, unbinds, asked, retries, faults) ==
    [crashes |-> crashes, losses |-> losses, refusals |-> refusals,
     unbinds |-> unbinds, requests |-> asked, retries |-> retries, faults |-> faults]

\* A restart with a failure; outages; an unbinding with an outage and a refusal; tokens
\* refused twice; requests across an unbinding; a restart with an unbinding and an outage
FewTroubles ==
    {May(1, 0, 0, 0, 0, 1, 1), May(0, 2, 0, 0, 1, 0, 0), May(0, 1, 1, 1, 1, 0, 0),
     May(0, 0, 2, 0, 1, 1, 0), May(0, 0, 1, 1, 2, 0, 0), May(1, 1, 0, 1, 0, 1, 0)}
=============================================================================
