---------------------------- MODULE MCHttpsLink ----------------------------
\* Three signals of the other threads and two faults: five event loops inside one another.
EXTENDS HttpsLink
=============================================================================
