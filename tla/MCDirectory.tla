---------------------------- MODULE MCDirectory ----------------------------
EXTENDS Directory

CONSTANTS general, random, music, secret, lobby, den, hall, ann
=============================================================================
