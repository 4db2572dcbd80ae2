---------------------------- MODULE MCGameWorker ----------------------------
EXTENDS GameWorker
=============================================================================
