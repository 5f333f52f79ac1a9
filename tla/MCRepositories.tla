---------------------------- MODULE MCRepositories ----------------------------
EXTENDS Repositories
=============================================================================
