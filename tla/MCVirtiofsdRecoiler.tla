------------------------ MODULE MCVirtiofsdRecoiler ------------------------
EXTENDS VirtiofsdRecoiler
============================================================================
