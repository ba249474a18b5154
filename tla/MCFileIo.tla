------------------------------ MODULE MCFileIo ------------------------------
EXTENDS FileIo
===============================================================================
