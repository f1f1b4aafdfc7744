------------------------------- MODULE MCReports -------------------------------
EXTENDS Reports
===============================================================================
