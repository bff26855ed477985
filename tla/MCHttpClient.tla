---------------------------- MODULE MCHttpClient ----------------------------
EXTENDS HttpClient
=============================================================================
